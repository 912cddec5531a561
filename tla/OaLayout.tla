------------------------------ MODULE OaLayout ------------------------------
(***************************************************************************)
(* The OpenAccess design that write_lay_cellview makes of a layout         *)
(* cellview.  Coordinates are left out: a shape is an identity, a type, a  *)
(* layer with the colour of its mask, and the terminal whose pin it is on. *)
(* A cellview has insts, geos, vias, blocks, areas, bounds, pins, labels.  *)
(***************************************************************************)
EXTENDS Integers, Sequences, SequencesExt

CONSTANTS
  ColorMap,     \* the layers with several masks: their layer in OpenAccess and a colour
  ViaDefs,      \* the vias that the technology library of the output defines
  PinPurpose,   \* the purpose of pins
  MakePin       \* whether the technology asks for pin objects

\* A colour map maps layers to pairs, a polygon has points, and an instance its fields.
ASSUME ColorAssumption == \A l \in DOMAIN ColorMap : ColorMap[l] = <<ColorMap[l][1], ColorMap[l][2]>>
IsLayCellview(cv) ==
  \A geo \in cv.geos :
    geo.polys \in Seq(ToSet(geo.polys)) /\ \A p \in ToSet(geo.polys) : p.points # 0

NoColor == 0
NoTerm == ""

OnLayer(type, layer, purp, id) ==
  [type |-> type, layer |-> layer, purp |-> purp, color |-> NoColor, term |-> NoTerm, id |-> id]

\* A shape on a layer with masks goes to the layer that stands for all of them, coloured.
Colored(s) ==
  IF s.layer \in DOMAIN ColorMap
  THEN [s EXCEPT !.layer = ColorMap[s.layer][1], !.color = ColorMap[s.layer][2]] ELSE s

\* A cellview of the generator goes to the library that is written, under the name it was
\* written with if it was; a reference stays what it is.
InstMaster(inst, lib, view, renames) ==
  IF inst.reference THEN <<inst.lib, inst.cell, inst.view>>
  ELSE <<lib, IF inst.cell \in DOMAIN renames THEN renames[inst.cell] ELSE inst.cell, view>>

CreateLayInst(inst, lib, view, renames) ==
  [master |-> InstMaster(inst, lib, view, renames),
   array |-> inst.nx > 1 \/ inst.ny > 1]

NoPolygon == [points |-> 0, rect |-> FALSE, id |-> "none"]

RecordLast(w) ==
  IF w.last.points = 0 THEN w.out
  ELSE w.out \cup {[type |-> IF w.last.rect THEN "rect" ELSE "polygon", id |-> w.last.id]}

PushBack(w, p) == [last |-> p, out |-> RecordLast(w)]

\* The writer after it was handed the polygons one by one.
Handed(polys) ==
  LET after[i \in 0 .. Len(polys)] ==
        IF i = 0 THEN [last |-> NoPolygon, out |-> {}] ELSE PushBack(after[i - 1], polys[i])
  IN  after[Len(polys)]

\* A slip: the polygon that came last is not recorded at the end.
Polygons_NoLast(polys) == Handed(polys).out

\* What the writer has recorded of the polygons it was handed one by one, each when the
\* next one comes.
Polygons(polys) == RecordLast(Handed(polys))

CreateLayGeometry(geo) ==
  {Colored(OnLayer(p.type, geo.layer, geo.purp, p.id)) : p \in Polygons(geo.polys)}

\* A slip: a via whose definition is unknown ends the vias.
CreateLayVias_Stop(vias) == IF vias \subseteq ViaDefs THEN vias ELSE {}

\* A via whose definition is unknown is skipped.
CreateLayVias(vias) == vias \cap ViaDefs

Blockages(cv) == cv.blocks \cup {<<"area", a>> : a \in cv.areas}

\* A PR boundary falls through to the snap boundary.
Boundaries(bounds) == bounds \cup (IF "PR" \in bounds THEN {"snap"} ELSE {})

\* A pin without a width or a height is skipped.
Physical(pins) == {p \in pins : p.physical}

\* A slip: the rectangle goes to the pin of a terminal named by the label.
PinRects_Label(pins) ==
  {[Colored(OnLayer("rect", p.layer, PinPurpose, p.id)) EXCEPT !.term = p.label] : p \in Physical(pins)}

PinRects(pins) ==
  {[Colored(OnLayer("rect", p.layer, PinPurpose, p.id)) EXCEPT !.term = p.net] : p \in Physical(pins)}

\* The text is on the layer with the mask, but has no color: only the rectangle has.
PinTexts(pins) ==
  {[Colored(OnLayer("text", p.layer, PinPurpose, p.label)) EXCEPT !.color = NoColor]
     : p \in Physical(pins)}

\* The text of each pin, and its rectangle on a pin of its net's terminal.
CreateLayPins(pins) == PinTexts(pins) \cup (IF MakePin THEN PinRects(pins) ELSE {})

\* The terminal of a net is found or made, on the net of its name.
PinTerms(pins) == IF MakePin THEN {p.net : p \in Physical(pins)} ELSE {}

\* The layer of a label is not looked up among those with masks.
CreateLayLabel(lab) == OnLayer("text", lab.layer, lab.purp, lab.text)

EmptyLayout ==
  [type |-> "layout", insts |-> << >>, vias |-> {}, blocks |-> {}, bounds |-> {}, terms |-> {}, shapes |-> {}]

WriteLayCellview(cv, lib, view, renames) ==
  [type |-> "layout",
   insts |-> [n \in DOMAIN cv.insts |-> CreateLayInst(cv.insts[n], lib, view, renames)],
   vias |-> CreateLayVias(cv.vias),
   blocks |-> Blockages(cv),
   bounds |-> Boundaries(cv.bounds),
   terms |-> PinTerms(cv.pins),
   shapes |-> (UNION {CreateLayGeometry(geo) : geo \in cv.geos}) \cup CreateLayPins(cv.pins)
                \cup {CreateLayLabel(lab) : lab \in cv.labels}]
=============================================================================
