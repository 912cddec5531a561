----------------------------- MODULE GdsStream -----------------------------
(***************************************************************************)
(* A GDSII file, written by implement_gds and read back by read_gds.  The  *)
(* file is a sequence of records; the writer appends the records of one    *)
(* element at a time, and the file may be left cut short, by an exception  *)
(* or by the end of the process.  The reader looks at one header at a time *)
(* and throws at the first record it does not expect.                      *)
(*                                                                         *)
(* A layer is a pair of numbers, of the technology or of the file.  Times, *)
(* units and the sizes of texts are left out, and so are the names of the  *)
(* instances that are read (see InstNaming).  A record that is itself cut  *)
(* short fails at the next header at the latest, as past the end of the    *)
(* file every byte is 0xff: it is left out like the records after it.      *)
(***************************************************************************)
EXTENDS Transforms, Sequences, SequencesExt, Dict

CONSTANTS
  Cellviews,  \* the layouts by name: insts, geometries, vias, pins, labels, boundaries
  Lists,      \* the lists that are written: sequences of [cv, name in the file]
  OddNames,   \* the names and texts with an odd number of characters
  LayerMap,   \* the lines of the layer map file: sequences of [obj, gds]
  ObjectMap,  \* the lines of the object map file
  PinPurpose, MakePin,  \* of the technology
  Foreign,    \* other files that are read
  None

IsSeq(s) == s \in Seq(ToSet(s))
IsPair(p) == p = <<p[1], p[2]>>
Rect == Point \X Point
Counts == (Nat \ {0}) \X (Nat \ {0})

IsMap(lines) ==
  /\ IsSeq(lines)
  /\ \A line \in ToSet(lines) : IsPair(line.gds) /\ line.gds # None /\ line.obj # None

\* The names of a list and its cellviews are different ones; a layer is a pair.
ASSUME GdsAssumption ==
  /\ \A l \in Lists :
       /\ IsSeq(l)
       /\ \A i, j \in DOMAIN l :
            /\ l[i].cv \in DOMAIN Cellviews
            /\ i # j => l[i].cv # l[j].cv /\ l[i].name # l[j].name
  /\ IsMap(LayerMap) /\ IsMap(ObjectMap)
  /\ MakePin \in BOOLEAN

\* A layout is of the types of cybag; its polygons have points.
IsPolygon(poly) == poly \in Seq(Point) /\ poly # << >>
IsLayout(cv) ==
  /\ IsSeq(cv.insts) /\ IsSeq(cv.geos) /\ IsSeq(cv.vias) /\ IsSeq(cv.pins) /\ IsSeq(cv.labels) /\ IsSeq(cv.bnds)
  /\ \A inst \in ToSet(cv.insts) : inst.xform \in Xform /\ inst.n \in Counts /\ inst.sp \in Point
  /\ \A geo \in ToSet(cv.geos) : IsSeq(geo.polys) /\ \A poly \in ToSet(geo.polys) : IsPolygon(poly)
  /\ \A via \in ToSet(cv.vias) : via.bot_box \in Rect /\ via.top_box \in Rect /\ via.cuts \in Seq(Rect)
  /\ \A pin \in ToSet(cv.pins) : pin.box \in Rect
  /\ \A label \in ToSet(cv.labels) : IsPair(label.key) /\ label.xform \in Xform /\ label.mag \in BOOLEAN
  /\ \A bnd \in ToSet(cv.bnds) : IsPolygon(bnd.poly)

\* A record that was decoded: points are pairs of numbers; an array has rows and columns,
\* by whose numbers the reader divides.
IsRecord(r) ==
  /\ r = [type |-> r.type, val |-> r.val]
  /\ r.type = "XY" => r.val \in Seq(Point)
  /\ r.type = "COLROW" => r.val \in Counts
ASSUME LayoutsAssumption ==
  /\ \A c \in DOMAIN Cellviews : IsLayout(Cellviews[c])
  /\ \A f \in Foreign : IsSeq(f) /\ \A r \in ToSet(f) : IsRecord(r)

VARIABLES
  list,        \* the cellviews to write
  file,        \* the records
  written,     \* the number of cellviews written
  left,        \* the elements of the current one that are not written yet
  rename_map,  \* the names of the cellviews in the file
  writer,      \* "start", "idle", "cell", "done" or, with the file cut short, "cut"
  pos,         \* the next record to read
  cells,       \* the cellviews read
  cur,         \* the one being read
  reader       \* "start", "idle", "cell", "done" or, after an exception, "error"

writer_vars == <<list, file, written, left, rename_map, writer>>
reader_vars == <<pos, cells, cur, reader>>
vars == <<list, file, written, left, rename_map, writer, pos, cells, cur, reader>>

Rec(type, val) == [type |-> type, val |-> val]
Mark(type) == <<Rec(type, None)>>

\* The first line for a key counts.
FirstOf(S) == CHOOSE i \in S : \A j \in S : i <= j
Lookup(lines, key) ==
  LET found == {i \in DOMAIN lines : lines[i].obj = key}
  IN  IF found = {} THEN None ELSE lines[FirstOf(found)].gds
ReverseLookup(lines, gds) ==
  LET found == {i \in DOMAIN lines : lines[i].gds = gds}
  IN  IF found = {} THEN None ELSE lines[FirstOf(found)].obj

-----------------------------------------------------------------------------
(***************************************************************************)
(* The records of an element.                                              *)
(***************************************************************************)

Angle(o) ==
  CASE o \in {"R0", "MX"} -> 0 [] o \in {"R90", "MXR90"} -> 90
    [] o \in {"R180", "MY"} -> 180 [] o \in {"R270", "MYR90"} -> 270
Mirrored(o) == o \in {"MX", "MXR90", "MY", "MYR90"}

\* A slip: the two orientations that exchange the axes after a mirror confused.
OrientRecords_Swapped(o, mag) ==
  LET q == CASE o = "MXR90" -> "MYR90" [] o = "MYR90" -> "MXR90" [] OTHER -> o
  IN  <<Rec("STRANS", Mirrored(q))>> \o (IF mag THEN Mark("MAG") ELSE << >>)
        \o (IF Angle(q) # 0 THEN <<Rec("ANGLE", Angle(q))>> ELSE << >>)

\* write_transform up to the coordinates; mag, when a magnification is written.
OrientRecords(o, mag) ==
  <<Rec("STRANS", Mirrored(o))>> \o (IF mag THEN Mark("MAG") ELSE << >>)
    \o (IF Angle(o) # 0 THEN <<Rec("ANGLE", Angle(o))>> ELSE << >>)

\* The three points of an array: its origin, and the origin moved by all columns and
\* by all rows.
ArrayPoints(x, arr) ==
  <<x.loc, Apply(x, <<arr.sp[1] * arr.n[1], 0>>), Apply(x, <<0, arr.sp[2] * arr.n[2]>>)>>

IsArray(n) == n[1] > 1 \/ n[2] > 1

\* write_transform from there: where the instance or the array is.
PlaceRecords(inst) ==
  LET arr == ConvertArray(inst.xform, inst.n, inst.sp)
  IN  IF IsArray(inst.n)
      THEN <<Rec("COLROW", arr.n), Rec("XY", ArrayPoints(inst.xform, arr))>>
      ELSE <<Rec("XY", <<inst.xform.loc>>)>>

\* The name of an instance is a property of its element.
PropInstName(name) == <<Rec("PROPATTR", "inst_name"), Rec("PROPVALUE", name)>>

InstRecords(inst) ==
  Mark(IF IsArray(inst.n) THEN "AREF" ELSE "SREF")
    \o <<Rec("SNAME", IF Has(rename_map, inst.master) THEN rename_map[inst.master]
                      ELSE inst.master)>>
    \o OrientRecords(inst.xform.orient, FALSE) \o PlaceRecords(inst)
    \o PropInstName(inst.name) \o Mark("ENDEL")

PolygonRecords(gds, poly) ==
  Mark("BOUNDARY") \o <<Rec("LAYER", gds[1]), Rec("DATATYPE", gds[2]),
                        Rec("XY", Append(poly, poly[1]))>> \o Mark("ENDEL")

BoxPoints(b) == <<b[1], <<b[2][1], b[1][2]>>, b[2], <<b[1][1], b[2][2]>>>>
BoxRecords(gds, b) ==
  Mark("BOX") \o <<Rec("LAYER", gds[1]), Rec("BOXTYPE", gds[2]),
                   Rec("XY", Append(BoxPoints(b), b[1]))>> \o Mark("ENDEL")

TextRecords(gds, text, x, mag) ==
  Mark("TEXT") \o <<Rec("LAYER", gds[1]), Rec("TEXTTYPE", gds[2]), Rec("PRESENTATION", None)>>
    \o OrientRecords(x.orient, mag) \o <<Rec("XY", <<x.loc>>), Rec("STRING", text)>>
    \o Mark("ENDEL")

Concat(s) == FlattenSeq(s)

\* A geometry without a GDS layer is skipped, a via when one of its three layers has none.
GeoRecords(geo) ==
  LET gds == Lookup(LayerMap, geo.key)
  IN  IF gds = None THEN << >>
      ELSE Concat([i \in DOMAIN geo.polys |-> PolygonRecords(gds, geo.polys[i])])

ViaMapped(via) == \A k \in {via.bot, via.cut, via.top} : Lookup(LayerMap, k) # None

\* A slip: each layer of a via looked up for itself.
ViaRecords_Partial(via) ==
  LET Boxes(key, boxes) ==
        IF Lookup(LayerMap, key) = None THEN << >>
        ELSE Concat([i \in DOMAIN boxes |-> BoxRecords(Lookup(LayerMap, key), boxes[i])])
  IN  Boxes(via.bot, <<via.bot_box>>) \o Boxes(via.top, <<via.top_box>>) \o Boxes(via.cut, via.cuts)

ViaRecords(via) ==
  IF ~ViaMapped(via) THEN << >>
  ELSE BoxRecords(Lookup(LayerMap, via.bot), via.bot_box)
         \o BoxRecords(Lookup(LayerMap, via.top), via.top_box)
         \o Concat([i \in DOMAIN via.cuts |-> BoxRecords(Lookup(LayerMap, via.cut), via.cuts[i])])

\* A pin becomes a text along its longer side, and a box when the technology says so.
Width(b) == b[2][1] - b[1][1]
Height(b) == b[2][2] - b[1][2]
Physical(b) == Width(b) > 0 /\ Height(b) > 0
Center(b) == <<(b[1][1] + b[2][1]) \div 2, (b[1][2] + b[2][2]) \div 2>>
PinRecords(pin) ==
  LET gds == Lookup(LayerMap, <<pin.lay, PinPurpose>>)
      o == IF Height(pin.box) > Width(pin.box) THEN "R90" ELSE "R0"
  IN  IF gds = None \/ ~Physical(pin.box) THEN << >>
      ELSE TextRecords(gds, pin.label, MakeXform(Center(pin.box), o), TRUE)
             \o (IF MakePin THEN BoxRecords(gds, pin.box) ELSE << >>)

\* The layer of a label is written as it is, without the map.
LabelRecords(label) == TextRecords(label.key, label.text, label.xform, label.mag)

BoundaryRecords(bnd) ==
  LET gds == Lookup(ObjectMap, bnd.type)
  IN  IF gds = None THEN << >> ELSE PolygonRecords(gds, bnd.poly)

Elem(kind, val) == [kind |-> kind, val |-> val]
Elems(kind, s) == [i \in DOMAIN s |-> Elem(kind, s[i])]
Elements(cv) ==
  Elems("inst", cv.insts) \o Elems("geo", cv.geos) \o Elems("via", cv.vias)
    \o Elems("pin", cv.pins) \o Elems("label", cv.labels) \o Elems("bnd", cv.bnds)

Records(e) ==
  CASE e.kind = "inst" -> InstRecords(e.val)  [] e.kind = "geo" -> GeoRecords(e.val)
    [] e.kind = "via" -> ViaRecords(e.val)    [] e.kind = "pin" -> PinRecords(e.val)
    [] e.kind = "label" -> LabelRecords(e.val) [] e.kind = "bnd" -> BoundaryRecords(e.val)

-----------------------------------------------------------------------------
(***************************************************************************)
(* The writer.                                                             *)
(***************************************************************************)

LibBegin(name) == Mark("BGNLIB") \o <<Rec("LIBNAME", name)>>
FileHeader == Mark("HEADER") \o LibBegin("lib") \o Mark("UNITS")
StructBegin(name) == Mark("BGNSTR") \o <<Rec("STRNAME", name)>>

WriteStart ==
  /\ writer = "start"
  /\ file' = FileHeader
  /\ writer' = "idle"
  /\ UNCHANGED <<list, written, left, rename_map>> /\ UNCHANGED reader_vars

BeginStruct ==
  /\ writer = "idle" /\ written < Len(list)
  /\ LET entry == list[written + 1]
     IN  /\ file' = file \o StructBegin(entry.name)
         /\ left' = Elements(Cellviews[entry.cv])
  /\ writer' = "cell"
  /\ UNCHANGED <<list, written, rename_map>> /\ UNCHANGED reader_vars

WriteElement ==
  /\ writer = "cell" /\ left # << >>
  /\ file' = file \o Records(Head(left))
  /\ left' = Tail(left)
  /\ UNCHANGED <<list, written, rename_map, writer>> /\ UNCHANGED reader_vars

\* A slip: the new name not recorded.
EndStruct_NoRename ==
  /\ writer = "cell" /\ left = << >>
  /\ file' = file \o Mark("ENDSTR")
  /\ written' = written + 1
  /\ writer' = "idle"
  /\ UNCHANGED <<list, left, rename_map>> /\ UNCHANGED reader_vars

EndStruct ==
  /\ writer = "cell" /\ left = << >>
  /\ file' = file \o Mark("ENDSTR")
  /\ rename_map' = InsertOrAssign(rename_map, list[written + 1].cv, list[written + 1].name)
  /\ written' = written + 1
  /\ writer' = "idle"
  /\ UNCHANGED <<list, left>> /\ UNCHANGED reader_vars

WriteStop ==
  /\ writer = "idle" /\ written = Len(list)
  /\ file' = file \o Mark("ENDLIB")
  /\ writer' = "done"
  /\ UNCHANGED <<list, written, left, rename_map>> /\ UNCHANGED reader_vars

\* A slip: the destructor of the writer ends the library.
Cut_EndsLib ==
  /\ writer \in {"idle", "cell"}
  /\ file' = file \o Mark("ENDSTR") \o Mark("ENDLIB")
  /\ writer' = "cut"
  /\ UNCHANGED <<list, written, left, rename_map>> /\ UNCHANGED reader_vars

\* An exception, which leaves what was written so far, or the end of the process,
\* which may lose what was still in the buffer.
Cut ==
  /\ writer \in {"idle", "cell"}
  /\ \E n \in 0 .. Len(file) : file' = SubSeq(file, 1, n)
  /\ writer' = "cut"
  /\ UNCHANGED <<list, written, left, rename_map>> /\ UNCHANGED reader_vars

-----------------------------------------------------------------------------
(***************************************************************************)
(* The elements of the file, as the reader takes them from position i on.  *)
(***************************************************************************)

Type(i) == IF i \in DOMAIN file THEN file[i].type ELSE "EOF"
Types(i, types) == \A k \in DOMAIN types : Type(i + k - 1) = types[k]
Val(i) == file[i].val

\* A name of odd length is padded with a zero byte, which is read as part of it.
NameAt(i) == [id |-> Val(i), nul |-> Val(i) \in OddNames]
GdsAt(i) == <<Val(i), Val(i + 1)>>

\* read_transform_info, from the record STRANS on: the record after it, and what it says.
OrientEnd(i) ==
  IF Type(i + 1) = "MAG" THEN (IF Type(i + 2) = "ANGLE" THEN i + 3 ELSE i + 2)
  ELSE IF Type(i + 1) = "ANGLE" THEN i + 2 ELSE i + 1

Rotation(angle) == CASE angle = 0 -> "R0" [] angle = 90 -> "R90" [] angle = 180 -> "R180" [] angle = 270 -> "R270"
AngleAt(i) == LET last == OrientEnd(i) - 1 IN IF Type(last) = "ANGLE" THEN Val(last) ELSE 0

\* A slip: the rotation before the mirror.
OrientAt_RotatesFirst(i) == Then(Rotation(AngleAt(i)), IF Val(i) THEN "MX" ELSE "R0")

OrientAt(i) == Then(IF Val(i) THEN "MX" ELSE "R0", Rotation(AngleAt(i)))
OrientOK(i) == Type(i) = "STRANS" /\ AngleAt(i) \in {0, 90, 180, 270}

Points(i, n) == Type(i) = "XY" /\ Len(Val(i)) = n

TextEnd(i) == OrientEnd(i + 4) + 3
TextOK(i) ==
  /\ Types(i, <<"TEXT", "LAYER", "TEXTTYPE", "PRESENTATION">>) /\ OrientOK(i + 4)
  /\ Points(TextEnd(i) - 3, 1) /\ Types(TextEnd(i) - 2, <<"STRING", "ENDEL">>)
  /\ ReverseLookup(LayerMap, GdsAt(i + 1)) # None

\* read_inst_name at the end of an instance.
NamedAt(i) == Types(i, <<"PROPATTR", "PROPVALUE", "ENDEL">>) /\ Val(i) = "inst_name"
NameOK(i) == Type(i) = "ENDEL" \/ NamedAt(i)
NameEnd(i) == IF Type(i) = "ENDEL" THEN i + 1 ELSE i + 3

Masters(name) == {j \in DOMAIN cells : cells[j].name = name}
MasterAt(i) == FirstOf(Masters(NameAt(i)))
RefOK(i) == Type(i + 1) = "SNAME" /\ Masters(NameAt(i + 1)) # {} /\ OrientOK(i + 2)

InstOK(i) ==
  /\ Type(i) = "SREF" /\ RefOK(i) /\ Points(OrientEnd(i + 2), 1) /\ NameOK(OrientEnd(i + 2) + 1)
ArrOK(i) ==
  /\ Type(i) = "AREF" /\ RefOK(i) /\ Type(OrientEnd(i + 2)) = "COLROW"
  /\ Points(OrientEnd(i + 2) + 1, 3) /\ NameOK(OrientEnd(i + 2) + 2)

ShapeOK(i) ==
  \/ Types(i, <<"BOX", "LAYER", "BOXTYPE", "XY", "ENDEL">>) /\ Points(i + 3, 5)
  \/ Types(i, <<"BOUNDARY", "LAYER", "DATATYPE", "XY", "ENDEL">>)

-----------------------------------------------------------------------------
(***************************************************************************)
(* The reader.                                                             *)
(***************************************************************************)

NoCell == [name |-> None, insts |-> << >>, shapes |-> {}, bnds |-> {}, labels |-> << >>]

\* A slip: the file opened while it is still being written.
ReadStart_Early ==
  /\ reader = "start"
  /\ Types(pos, <<"HEADER", "BGNLIB", "LIBNAME", "UNITS">>)
  /\ pos' = pos + 4
  /\ reader' = "idle"
  /\ UNCHANGED <<cells, cur>> /\ UNCHANGED writer_vars

ReadStart ==
  /\ reader = "start" /\ writer \in {"done", "cut"}
  /\ Types(pos, <<"HEADER", "BGNLIB", "LIBNAME", "UNITS">>)
  /\ pos' = pos + 4
  /\ reader' = "idle"
  /\ UNCHANGED <<cells, cur>> /\ UNCHANGED writer_vars

ReadStruct ==
  /\ reader = "idle" /\ Types(pos, <<"BGNSTR", "STRNAME">>)
  /\ cur' = [NoCell EXCEPT !.name = NameAt(pos + 1)]
  /\ pos' = pos + 2
  /\ reader' = "cell"
  /\ UNCHANGED cells /\ UNCHANGED writer_vars

ReadText ==
  /\ reader = "cell" /\ TextOK(pos)
  /\ cur' = [cur EXCEPT !.labels =
               Append(@, [key |-> ReverseLookup(LayerMap, GdsAt(pos + 1)),
                          xform |-> MakeXform(Val(TextEnd(pos) - 3)[1], OrientAt(pos + 4)),
                          text |-> NameAt(TextEnd(pos) - 2)])]
  /\ pos' = TextEnd(pos)
  /\ UNCHANGED <<cells, reader>> /\ UNCHANGED writer_vars

ReadInstance ==
  /\ reader = "cell" /\ InstOK(pos)
  /\ LET at == OrientEnd(pos + 2)
     IN  /\ cur' = [cur EXCEPT !.insts =
                      Append(@, [master |-> MasterAt(pos + 1), n |-> <<1, 1>>, sp |-> <<0, 0>>,
                                 xform |-> MakeXform(Val(at)[1], OrientAt(pos + 2))])]
         /\ pos' = NameEnd(at + 1)
  /\ UNCHANGED <<cells, reader>> /\ UNCHANGED writer_vars

\* C++ division.
Div(a, b) == IF a >= 0 THEN a \div b ELSE -((-a) \div b)

ReadArrInstance ==
  /\ reader = "cell" /\ ArrOK(pos)
  /\ LET at == OrientEnd(pos + 2)
         n  == Val(at)
         xy == Val(at + 1)
         x  == MakeXform(xy[1], OrientAt(pos + 2))
         arr == ConvertGdsArray(x, n, <<Div(xy[2][1], n[1]), Div(xy[3][2], n[2])>>)
     IN  /\ cur' = [cur EXCEPT !.insts =
                      Append(@, [master |-> MasterAt(pos + 1), n |-> arr.n, sp |-> arr.sp, xform |-> x])]
         /\ pos' = NameEnd(at + 2)
  /\ UNCHANGED <<cells, reader>> /\ UNCHANGED writer_vars

\* A slip: the boundaries looked up before the layers.
AddObject_BoundaryFirst(cell, gds, pts) ==
  LET key == ReverseLookup(LayerMap, gds)
      bnd == ReverseLookup(ObjectMap, gds)
  IN  IF bnd # None THEN [cell EXCEPT !.bnds = @ \cup {[type |-> bnd, pts |-> pts]}]
      ELSE IF key # None THEN [cell EXCEPT !.shapes = @ \cup {[key |-> key, pts |-> pts]}]
      ELSE cell

\* add_object: a shape of the layer, a boundary, or nothing.
AddObject(cell, gds, pts) ==
  LET key == ReverseLookup(LayerMap, gds)
      bnd == ReverseLookup(ObjectMap, gds)
  IN  IF key # None THEN [cell EXCEPT !.shapes = @ \cup {[key |-> key, pts |-> pts]}]
      ELSE IF bnd # None THEN [cell EXCEPT !.bnds = @ \cup {[type |-> bnd, pts |-> pts]}]
      ELSE cell

ReadShape ==
  /\ reader = "cell" /\ ShapeOK(pos)
  /\ cur' = AddObject(cur, GdsAt(pos + 1), ToSet(Val(pos + 3)))
  /\ pos' = pos + 5
  /\ UNCHANGED <<cells, reader>> /\ UNCHANGED writer_vars

ReadEndStruct ==
  /\ reader = "cell" /\ Type(pos) = "ENDSTR"
  /\ cells' = Append(cells, cur)
  /\ cur' = NoCell
  /\ pos' = pos + 1
  /\ reader' = "idle"
  /\ UNCHANGED writer_vars

ReadStop ==
  /\ reader = "idle" /\ Type(pos) = "ENDLIB"
  /\ reader' = "done"
  /\ UNCHANGED <<pos, cells, cur>> /\ UNCHANGED writer_vars

Unexpected ==
  CASE reader = "start" -> ~Types(pos, <<"HEADER", "BGNLIB", "LIBNAME", "UNITS">>)
    [] reader = "idle" -> ~Types(pos, <<"BGNSTR", "STRNAME">>) /\ Type(pos) # "ENDLIB"
    [] reader = "cell" -> ~(TextOK(pos) \/ InstOK(pos) \/ ArrOK(pos) \/ ShapeOK(pos))
                            /\ Type(pos) # "ENDSTR"
    [] reader \in {"done", "error"} -> FALSE

Refuse ==
  /\ writer \in {"done", "cut"} /\ Unexpected
  /\ reader' = "error"
  /\ UNCHANGED <<pos, cells, cur>> /\ UNCHANGED writer_vars

-----------------------------------------------------------------------------
InitReader == pos = 1 /\ cells = << >> /\ cur = NoCell /\ reader = "start"

\* A file of this writer, to be written, or one of another writer.
Init ==
  /\ InitReader
  /\ written = 0 /\ left = << >> /\ rename_map = EmptyDict
  /\ \/ list \in Lists /\ file = << >> /\ writer = "start"
     \/ list = << >> /\ file \in Foreign /\ writer = "done"

NextWriter == WriteStart \/ BeginStruct \/ WriteElement \/ EndStruct \/ WriteStop \/ Cut
NextReader ==
  \/ ReadStart \/ ReadStruct \/ ReadText \/ ReadInstance \/ ReadArrInstance \/ ReadShape
  \/ ReadEndStruct \/ ReadStop \/ Refuse
Next == NextWriter \/ NextReader

Spec == Init /\ [][Next]_vars

-----------------------------------------------------------------------------
(***************************************************************************)
(* Properties.                                                             *)
(***************************************************************************)

\* The shape of the variables; the reader never goes past the end of the file.
TypeOK ==
  /\ \A i \in DOMAIN file : DOMAIN file[i] = {"type", "val"}
  /\ written \in 0 .. Len(list)
  /\ DOMAIN rename_map \subseteq DOMAIN Cellviews
  /\ writer \in {"start", "idle", "cell", "done", "cut"}
  /\ pos \in 1 .. Len(file) + 1
  /\ \A c \in {cells[i] : i \in DOMAIN cells} \cup {cur} : \A k \in DOMAIN c.insts :
       c.insts[k].xform \in Xform /\ c.insts[k].n \in Nat \X Nat /\ c.insts[k].sp \in Point
  /\ reader \in {"start", "idle", "cell", "done", "error"}

\* The cellview that was written as number i.
Source(i) == Cellviews[list[i].cv]

\* The layers and boundaries that the two maps bring back to themselves.
LayerKept(key) == LET gds == Lookup(LayerMap, key) IN gds # None /\ ReverseLookup(LayerMap, gds) = key
BoundaryKept(type) ==
  LET gds == Lookup(ObjectMap, type)
  IN  gds # None /\ ReverseLookup(LayerMap, gds) = None /\ ReverseLookup(ObjectMap, gds) = type

GeoShapes(cv) ==
  UNION {{[key |-> g.key, pts |-> ToSet(p)] : p \in ToSet(g.polys)} : g \in ToSet(cv.geos)}
BoxShapes(key, boxes) == {[key |-> key, pts |-> ToSet(BoxPoints(b))] : b \in boxes}
ViaShapes(cv) ==
  UNION {BoxShapes(v.bot, {v.bot_box}) \cup BoxShapes(v.top, {v.top_box}) \cup BoxShapes(v.cut, ToSet(v.cuts)) :
           v \in {w \in ToSet(cv.vias) : ViaMapped(w)}}
PinShapes(cv) ==
  UNION {IF MakePin /\ Physical(p.box) THEN BoxShapes(<<p.lay, PinPurpose>>, {p.box}) ELSE {} :
           p \in ToSet(cv.pins)}
Shapes(cv) == GeoShapes(cv) \cup ViaShapes(cv) \cup PinShapes(cv)

ShapesSurvive ==
  \A i \in DOMAIN cells \cap DOMAIN list :
    /\ {s \in Shapes(Source(i)) : LayerKept(s.key)} \subseteq cells[i].shapes
    /\ \A s \in cells[i].shapes :
         \/ \E t \in Shapes(Source(i)) :
              t.pts = s.pts /\ s.key = ReverseLookup(LayerMap, Lookup(LayerMap, t.key))
         \/ \E b \in ToSet(Source(i).bnds) :
              ToSet(b.poly) = s.pts /\ s.key = ReverseLookup(LayerMap, Lookup(ObjectMap, b.type))
    /\ {[type |-> b.type, pts |-> ToSet(b.poly)] :
          b \in {c \in ToSet(Source(i).bnds) : BoundaryKept(c.type)}} \subseteq cells[i].bnds

\* The list has each master before the cellviews that instantiate it.
InOrder ==
  \A i \in DOMAIN list : \A inst \in ToSet(Source(i).insts) :
    \E j \in 1 .. i - 1 : list[j].cv = inst.master

InstancesSurvive ==
  InOrder =>
    \A i \in DOMAIN cells \cap DOMAIN list :
      /\ Len(cells[i].insts) = Len(Source(i).insts)
      /\ \A k \in DOMAIN cells[i].insts :
           /\ cells[i].insts[k].xform = Source(i).insts[k].xform
           /\ list[cells[i].insts[k].master].cv = Source(i).insts[k].master
           /\ cells[i].insts[k].n = Source(i).insts[k].n

\* A cellview that was read, even from a file cut short later, has every shape and
\* boundary of the one written whose layer the maps bring back, and on those layers
\* no other: no element is lost, doubled onto another layer, or read as another kind.
\* It has the instances of the one written, in order, each with its orientation and its
\* place, and with the cellview for a master that was written for its master, whatever
\* the cellviews are renamed to.
CellsSurvive == ShapesSurvive /\ InstancesSurvive

\* Every text is on a layer whose number, unmapped, is that of a layer in the file.
LabelsMapped ==
  \A i \in DOMAIN list : \A l \in ToSet(Source(i).labels) : ReverseLookup(LayerMap, l.key) # None

\* The reader accepts a file of the writer exactly when it is whole, and then it has
\* read every cellview of the list.
WholeFilesAccepted ==
  list # << >> =>
    /\ reader = "done" => writer = "done" /\ Len(cells) = Len(list)
    /\ reader = "error" /\ InOrder /\ LabelsMapped => writer = "cut"

\* An array is read with the pitch it was written with: the conversion of the writer
\* and that of the reader are meant to undo each other.
ArraysSurvive ==
  InOrder =>
    \A i \in DOMAIN cells \cap DOMAIN list : \A k \in DOMAIN cells[i].insts :
      IsArray(Source(i).insts[k].n) => cells[i].insts[k].sp = Source(i).insts[k].sp
=============================================================================
