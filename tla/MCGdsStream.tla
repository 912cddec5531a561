---------------------------- MODULE MCGdsStream ----------------------------
(***************************************************************************)
(* GdsStream on a cellview with one element of each kind, on mapped and on *)
(* unmapped layers, and on cellviews that place it in every orientation,   *)
(* once or as an array, at the origin and away from it.  The names in the  *)
(* file exchange those of two cellviews, and one list has a master after   *)
(* the cellview that instantiates it.                                      *)
(***************************************************************************)
EXTENDS GdsStream

Line(obj, gds) == [obj |-> obj, gds |-> gds]
\* <<2, 0>> shares its GDS layer with <<1, 0>>, <<3, 0>> has none.
MCLayerMap == <<Line(<<1, 0>>, <<7, 0>>), Line(<<2, 0>>, <<7, 0>>), Line(<<1, 1>>, <<7, 1>>),
                Line(<<4, 0>>, <<1, 2>>), Line(<<5, 0>>, <<9, 0>>)>>
MCObjectMap == <<Line("PR", <<8, 0>>), Line("snap", <<9, 0>>)>>

Box(a, b, c, d) == <<<<a, b>>, <<c, d>>>>
Tri(a) == <<<<a, 0>>, <<a + 2, 0>>, <<a, 3>>>>
Via(cut, a) == [bot |-> <<1, 0>>, cut |-> cut, top |-> <<5, 0>>, bot_box |-> Box(a, 0, a + 4, 2),
                top_box |-> Box(a, 0, a + 2, 4), cuts |-> <<Box(a, 0, a + 1, 1), Box(a, 2, a + 1, 3)>>]
Label(key) == [key |-> key, text |-> "lab", xform |-> MakeXform(<<1, 1>>, "MYR90"), mag |-> TRUE]

Leaf(labels) ==
  [insts |-> << >>,
   geos |-> <<[key |-> <<1, 0>>, polys |-> <<Tri(0), Tri(5)>>], [key |-> <<2, 0>>, polys |-> <<Tri(10)>>],
              [key |-> <<3, 0>>, polys |-> <<Tri(15)>>]>>,
   vias |-> <<Via(<<4, 0>>, 20), Via(<<3, 0>>, 30)>>,
   pins |-> <<[lay |-> 1, label |-> "p", box |-> Box(0, 0, 2, 6)], [lay |-> 1, label |-> "nn", box |-> Box(0, 0, 0, 6)],
              [lay |-> 5, label |-> "q", box |-> Box(0, 0, 2, 6)]>>,
   labels |-> labels,
   bnds |-> <<[type |-> "PR", poly |-> Tri(40)], [type |-> "snap", poly |-> Tri(45)]>>]

Inst(master, o, at, n) == [name |-> "X", master |-> master, xform |-> MakeXform(at, o), n |-> n, sp |-> <<6, 10>>]
OnlyInsts(insts) == [Leaf(<< >>) EXCEPT !.insts = insts, !.geos = << >>, !.vias = << >>, !.pins = << >>, !.bnds = << >>]

\* A top cellview for each orientation.
Top(o) == OnlyInsts(<<Inst("leaf", o, <<3, -2>>, <<1, 1>>), Inst("leaf2", o, <<0, 0>>, <<2, 3>>),
                      Inst("leaf", o, <<-4, 5>>, <<1, 2>>)>>)
MCCellviews ==
  [c \in {"leaf", "leaf2", "void", "pair"} \cup Orientation |->
     IF c \in Orientation THEN Top(c)
     ELSE IF c = "leaf" THEN Leaf(<<Label(<<1, 2>>)>>)
     ELSE IF c = "void" THEN OnlyInsts(<< >>)
     ELSE IF c = "pair" THEN OnlyInsts(<<Inst("leaf", "R0", <<0, 0>>, <<1, 1>>), Inst("void", "MX", <<0, 0>>, <<1, 1>>)>>)
     ELSE OnlyInsts(<<Inst("leaf", "R0", <<0, 0>>, <<1, 1>>)>>)]

As(cv, name) == [cv |-> cv, name |-> name]
MCLists ==
  {<<As("leaf", "leaf2"), As("leaf2", "leaf"), As(o, "top")>> : o \in Orientation}
    \cup {<<As("leaf", "void"), As("void", "leaf"), As("pair", "pair")>>,
          <<As("leaf2", "leaf2"), As("leaf", "leaf")>>, << >>}
\* The list whose arrays are not turned.
MCStraightLists == {<<As("leaf", "leaf2"), As("leaf2", "leaf"), As("R0", "top")>>}
MCOddNames == {"p", "lab", "top", "leaf2"}

\* Files of other writers: a reference without a name, magnified and turned by half a
\* turn or by an angle that is refused, another property, a box of another layer, a
\* box that is not one.
Struct(name, recs) == Mark("BGNSTR") \o <<Rec("STRNAME", name)>> \o recs \o Mark("ENDSTR")
File(recs) == FileHeader \o Struct("leaf", BoxRecords(<<3, 3>>, Box(0, 0, 1, 1))) \o Struct("top", recs) \o Mark("ENDLIB")
Ref(angle, tail) ==
  Mark("SREF") \o <<Rec("SNAME", "leaf"), Rec("STRANS", TRUE)>> \o Mark("MAG")
    \o <<Rec("ANGLE", angle), Rec("XY", <<<<1, 2>>>>)>> \o tail
Foreigners ==
  {File(Ref(180, Mark("ENDEL"))), File(Ref(45, Mark("ENDEL"))),
   File(Ref(90, <<Rec("PROPATTR", "other"), Rec("PROPVALUE", "X")>> \o Mark("ENDEL"))),
   File(PolygonRecords(<<8, 0>>, Tri(0))), File(TextRecords(<<7, 0>>, "p", MakeXform(<<1, 1>>, "R0"), FALSE)),
   File(TextRecords(<<3, 3>>, "p", MakeXform(<<1, 1>>, "R0"), FALSE)),
   File(Mark("BOX") \o <<Rec("LAYER", 7), Rec("BOXTYPE", 0), Rec("XY", Tri(0))>> \o Mark("ENDEL"))}
=============================================================================
