---------------------------- MODULE MCOaDatabase ----------------------------
(***************************************************************************)
(* OaDatabase with a library of primitives, a library of templates whose   *)
(* cells instantiate each other (in a cycle), and one that is created and  *)
(* written.  Lists that end, that lack a terminal, that lack a master, that*)
(* clash with a pin's instance or that lack time stamps are written; pins  *)
(* are rectangles and instances, nets are buses with and without their     *)
(* bits, and there are designs that cannot be read.                        *)
(***************************************************************************)
EXTENDS OaDatabase

MCNameOrder == <<"a", "b", "b0", "b1", "c", "d", "leaf", "m1", "m2", "mid", "out", "pin", "prim", "res",
                 "schematic", "symbol", "tmpl">>
MCNetBits == [n \in {MCNameOrder[i] : i \in DOMAIN MCNameOrder} |-> IF n = "b" THEN {"b0", "b1"} ELSE {}]
MCPinName(n) == <<"P__" \o ToString(n)>>

PinMaster == <<"prim", "pin", "symbol">>
Rect(ty, sig) == [stype |-> sig, ttype |-> ty, fig |-> << >>]
Inst(ty, sig) == [stype |-> sig, ttype |-> ty, fig |-> PinMaster]

Of(lib, cell, prim, conns) ==
  [lib |-> lib, cell |-> cell, view |-> "symbol", prim |-> prim, conns |-> conns,
   params |-> [kind \in DOMAIN PropTypeOf |-> [kind |-> kind, val |-> "v"]]]

PortOrder == ("portOrder" :> [kind |-> "binary", val |-> << >>])
SchProps == [p \in Timestamps |-> [kind |-> "int", val |-> "old"]] @@ PortOrder
SchDefs == ("cdbRevision" :> [kind |-> "bool", val |-> 1])
SymOf(terms) ==
  [cell |-> "sym", terms |-> [t \in DOMAIN terms |-> [terms[t] EXCEPT !.fig = << >>]],
   shapes |-> {[type |-> "line", net |-> "b0", id |-> <<"l">>], [type |-> "text", net |-> "", id |-> <<"x">>]},
   insts |-> << >>, props |-> PortOrder, appDefs |-> << >>]
Cv(cell, terms, insts, props) ==
  [cell |-> cell, terms |-> terms, shapes |-> {}, insts |-> insts, props |-> props, appDefs |-> SchDefs,
   sym |-> SymOf(terms)]

\* Outputs before inputs in the order of names, a bus and one of its bits.
LeafTerms == ("a" :> Inst("output", "signal")) @@ ("b" :> Rect("inputOutput", "ground"))
               @@ ("b0" :> Inst("input", "power")) @@ ("c" :> Rect("input", "clock"))
Leaf == Cv("leaf", LeafTerms, (<<"R">> :> Of("prim", "res", TRUE, ("a" :> "b1") @@ ("c" :> "d"))), SchProps)
LeafConns == ("a" :> "a") @@ ("b" :> "b") @@ ("b0" :> "d") @@ ("c" :> "b0") @@ ("d" :> "d")
MidTerms == ("a" :> Inst("input", "signal"))
MidWith(conns, n) == Cv("mid", MidTerms, (n :> Of("tmpl", "leaf", FALSE, conns)), SchProps)
Mid == MidWith(LeafConns, <<"X", 1, 0, 1>>)
MidShort == MidWith(("a" :> "a"), <<"X">>)
MidClash == MidWith(LeafConns, <<"P__0">>)
MidNoStamp == [Mid EXCEPT !.props = PortOrder]

Named(name, cv) == [name |-> name, cv |-> cv]
SchList(symView, entries) == [lib |-> "out", symView |-> symView, entries |-> entries]
MCSchLists ==
  <<SchList(TRUE, <<Named("m1", Leaf), Named("m2", Mid)>>),
    SchList(TRUE, <<Named("m1", Leaf), Named("m2", MidShort)>>),
    SchList(TRUE, <<Named("m1", Leaf), Named("m2", MidClash)>>),
    SchList(TRUE, <<Named("m1", Leaf), Named("m2", MidNoStamp)>>),
    SchList(FALSE, <<Named("m1", Leaf), Named("m2", [Mid EXCEPT !.sym = NoSym])>>),
    SchList(TRUE, <<Named("m1", Mid)>>), SchList(TRUE, << >>)>>

Poly(id, rect) == [points |-> 4, rect |-> rect, id |-> id]
Geo(layer, polys) == [layer |-> layer, purp |-> "drawing", polys |-> polys]
Lay(cell, insts) ==
  [cell |-> cell, insts |-> insts, geos |-> {Geo("l1", <<Poly("p1", TRUE), Poly("p2", FALSE)>>), Geo("l2", <<Poly("p3", TRUE)>>)},
   vias |-> {"v1", "v2"}, blocks |-> {<<"routing", "l1">>}, areas |-> {"a1"}, bounds |-> {"PR"},
   pins |-> {[layer |-> "l1", net |-> "a", label |-> "a", id |-> "q1", physical |-> TRUE],
             [layer |-> "l2", net |-> "a", label |-> "a:", id |-> "q2", physical |-> TRUE],
             [layer |-> "l2", net |-> "b", label |-> "b", id |-> "q3", physical |-> FALSE]},
   labels |-> {[layer |-> "l2", purp |-> "label", text |-> "t"]}]
LayInst(cell, ref) ==
  [reference |-> ref, lib |-> "prim", cell |-> cell, view |-> "layout", nx |-> 1, ny |-> 2]
MCLayLists ==
  <<[lib |-> "out", entries |-> <<Named("m1", Lay("leaf", << >>)),
      Named("m2", Lay("mid", (<<"X0">> :> LayInst("leaf", FALSE)) @@ (<<"X1">> :> LayInst("res", TRUE))))>>]>>
MCColorMap == ("l2" :> <<"l0", 2>>)

\* What was drawn by hand.
Drawn(type, terms, insts, defs) ==
  [type |-> type, nets |-> [t \in DOMAIN terms |-> [sig |-> "signal", implicit |-> FALSE]], terms |-> terms,
   insts |-> insts, shapes |-> {}, props |-> << >>, appDefs |-> defs]
DrawnTerm(n) == [net |-> n, ttype |-> "input", pins |-> <<<<[type |-> "rect", inst |-> << >>]>>>>, displays |-> 0]
Terms(S) == [n \in S |-> DrawnTerm(n)]
DrawnInst(lib, cell) == [master |-> <<lib, cell, "symbol">>, conns |-> << >>, params |-> << >>, pin |-> FALSE]
HierProp == ("p" :> [type |-> "HierProp", val |-> "v"])
Templates(defs, two, params) ==
  (<<"prim", "res", "symbol">> :> Drawn("symbol", Terms({"a", "c"}), << >>, << >>))
    @@ (<<"prim", "pin", "symbol">> :> Drawn("symbol", << >>, << >>, << >>))
    @@ (<<"tmpl", "leaf", "schematic">> :>
          Drawn("schematic", Terms({"a"}), (<<"R">> :> DrawnInst("prim", "res")) @@ (<<"X">> :> DrawnInst("tmpl", "mid")), << >>))
    @@ (<<"tmpl", "leaf", "symbol">> :> Drawn("symbol", Terms({"a"}), << >>, defs))
    @@ (<<"tmpl", "mid", "schematic">> :>
          Drawn("schematic", two, (<<"X">> :> DrawnInst("tmpl", "leaf")) @@ (<<"Y">> :> [DrawnInst("tmpl", "leaf") EXCEPT !.params = params]), << >>))
TwoPins == ("a" :> [DrawnTerm("a") EXCEPT !.pins = @ \o @])
\* A symbol whose pin has no figure, and a schematic whose pin's instance has a property
\* of a type that is not read.
Bare ==
  (<<"prim", "res", "symbol">> :>
     Drawn("symbol", ("a" :> [DrawnTerm("a") EXCEPT !.pins = <<<< >>>>]), << >>, << >>))
    @@ (<<"tmpl", "mid", "schematic">> :>
          Drawn("schematic",
                ("a" :> [DrawnTerm("a") EXCEPT !.pins = <<<<[type |-> "inst", inst |-> <<"P">>]>>>>, !.displays = 1]),
                (<<"P">> :> [master |-> PinMaster, conns |-> << >>, params |-> HierProp, pin |-> TRUE]), << >>))
    @@ Templates(<< >>, << >>, << >>)
MCRoots == {<<"tmpl", "leaf">>, <<"out", "m2">>}
MCDisks ==
  {Templates(<< >>, << >>, << >>) @@ (<<"out", "m1", "symbol">> :> Drawn("symbol", Terms({"a"}), << >>, << >>)),
   Templates(("other" :> [kind |-> "double", val |-> 1]), << >>, << >>),
   Templates(<< >>, TwoPins, << >>), Templates(<< >>, << >>, HierProp), Bare}
=============================================================================
