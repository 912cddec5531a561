--------------------------- MODULE MCHierNetlist ---------------------------
(***************************************************************************)
(* HierNetlist on a library of small cells: an inverter on two primitives, *)
(* an array of inverters on buses beside a scalar of the same name, a cell *)
(* above both, and cells that go wrong: one that contains itself, one with *)
(* a net outside the range of a pin, one that joins two attributes, one    *)
(* that lacks a connection, and one with a pin that Verilog has no range   *)
(* for.  Nets are names, nested and repeated, and every list of at most    *)
(* three cells in any order, one of them custom or without a cellview, is  *)
(* netlisted in each format.                                               *)
(***************************************************************************)
EXTENDS HierNetlist, NamePartition

Bus(n, start, stop) == <<RepUnit(1, Unit(n, start, stop, 1))>>
S(n) == <<RepUnit(1, One(n))>>
Times(m, n) == <<RepUnit(m, One(n))>>

MCTermBits ==
  [t \in {"a", "z", "p", "d", "a<1:0>", "z<1:0>", "s<0:2:2>"} |->
     NameBits(CASE t = "a<1:0>" -> Bus("a", 1, 0)
                [] t = "z<1:0>" -> Bus("z", 1, 0)
                [] t = "s<0:2:2>" -> <<RepUnit(1, Unit("s", 0, 2, 2))>>
                [] OTHER -> S(t))]

Pin(n, tt, at) == [name |-> n, ttype |-> tt, attr |-> at]
Of(cell, size, conns) == [cell |-> cell, size |-> size, conns |-> conns]
On(t, n) == [x \in {t} |-> n]
And(f, g) == [x \in DOMAIN f \cup DOMAIN g |-> IF x \in DOMAIN f THEN f[x] ELSE g[x]]

PrimInfo(written, terms, attrs) ==
  [cell |-> "prim", written |-> written, terms |-> terms, nets |-> {}, attrs |-> attrs]
MCPrims ==
  [c \in {"mos", "cap", "res", "gnd", "dummy"} |->
     IF c = "mos" THEN PrimInfo(TRUE, <<"d", "p">>, [n \in {"p"} |-> "supply"])
     ELSE IF c = "cap" THEN PrimInfo(TRUE, <<"p">>, [n \in {"p"} |-> "analog"])
     ELSE PrimInfo(c # "dummy", <<"p">>, EmptyDict)]

MCSchematics ==
  [c \in {"inv", "arr", "top", "loop", "wide", "mix", "open", "step"} |->
     CASE c = "inv" -> [ports |-> <<Pin("a", "inout", NoAttr), Pin("z", "input", NoAttr)>>,
                        insts |-> <<Of("mos", 1, And(On("d", S("z")), On("p", S("a")))),
                                    Of("dummy", 1, EmptyDict)>>]
       [] c = "arr" -> [ports |-> <<Pin("a<1:0>", "input", NoAttr), Pin("z", "output", NoAttr)>>,
                        insts |-> <<Of("inv", 2, And(On("a", Bus("a", 1, 0)),
                                                     On("z", Bus("n", 0, 1)))),
                                    Of("gnd", 1, On("p", S("gnd!"))),
                                    Of("mos", 1, And(On("d", S("z")), On("p", S("n"))))>>]
       [] c = "top" -> [ports |-> <<Pin("z<1:0>", "output", NoAttr)>>,
                        insts |-> <<Of("arr", 2, And(On("a<1:0>", S("q") \o Bus("w", 2, 0)),
                                                     On("z", Times(2, "gnd!")))),
                                    Of("inv", 3, And(On("a", Bus("w", 1, 2) \o Bus("z", 1, 1)),
                                                     On("z", Times(3, "k")))),
                                    Of("arr", 1, And(On("a<1:0>", Bus("z", 0, 1)), On("z", S("gnd!"))))>>]
       [] c = "loop" -> [ports |-> <<Pin("a", "input", NoAttr)>>,
                         insts |-> <<Of("loop", 1, On("a", S("a")))>>]
       [] c = "wide" -> [ports |-> <<Pin("a<1:0>", "input", NoAttr)>>,
                         insts |-> <<Of("inv", 1, And(On("a", Bus("a", 2, 2)), On("z", S("n"))))>>]
       [] c = "mix" -> [ports |-> <<Pin("z", "input", NoAttr)>>,
                        insts |-> <<Of("cap", 1, On("p", S("n"))),
                                    Of("inv", 1, And(On("a", S("n")), On("z", S("z"))))>>]
       [] c = "open" -> [ports |-> <<Pin("p", "input", "supply")>>,
                         insts |-> <<Of("mos", 1, And(On("d", S("n")), On("p", S("p")))),
                                     Of("res", 2, EmptyDict),
                                     Of("inv", 1, On("a", S("p")))>>]
       [] c = "step" -> [ports |-> <<Pin("s<0:2:2>", "input", NoAttr)>>,
                         insts |-> <<Of("arr", 2, And(On("a<1:0>", <<RepList(2, Bus("s", 0, 0) \o S("n"))>>),
                                                      On("z", <<RepUnit(1, Unit("s", 0, 2, 2))>>)))>>]]

MCLists ==
  LET e == [cell : DOMAIN MCSchematics, kind : Kind]
      l3 == UNION {[1 .. n -> e] : n \in 0 .. 3}
  IN  {l \in l3 : /\ \A i, j \in DOMAIN l : l[i].cell = l[j].cell => i = j
                 /\ Cardinality({i \in DOMAIN l : l[i].kind # "cellview"}) <= 1}
MCAnalogLib == {"res", "gnd"}
MCGndCells == {"gnd"}
MCAttrs == {"supply", "analog"}
MCGround == <<"gnd!", Scalar>>

\* In Verilog, whatever two nets of the cell being written make one name, one after the
\* other or repeated together, its parts of any size have its bits in their order: what
\* is left over of a bus or of a repetition goes to the next part and nothing twice.
NamesSplit ==
  LET nets == UNION {{inst.conns[t] : t \in DOMAIN inst.conns} :
                       inst \in IF cur.left = << >> THEN {} ELSE {Head(cur.left)}}
  IN  format = "VERILOG" => \A n1, n2 \in nets : \A m \in 1 .. 3 : \A chunk \in 1 .. 5 :
        \A name \in {n1 \o <<Group(m, n2)>>, <<Group(m, n1 \o n2)>> \o n2} :
          PartitionExact(name, chunk)

\* Connections are split among the devices of an array without loss, as they are written
\* and for every net and chunk that could be asked for.
ConnectionsSplit == LinesMatchHeaders /\ NamesSplit /\ PartsExact
=============================================================================
