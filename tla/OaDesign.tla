------------------------------ MODULE OaDesign ------------------------------
(***************************************************************************)
(* A schematic or symbol cellview of BAG and the OpenAccess design that    *)
(* stands for it: what write_sch_cellview puts into the design, what       *)
(* read_sch_cellview takes out of it, and when either throws.  The         *)
(* OpenAccess library is not in the repository; its objects are modelled   *)
(* as far as the code uses them:                                           *)
(*   - a net that is created brings its bits into being as implicit nets;  *)
(*   - a figure on a pin, and what is on a net, know their pin and net.    *)
(* Places, sizes, fonts and layers of figures are left out; a shape is its *)
(* type, its net and an identity.                                          *)
(*                                                                         *)
(* A cellview has terms, insts, shapes, props, appDefs.  An instance name  *)
(* is <<base>>, or <<base, start, stop, step>> for a range.                *)
(***************************************************************************)
EXTENDS Integers, Sequences, SequencesExt, Dict

CONSTANTS
  NameOrder,   \* every name of a terminal, net, library, cell or view, in their order
  NetBits,     \* the bits of each bus net
  PinName(_)   \* the name of the instance of the n-th pin object, P__n

\* No name has two places, and the pins' instances have names of one unit, each its own.
ASSUME NamesAssumption ==
  /\ NameOrder \in Seq(Range(NameOrder)) /\ IsInjective(NameOrder)
  /\ \A m, n \in 0 .. Len(NameOrder) : PinName(m) = PinName(n) => m = n

DefaultSig == "signal"
NoNet == ""
RectFig == << >>                 \* a pin's figure: a rectangle, or the master of an instance
DrawnTypes == {"rect", "polygon", "arc", "donut", "ellipse", "line", "path", "text", "evalText"}

\* The names of a set in their order.
Ordered(S) ==
  LET upto[i \in 0 .. Len(NameOrder)] ==
        IF i = 0 THEN << >>
        ELSE IF NameOrder[i] \in S THEN Append(upto[i - 1], NameOrder[i]) ELSE upto[i - 1]
  IN  upto[Len(NameOrder)]

Place(n) == CHOOSE i \in DOMAIN NameOrder : NameOrder[i] = n
Only(f, S) == [x \in DOMAIN f \cap S |-> f[x]]

-----------------------------------------------------------------------------
\* Properties and parameters: values of the six kinds of value_t, each with its type of
\* property in OpenAccess, which has others.

PropTypeOf ==
  [int |-> "IntProp", double |-> "DoubleProp", bool |-> "BooleanProp", string |-> "StringProp",
   time |-> "TimeProp", binary |-> "AppProp"]
KindOfProp ==
  [StringProp |-> "string", IntProp |-> "int", DoubleProp |-> "double", TimeProp |-> "time",
   AppProp |-> "binary", BooleanProp |-> "bool"]

MakeProp(v) == [type |-> PropTypeOf[v.kind], val |-> v.val]
MakeProps(params) == [p \in DOMAIN params |-> MakeProp(params[p])]

\* A property of another type makes the reader throw.
PropsReadable(props) == \A p \in DOMAIN props : props[p].type \in DOMAIN KindOfProp
ReadProp(p) == [kind |-> KindOfProp[p.type], val |-> p.val]
ReadProps(props) == [p \in DOMAIN props |-> ReadProp(props[p])]

\* A value of a property, and what a cellview of the generator has: names in the order
\* they are kept in, shapes that can be drawn, instances with nets by terminal.
IsValue(v) == v = [kind |-> v.kind, val |-> v.val] /\ v.kind \in DOMAIN PropTypeOf
IsValues(f) == IsDict(f) /\ \A x \in DOMAIN f : IsValue(f[x])
IsInstance(i) == IsDict(i.conns) /\ IsValues(i.params)
IsSchCellview(cv) ==
  /\ IsDict(cv.terms) /\ DOMAIN cv.terms \subseteq ToSet(NameOrder)
  /\ \A t \in DOMAIN cv.terms :
       cv.terms[t] = [stype |-> cv.terms[t].stype, ttype |-> cv.terms[t].ttype, fig |-> cv.terms[t].fig]
  /\ \A s \in cv.shapes : s = [type |-> s.type, net |-> s.net, id |-> s.id] /\ s.type \in DrawnTypes
  /\ \A n \in DOMAIN cv.insts : IsInstance(cv.insts[n])
  /\ IsValues(cv.props) /\ IsValues(cv.appDefs)

-----------------------------------------------------------------------------
\* Writing.

EmptyDesign(type) ==
  [type |-> type, nets |-> << >>, terms |-> << >>, insts |-> << >>, shapes |-> {},
   props |-> << >>, appDefs |-> << >>]

\* A name that is looked up gets a new net unless it has one that is not implicit.  The
\* bits that new buses bring into being have the type of the first of them.
NewNets(nets, sigs) == {n \in DOMAIN sigs : n \in DOMAIN nets => nets[n].implicit}
Bits(new) == UNION {NetBits[n] : n \in new}
BusOf(new, b) ==
  CHOOSE n \in new : b \in NetBits[n] /\ \A m \in new : b \in NetBits[m] => Place(n) <= Place(m)

\* A slip: a net that was brought into being by its bus is taken as it is.
NetsOf_Implicit(nets, sigs) ==
  LET new == DOMAIN sigs \ DOMAIN nets
  IN  [x \in DOMAIN nets \cup DOMAIN sigs \cup Bits(new) |->
         IF x \in DOMAIN nets THEN nets[x]
         ELSE IF x \in Bits(new) /\ (x \in new => Place(BusOf(new, x)) < Place(x))
              THEN [sig |-> sigs[BusOf(new, x)], implicit |-> TRUE]
         ELSE [sig |-> sigs[x], implicit |-> FALSE]]

\* The nets of names that are looked up in their order, each with its signal type.
NetsOf(nets, sigs) ==
  [x \in DOMAIN nets \cup DOMAIN sigs \cup Bits(NewNets(nets, sigs)) |->
     IF x \in DOMAIN nets /\ (~nets[x].implicit \/ x \notin DOMAIN sigs) THEN nets[x]
     ELSE IF x \in DOMAIN sigs THEN [sig |-> sigs[x], implicit |-> FALSE]
     ELSE [sig |-> sigs[BusOf(NewNets(nets, sigs), x)], implicit |-> TRUE]]
NetsFor(nets, S) == NetsOf(nets, [n \in S \ {NoNet} |-> DefaultSig])

PinObjects(terms) == {t \in DOMAIN terms : terms[t].fig # RectFig}
PinPlaces(terms) == {i \in DOMAIN NameOrder : NameOrder[i] \in PinObjects(terms)}
PinNames(terms) == {PinName(n) : n \in 0 .. Cardinality(PinPlaces(terms)) - 1}

\* The name of the instance that stands for a terminal's pin object: they are numbered in
\* the order of the terminals.
PinInst(terms, t) == PinName(Cardinality({i \in PinPlaces(terms) : i < Place(t)}))

\* What is drawn for a terminal: a rectangle on its pin, or the display of its name.
PinShape(terms, t) ==
  IF terms[t].fig = RectFig
  THEN [type |-> "rect", net |-> t, pin |-> TRUE, owner |-> "none", id |-> <<t>>]
  ELSE [type |-> "attrDisplay", net |-> NoNet, pin |-> FALSE, owner |-> "term", id |-> <<t>>]

PinFigure(terms, t) ==
  IF terms[t].fig = RectFig THEN [type |-> "rect", inst |-> PinName(0)]
  ELSE [type |-> "inst", inst |-> PinInst(terms, t)]

CreateTerminalPin(d, terms) ==
  [d EXCEPT
    !.nets = NetsOf(@, [t \in DOMAIN terms |-> terms[t].stype]),
    !.terms = [t \in DOMAIN terms |->
       [net |-> t, ttype |-> terms[t].ttype, pins |-> <<<<PinFigure(terms, t)>>>>,
        displays |-> IF terms[t].fig = RectFig THEN 0 ELSE 1]],
    !.insts = [n \in PinNames(terms) |->
       LET t == CHOOSE x \in PinObjects(terms) : PinInst(terms, x) = n
       IN [master |-> terms[t].fig, conns |-> << >>, params |-> << >>, pin |-> TRUE]],
    !.shapes = @ \cup {PinShape(terms, t) : t \in DOMAIN terms}]

MakeShape(s) == [type |-> s.type, net |-> s.net, pin |-> FALSE, owner |-> "none", id |-> s.id]

\* The shapes of a cellview with their nets.  Only a symbol's are written.
MakeShapes(d, shapes) ==
  [d EXCEPT !.nets = NetsFor(@, {s.net : s \in shapes}),
            !.shapes = @ \cup {MakeShape(s) : s \in shapes}]

\* The master that an instance is given in the library that is written.
MasterOf(lib, renames, inst) ==
  IF inst.prim THEN <<inst.lib, inst.cell, inst.view>> ELSE <<lib, renames[inst.cell], inst.view>>

\* The map of new names is read without a test that the cell is there.
RenameMissing(renames, cv) ==
  \E i \in DOMAIN cv.insts : ~cv.insts[i].prim /\ cv.insts[i].cell \notin DOMAIN renames

\* The first pin of a master's terminal and its first figure are used without a test that
\* they are there.
PinMissing(masters, lib, renames, cv) ==
  ~RenameMissing(renames, cv) /\ \E i \in DOMAIN cv.insts :
    LET k == MasterOf(lib, renames, cv.insts[i])
    IN k \in DOMAIN masters /\ \E t \in DOMAIN masters[k].terms :
         LET pins == masters[k].terms[t].pins
         IN pins = << >> \/ pins[1] = << >>

\* A range is written with its start and stop only.
NameUnit(n) == IF Len(n) = 1 THEN n ELSE <<n[1], n[2], n[3], 1>>

\* A slip: a terminal of the master that the instance does not connect is passed over.
Connectable_Any(masters, lib, renames, cv) ==
  \A i \in DOMAIN cv.insts : MasterOf(lib, renames, cv.insts[i]) \in DOMAIN masters

\* No instance makes the writer throw: its master is there and it connects all of the
\* master's terminals.
Connectable(masters, lib, renames, cv) ==
  \A i \in DOMAIN cv.insts :
    LET k == MasterOf(lib, renames, cv.insts[i])
    IN k \in DOMAIN masters /\ DOMAIN masters[k].terms \subseteq DOMAIN cv.insts[i].conns

\* OpenAccess refuses two instances with one name.
NamesFree(cv) ==
  /\ \A i \in DOMAIN cv.insts : NameUnit(i) \notin PinNames(cv.terms)
  /\ \A i, j \in DOMAIN cv.insts : NameUnit(i) = NameUnit(j) => i = j

WriteInst(masters, lib, renames, inst) ==
  LET k == MasterOf(lib, renames, inst)
  IN [master |-> k, conns |-> Only(inst.conns, DOMAIN masters[k].terms),
      params |-> MakeProps(inst.params), pin |-> FALSE]

\* The line and the text at each terminal of an instance, with their net.
Stubs(n, conns) ==
  {[type |-> ty, net |-> conns[t], pin |-> FALSE, owner |-> "none", id |-> <<t, n>>]
     : ty \in {"line", "text"}, t \in DOMAIN conns}

WriteInstances(d, masters, lib, renames, cv) ==
  LET new == [n \in {NameUnit(i) : i \in DOMAIN cv.insts} |->
                WriteInst(masters, lib, renames, cv.insts[CHOOSE i \in DOMAIN cv.insts : NameUnit(i) = n])]
  IN [d EXCEPT !.insts = Overlay(new, @),
               !.nets = NetsFor(@, UNION {Range(new[n].conns) : n \in DOMAIN new}),
               !.shapes = @ \cup UNION {Stubs(n, new[n].conns) : n \in DOMAIN new}]

\* A slip: the outputs come first.
TermOrder_Outputs(terms) ==
  LET OfType(ty) == Ordered({t \in DOMAIN terms : terms[t].ttype = ty})
  IN OfType("output") \o OfType("input")
       \o Ordered({t \in DOMAIN terms : terms[t].ttype \notin {"input", "output"}})

\* The order of a cellview's terminals: inputs, outputs, the others.
TermOrder(terms) ==
  LET OfType(ty) == Ordered({t \in DOMAIN terms : terms[t].ttype = ty})
  IN OfType("input") \o OfType("output")
       \o Ordered({t \in DOMAIN terms : terms[t].ttype \notin {"input", "output"}})

WriteProps(d, cv) ==
  [d EXCEPT !.props = [p \in DOMAIN cv.props |->
     MakeProp(IF p = "portOrder" THEN [kind |-> "binary", val |-> TermOrder(cv.terms)] ELSE cv.props[p])]]

AppDefThrows(cv) == \E a \in DOMAIN cv.appDefs : cv.appDefs[a].kind \in {"double", "time", "binary"}

\* A Boolean is written as an integer.
WriteAppDefs(d, cv) ==
  [d EXCEPT !.appDefs = [a \in DOMAIN cv.appDefs |->
     IF cv.appDefs[a].kind = "bool" THEN [cv.appDefs[a] EXCEPT !.kind = "int"] ELSE cv.appDefs[a]]]

\* The writer gets through the cellview without an exception.
Writable(masters, lib, renames, cv, type) ==
  /\ Connectable(masters, lib, renames, cv)
  /\ NamesFree(cv)
  /\ ~AppDefThrows(cv)

\* The design as it is when it is saved.
WriteSchCellview(masters, lib, renames, cv, type) ==
  LET d1 == CreateTerminalPin(EmptyDesign(type), cv.terms)
      d2 == IF type = "symbol" THEN MakeShapes(d1, cv.shapes) ELSE d1
      d3 == WriteInstances(d2, masters, lib, renames, cv)
  IN WriteAppDefs(WriteProps(d3, cv), cv)

\* The masters of a schematic as the cellview names them, in the order of their keys;
\* all but the first are listed with their cell in the place of their view.
Dependencies(cv) ==
  LET keys == {<<cv.insts[i].lib, cv.insts[i].cell, cv.insts[i].view>> : i \in DOMAIN cv.insts}
      Less(k, l) == \E n \in 1..3 : Place(k[n]) < Place(l[n]) /\ \A m \in 1..(n - 1) : k[m] = l[m]
  IN {IF \E l \in keys : Less(l, k) THEN <<k[1], k[2], k[2]>> ELSE k : k \in keys}

Timestamps == {"connectivityLastUpdated", "schGeometryLastUpdated"}

\* The time stamps are looked for and cast without a test that they are there and integers.
StampMissing(d) == ~\A p \in Timestamps : p \in DOMAIN d.props /\ d.props[p].type = "IntProp"
Stamped(d) ==
  [d EXCEPT !.props = [p \in DOMAIN d.props |->
     IF p \in Timestamps THEN [d.props[p] EXCEPT !.val = "updated"] ELSE d.props[p]]]

-----------------------------------------------------------------------------
\* Reading.

AppDefReadable(d) == \A a \in DOMAIN d.appDefs : d.appDefs[a].kind \in {"int", "string"}

SavedAppDefs == {"_dbLastSavedCounter", "_dbvCvTimeStamp", "cdbRevision", "cdnSPDesignMajorVersion"}

\* A slip: the figures of pins are read as shapes as well.
IncludeShape_Pins(s) == s.type = "attrDisplay" => s.owner # "term"

\* A shape on a pin and the display of a terminal have been read with the terminal.
IncludeShape(s) == ~s.pin /\ (s.type = "attrDisplay" => s.owner # "term")

ReadShape(s) == [type |-> s.type, net |-> s.net, id |-> s.id]

ReadInstance(inst, prims) ==
  [lib |-> inst.master[1], cell |-> inst.master[2], view |-> inst.master[3],
   prim |-> inst.master[1] \in prims, conns |-> inst.conns, params |-> ReadProps(inst.params)]

\* One pin, with one figure: a rectangle, or an instance with one display of the name.
TermReadable(term) ==
  /\ Len(term.pins) = 1 /\ Len(term.pins[1]) = 1
  /\ term.pins[1][1].type \in {"rect", "inst"}
  /\ term.pins[1][1].type = "inst" => term.displays = 1

ReadPinFigure(d, term) ==
  LET fig == term.pins[1][1]
  IN [stype |-> d.nets[term.net].sig, ttype |-> term.ttype,
      fig |-> IF fig.type = "inst" THEN d.insts[fig.inst].master ELSE RectFig]

\* The reader gets through the design without an exception.  The instances of pins are
\* read with their terminals, properties and all.
Readable(d) ==
  /\ \A t \in DOMAIN d.terms : TermReadable(d.terms[t])
  /\ \A s \in d.shapes : IncludeShape(s) => s.type \in DrawnTypes
  /\ AppDefReadable(d)
  /\ PropsReadable(d.props) /\ \A n \in DOMAIN d.insts : PropsReadable(d.insts[n].params)

\* A slip: the instances of pins are not left out.
ReadSchCellview_Pins(d, prims) ==
  [terms |-> [t \in DOMAIN d.terms |-> ReadPinFigure(d, d.terms[t])],
   shapes |-> {ReadShape(s) : s \in {x \in d.shapes : IncludeShape(x)}},
   insts |-> [n \in DOMAIN d.insts |-> ReadInstance(d.insts[n], prims)],
   props |-> ReadProps(d.props),
   appDefs |-> Only(d.appDefs, SavedAppDefs)]

ReadSchCellview(d, prims) ==
  [terms |-> [t \in DOMAIN d.terms |-> ReadPinFigure(d, d.terms[t])],
   shapes |-> {ReadShape(s) : s \in {x \in d.shapes : IncludeShape(x)}},
   insts |-> [n \in {m \in DOMAIN d.insts : ~d.insts[m].pin} |-> ReadInstance(d.insts[n], prims)],
   props |-> ReadProps(d.props),
   appDefs |-> Only(d.appDefs, SavedAppDefs)]
=============================================================================
