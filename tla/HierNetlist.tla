---------------------------- MODULE HierNetlist ----------------------------
(***************************************************************************)
(* write_netlist: the cellviews of a design written one by one, children   *)
(* first, with the CDL, the Verilog or the Spectre writer.  What a         *)
(* cellview exports (its terminals in order and the attributes of their    *)
(* nets) goes to the netlist map, where the cellviews that instantiate it  *)
(* read it, when it has been written.                                      *)
(*                                                                         *)
(* A bit of a net or a terminal is a pair <<base name, index>>.  The names *)
(* of nets are whatever BitsOf and PartsOf take (NamePartition): CDL and   *)
(* Spectre write their bits, Verilog the name, cut into parts for the      *)
(* devices of an array.  Parameters and the text are left out.             *)
(***************************************************************************)
EXTENDS Integers, Sequences, FiniteSets, Dict

CONSTANTS
  TermBits,    \* the bits of each terminal name
  Prims,       \* the netlist map of the primitives
  Schematics,  \* the cellviews: terminals in order of name, instances in order of name
  Lists,       \* the lists that are netlisted: sequences of [cell, kind]
  AnalogLib,   \* the cells of the library analogLib, which CDL omits
  GndCells,    \* the cells named gnd, which Spectre omits
  Ground,      \* the net gnd!
  BitsOf(_),   \* the bits of a name
  PartsOf(_, _),   \* the parts of a name, of so many bits each
  Attrs, NoAttr, Scalar

Formats == {"CDL", "VERILOG", "SPECTRE"}
Kind == {"cellview", "custom", "null"}
TermNames == DOMAIN TermBits
Base(bit) == bit[1]
TermBase(t) == Base(TermBits[t][1])
ElementsOf(s) == {s[i] : i \in DOMAIN s}

IsSeq(s) == s \in Seq(ElementsOf(s))

\* The bits that the instances of a cellview are connected to.
NetBits(c) ==
  UNION {UNION {ElementsOf(BitsOf(inst.conns[t])) : t \in DOMAIN inst.conns} :
           inst \in ElementsOf(Schematics[c].insts)}

\* A terminal is a name unit: a scalar, or indices from the first one on with one step.
Step(t) == IF Len(TermBits[t]) = 1 THEN 1 ELSE TermBits[t][2][2] - TermBits[t][1][2]
TermAssumption ==
  \A t \in TermNames :
    /\ IsSeq(TermBits[t]) /\ TermBits[t] # << >>
    /\ \/ TermBits[t] = <<<<TermBase(t), Scalar>>>>
       \/ \A i \in DOMAIN TermBits[t] :
            /\ TermBits[t][i] = <<TermBase(t), TermBits[t][1][2] + (i - 1) * Step(t)>>
            /\ TermBits[t][i][2] \in Nat

\* An instance has one bit for each terminal bit of each device (ConnWidth of
\* SchCellview), but it may lack terminals of its master or have others.  An index is a
\* cnt_t, and the pins of a cellview have different base names.
SchematicAssumption ==
  \A c \in DOMAIN Schematics :
    /\ IsSeq(Schematics[c].ports) /\ IsSeq(Schematics[c].insts)
    /\ \A p \in ElementsOf(Schematics[c].ports) : p.name \in TermNames /\ p.attr \in Attrs \cup {NoAttr}
    /\ \A p, q \in ElementsOf(Schematics[c].ports) : TermBase(p.name) = TermBase(q.name) => p = q
    /\ \A inst \in ElementsOf(Schematics[c].insts) :
         /\ inst.size \in Nat \ {0}
         /\ IsFiniteSet(DOMAIN inst.conns) /\ DOMAIN inst.conns \subseteq TermNames
         /\ \A t \in DOMAIN inst.conns :
              /\ IsSeq(BitsOf(inst.conns[t]))
              /\ Len(BitsOf(inst.conns[t])) = inst.size * Len(TermBits[t])
    /\ \A b \in NetBits(c) : b = <<Base(b), b[2]>> /\ b[2] \in Nat \cup {Scalar}

\* A list has a cellview once, and no primitive.
NetlistAssumption ==
  /\ \A list \in Lists : list \in Seq([cell : DOMAIN Schematics \ DOMAIN Prims, kind : Kind])
  /\ \A list \in Lists : \A i, j \in DOMAIN list : list[i].cell = list[j].cell => i = j
  /\ \A c \in DOMAIN Prims : \A n \in DOMAIN Prims[c].attrs : Prims[c].attrs[n] \in Attrs
  /\ Scalar \notin Nat

ASSUME Assumptions == TermAssumption /\ SchematicAssumption /\ NetlistAssumption

VARIABLES
  format,       \* the kind of netlist
  todo,         \* the entries of the list not written yet
  shell,        \* the option: the top cell only, and its terminals only
  top_subckt,   \* the option: the top cell wrapped in a subcircuit
  netlist_map,  \* what the cells known so far export
  out,          \* the file: the cells written, in order
  cur,          \* the cellview being written, NoCell between two of them
  status        \* "start", "run", "done", or "error" after an exception

vars == <<format, todo, shell, top_subckt, netlist_map, out, cur, status>>

NoCell == [info |-> << >>, left |-> << >>]

-----------------------------------------------------------------------------
(***************************************************************************)
(* get_cv_netlist_info.                                                    *)
(***************************************************************************)

\* range::bounds: from the first index to the one after the last, <<0, 0>> for a scalar.
BitBounds(bit) == IF bit[2] = Scalar THEN <<0, 0>> ELSE <<bit[2], bit[2] + 1>>

MinOf(S) == CHOOSE x \in S : \A y \in S : x <= y
MaxOf(S) == CHOOSE x \in S : \A y \in S : x >= y
Hull(bits) == <<MinOf({BitBounds(b)[1] : b \in bits}), MaxOf({BitBounds(b)[2] : b \in bits})>>

\* ast::to_string prints the bounds as the two ends of a bus, and the ends of a bus
\* are inclusive.
Declared(base, bounds) ==
  IF bounds[1] = bounds[2] THEN {<<base, Scalar>>}
  ELSE IF bounds[2] - bounds[1] = 1 THEN {<<base, bounds[1]>>}
  ELSE {<<base, i>> : i \in bounds[1] .. bounds[2]}

\* The terminals in the order of the subcircuit: inputs, outputs, others, each by name.
Rank(p) == IF p.ttype = "input" THEN 1 ELSE IF p.ttype = "output" THEN 2 ELSE 3
UpTo(ports, i) ==
  {j \in DOMAIN ports : \/ Rank(ports[j]) < Rank(ports[i])
                        \/ Rank(ports[j]) = Rank(ports[i]) /\ j <= i}
PortAt(ports, k) == CHOOSE i \in DOMAIN ports : Cardinality(UpTo(ports, i)) = k
PortOrder(ports) == [k \in DOMAIN ports |-> ports[PortAt(ports, k)].name]

PortBases(c) == {TermBase(p.name) : p \in ElementsOf(Schematics[c].ports)}

\* A net with the base name of a terminal must be within its range.
OutOfBounds(c) ==
  \E p \in ElementsOf(Schematics[c].ports), b \in NetBits(c) :
    /\ Base(b) = TermBase(p.name)
    /\ LET term == Hull(ElementsOf(TermBits[p.name]))
           net  == BitBounds(b)
       IN  \/ (term[1] = term[2]) # (net[1] = net[2])
           \/ term[1] # term[2] /\ (net[1] < term[1] \/ net[2] > term[2])

PortAttrs(c) ==
  {<<TermBase(p.name), p.attr>> : p \in {q \in ElementsOf(Schematics[c].ports) : q.attr # NoAttr}}

\* The attributes that nets get from the terminals they are connected to.
Known(c) == {inst \in ElementsOf(Schematics[c].insts) : Has(netlist_map, inst.cell)}
ChildAttrs(c) ==
  UNION {UNION {{<<Base(b), netlist_map[inst.cell].attrs[TermBase(t)]>> :
                   b \in ElementsOf(BitsOf(inst.conns[t]))} :
                t \in {u \in DOMAIN inst.conns : Has(netlist_map[inst.cell].attrs, TermBase(u))}} :
         inst \in Known(c)}

\* The pairs of base name and attribute; a custom netlist takes those of its pins only.
NetAttrs(c, compute) == PortAttrs(c) \cup IF compute THEN ChildAttrs(c) ELSE {}

\* A slip: the attributes of two terminals on a net not compared.
Throws_NoConflict(c, compute) ==
  \/ compute /\ \E inst \in ElementsOf(Schematics[c].insts) : ~Has(netlist_map, inst.cell)
  \/ OutOfBounds(c)

\* A child not in the netlist map, a net out of bounds, two attributes on one net.
Throws(c, compute) ==
  \/ compute /\ \E inst \in ElementsOf(Schematics[c].insts) : ~Has(netlist_map, inst.cell)
  \/ OutOfBounds(c)
  \/ \E a, b \in NetAttrs(c, compute) : a[1] = b[1] /\ a[2] # b[2]

\* A slip: the range of the last bit only.
NetRanges_First(c) ==
  LET bases == {Base(b) : b \in NetBits(c)} \ PortBases(c)
  IN  UNION {Declared(n, Hull({CHOOSE b \in NetBits(c) : Base(b) = n})) : n \in bases}

\* The bits of the declared nets: every base name that is not a terminal, merged.
NetRanges(c) ==
  LET bases == {Base(b) : b \in NetBits(c)} \ PortBases(c)
  IN  UNION {Declared(n, Hull({b \in NetBits(c) : Base(b) = n})) : n \in bases}

Info(c, compute) ==
  LET attrs == NetAttrs(c, compute)
  IN  [cell |-> c, written |-> TRUE, terms |-> PortOrder(Schematics[c].ports), nets |-> NetRanges(c),
       attrs |-> [n \in {a[1] : a \in attrs} |-> (CHOOSE a \in attrs : a[1] = n)[2]]]

-----------------------------------------------------------------------------
(***************************************************************************)
(* write_netlist_helper.                                                   *)
(***************************************************************************)

\* The table of primitives, when one is given; a table without this format, or an
\* append file that is missing, is refused.
Start(prims, entry, append_file) ==
  /\ status = "start"
  /\ netlist_map' = IF prims THEN Prims ELSE netlist_map
  /\ status' = IF (prims /\ ~entry) \/ (~shell /\ ~append_file) THEN "error" ELSE "run"
  /\ UNCHANGED <<format, todo, shell, top_subckt, out, cur>>

Entry == Head(todo)
IsTop == Len(todo) = 1
Compute == Entry.kind = "cellview"
Idle == status = "run" /\ cur = NoCell /\ todo # << >>

Record(info) == netlist_map' = Emplace(netlist_map, info.cell, info)

\* A slip: an entry without a cellview recorded.
SkipNull_Records ==
  /\ Idle /\ Entry.kind = "null" /\ ~Throws(Entry.cell, FALSE)
  /\ Record(Info(Entry.cell, FALSE))
  /\ todo' = Tail(todo)
  /\ UNCHANGED <<format, shell, top_subckt, out, cur, status>>

SkipNull ==
  /\ Idle /\ Entry.kind = "null"
  /\ todo' = Tail(todo)
  /\ UNCHANGED <<format, shell, top_subckt, netlist_map, out, cur, status>>

Refuse ==
  /\ Idle /\ Entry.kind # "null" /\ Throws(Entry.cell, Compute)
  /\ status' = "error"
  /\ UNCHANGED <<format, todo, shell, top_subckt, netlist_map, out, cur>>

\* A cellview that is only recorded: below the top of a shell, or custom.
RecordOnly ==
  /\ Idle /\ Entry.kind # "null" /\ ~Throws(Entry.cell, Compute)
  /\ Entry.kind = "custom" \/ (shell /\ ~IsTop)
  /\ out' = IF shell /\ ~IsTop THEN out
            ELSE Append(out, [cell |-> Entry.cell, custom |-> TRUE, subckt |-> TRUE, terms |-> << >>,
                              nets |-> {}, lines |-> {}, closed |-> TRUE])
  /\ Record(Info(Entry.cell, Compute))
  /\ todo' = Tail(todo)
  /\ UNCHANGED <<format, shell, top_subckt, cur, status>>

\* Verilog has no buses with another step than 1.
NoRange(t) ==
  \E i \in 1 .. Len(TermBits[t]) - 1 : TermBits[t][i][2] - TermBits[t][i + 1][2] \notin {1, -1}
NoHeader(info) == format = "VERILOG" /\ \E t \in ElementsOf(info.terms) : NoRange(t)

\* Only Spectre leaves the subcircuit of the top cell out.
Wrapped == format # "SPECTRE" \/ top_subckt \/ ~IsTop

\* What the header declares: Verilog declares the nets too.
Header(info) ==
  [cell |-> info.cell, custom |-> FALSE, subckt |-> Wrapped, terms |-> info.terms,
   nets |-> IF format = "VERILOG" /\ ~shell THEN info.nets ELSE {},
   lines |-> {}, closed |-> FALSE]

\* write_cv_header.
BeginCell ==
  /\ Idle /\ Compute /\ ~Throws(Entry.cell, Compute) /\ (shell => IsTop)
  /\ LET info == Info(Entry.cell, TRUE)
     IN  /\ out' = Append(out, Header(info))
         /\ cur' = [info |-> <<info>>,
                    left |-> IF shell THEN << >> ELSE Schematics[info.cell].insts]
         /\ status' = IF NoHeader(info) THEN "error" ELSE status
  /\ UNCHANGED <<format, todo, shell, top_subckt, netlist_map>>

\* An instance that is not written: its master is not, or the writer leaves it out.
Omitted(inst) ==
  \/ ~netlist_map[inst.cell].written
  \/ format = "CDL" /\ inst.cell \in AnalogLib
  \/ format = "SPECTRE" /\ inst.cell \in GndCells

Unconnected(inst) ==
  \E t \in ElementsOf(netlist_map[inst.cell].terms) : t \notin DOMAIN inst.conns

\* A slip: every device given the nets of the first.
SliceOf_First(bits, w, dev) == SubSeq(bits, 1, w)

\* The bits of device `dev` of a connection, `w` bits for each device.
SliceOf(bits, w, dev) == SubSeq(bits, dev * w + 1, (dev + 1) * w)

\* CDL writes the bits of every net, for an array a line for each device.
AllNets(net) == BitsOf(net)
CdlNets(inst, net, w, dev) == IF inst.size = 1 THEN AllNets(net) ELSE SliceOf(AllNets(net), w, dev)

\* Spectre calls the ground 0, where it is the whole net of a single instance.
GroundName == <<"0", Scalar>>
SpectreNets(inst, net, w, dev) ==
  IF inst.size = 1 /\ BitsOf(net) = <<Ground>> THEN <<GroundName>> ELSE SliceOf(BitsOf(net), w, dev)

VerilogNets(inst, net, w, dev) == BitsOf(IF inst.size = 1 THEN net ELSE PartsOf(net, w)[dev + 1])

\* What get_partition promises of the names in the cellviews: a part is a slice.
PartsExact ==
  \A c \in DOMAIN Schematics : \A inst \in ElementsOf(Schematics[c].insts) :
    \A t \in DOMAIN inst.conns : \A dev \in 0 .. inst.size - 1 :
      LET net == inst.conns[t]
          w   == Len(TermBits[t])
      IN  BitsOf(PartsOf(net, w)[dev + 1]) = SubSeq(BitsOf(net), dev * w + 1, (dev + 1) * w)

\* The nets of device `dev`, terminal by terminal in the order of the master.
DeviceNets(fmt, inst, terms, dev) ==
  [k \in DOMAIN terms |->
     LET net == inst.conns[terms[k]]
         w   == Len(TermBits[terms[k]])
     IN  CASE fmt = "CDL"     -> CdlNets(inst, net, w, dev)
           [] fmt = "SPECTRE" -> SpectreNets(inst, net, w, dev)
           [] fmt = "VERILOG" -> VerilogNets(inst, net, w, dev)]

Lines(inst) ==
  {[inst |-> inst, dev |-> dev, cell |-> inst.cell,
    nets |-> DeviceNets(format, inst, netlist_map[inst.cell].terms, dev)] : dev \in 0 .. inst.size - 1}

WriteInstance ==
  /\ status = "run" /\ cur.left # << >>
  /\ LET inst == Head(cur.left)
     IN  \/ /\ Omitted(inst)
            /\ UNCHANGED <<out, status>>
         \/ /\ ~Omitted(inst) /\ ~Unconnected(inst)
            /\ out' = [out EXCEPT ![Len(out)].lines = @ \cup Lines(inst)]
            /\ UNCHANGED status
         \/ /\ ~Omitted(inst) /\ Unconnected(inst)
            /\ status' = "error"
            /\ UNCHANGED out
  /\ cur' = [cur EXCEPT !.left = Tail(@)]
  /\ UNCHANGED <<format, todo, shell, top_subckt, netlist_map>>

\* A slip: the cell left open.
EndCell_Open ==
  /\ status = "run" /\ cur # NoCell /\ cur.left = << >>
  /\ Record(cur.info[1])
  /\ cur' = NoCell
  /\ todo' = Tail(todo)
  /\ UNCHANGED <<format, shell, top_subckt, out, status>>

EndCell ==
  /\ status = "run" /\ cur # NoCell /\ cur.left = << >>
  /\ out' = [out EXCEPT ![Len(out)].closed = TRUE]
  /\ Record(cur.info[1])
  /\ cur' = NoCell
  /\ todo' = Tail(todo)
  /\ UNCHANGED <<format, shell, top_subckt, status>>

Close ==
  /\ status = "run" /\ cur = NoCell /\ todo = << >>
  /\ status' = "done"
  /\ UNCHANGED <<format, todo, shell, top_subckt, netlist_map, out, cur>>

Init ==
  /\ todo \in Lists
  /\ shell \in BOOLEAN /\ top_subckt \in BOOLEAN
  /\ format \in Formats /\ netlist_map = EmptyDict
  /\ out = << >> /\ cur = NoCell /\ status = "start"

Next ==
  \/ \E prims, entry, append_file \in BOOLEAN : Start(prims, entry, append_file)
  \/ SkipNull \/ Refuse \/ RecordOnly \/ BeginCell \/ WriteInstance \/ EndCell \/ Close

Spec == Init /\ [][Next]_vars

-----------------------------------------------------------------------------
(***************************************************************************)
(* Properties.                                                             *)
(***************************************************************************)

\* The shape of the variables: at most the last cell of the file is unfinished.
TypeOK ==
  /\ todo \in Seq([cell : DOMAIN Schematics, kind : Kind])
  /\ shell \in BOOLEAN /\ top_subckt \in BOOLEAN
  /\ DOMAIN netlist_map \subseteq DOMAIN Prims \cup DOMAIN Schematics
  /\ \A i \in DOMAIN out : out[i].closed \/ (i = Len(out) /\ cur # NoCell)
  /\ \A c \in DOMAIN netlist_map : \A n \in DOMAIN netlist_map[c].attrs :
       netlist_map[c].attrs[n] \in Attrs
  /\ format \in Formats /\ status \in {"start", "run", "done", "error"}

\* The cell of a line is a primitive, or it is earlier in the file and finished, as a
\* custom netlist or as a subcircuit.
DefinedBefore(i, cell) ==
  \/ cell \in DOMAIN Prims
  \/ \E j \in 1 .. i - 1 : out[j].cell = cell /\ out[j].closed /\ out[j].subckt

\* Every instance in the file refers to a cell that is defined before it, so that no
\* cell contains itself, even when the list is not in order: in Spectre too, where the top
\* cell may be written without a subcircuit.
InstancesDefined ==
  \A i \in DOMAIN out : \A line \in out[i].lines : DefinedBefore(i, line.cell)

\* The nets of a line correspond by position to the terminals in the header of its
\* cell, and each device of an array has its own slice: over all devices, the slices
\* are the whole connection, whether the writer cuts its bits (CDL, Spectre) or its name
\* (Verilog).  The ground of Spectre counts as the net it stands for.
LinesMatchHeaders ==
  \A i, j \in DOMAIN out :
    \A line \in {l \in out[i].lines : l.cell = out[j].cell /\ ~out[j].custom} :
      /\ Len(line.nets) = Len(out[j].terms)
      /\ \A k \in DOMAIN line.nets :
           /\ Len(line.nets[k]) = Len(TermBits[out[j].terms[k]])
           /\ \A b \in DOMAIN line.nets[k] :
                LET bits == BitsOf(line.inst.conns[out[j].terms[k]])
                    bit  == bits[line.dev * Len(line.nets[k]) + b]
                IN  line.nets[k][b] = IF line.nets[k][b] # GroundName THEN bit
                                      ELSE IF bit = Ground THEN GroundName ELSE bit

\* The cells that a netlist was made of; a custom netlist is not looked into.
Netlisted == {out[i].cell : i \in {j \in DOMAIN out : ~out[j].custom}} \cap DOMAIN netlist_map
AttrsAgree ==
  \A c \in Netlisted : \A inst \in ElementsOf(Schematics[c].insts) : \A t \in DOMAIN inst.conns :
    Has(netlist_map[inst.cell].attrs, TermBase(t)) =>
      \A b \in ElementsOf(BitsOf(inst.conns[t])) :
        /\ Has(netlist_map[c].attrs, Base(b))
        /\ netlist_map[c].attrs[Base(b)] = netlist_map[inst.cell].attrs[TermBase(t)]

TermBitsOf(terms) == UNION {ElementsOf(TermBits[terms[k]]) : k \in DOMAIN terms}

\* A scalar in a cellview where a bus has the same base name, and neither is a terminal:
\* the code merges the two and declares the bus.
Shadowed(c, b) == b[2] = Scalar /\ \E a \in NetBits(c) : Base(a) = Base(b) /\ a[2] # Scalar

BitsDeclared ==
  format = "VERILOG" =>
    \A i \in DOMAIN out : \A line \in out[i].lines : \A k \in DOMAIN line.nets :
      \A b \in ElementsOf(line.nets[k]) :
        b \in TermBitsOf(out[i].terms) \cup out[i].nets \/ Shadowed(out[i].cell, b)

\* What cellview_info collects is right in every format.  Whatever a cell says of the net
\* of a terminal, the cells above it say of every net connected there: attributes reach
\* the top through the netlist map.  In Verilog every bit that a line uses is a bit of a
\* terminal or of a declared net of its module, although terminals are compared by range
\* and nets are merged by base name: all but a scalar that shares its name with a bus.
NetsCollected == AttrsAgree /\ BitsDeclared
=============================================================================
