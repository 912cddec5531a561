--------------------------- MODULE NamePartition ---------------------------
(***************************************************************************)
(* Names of nets as the parser builds them: a list of repeated units,      *)
(* where a unit is a scalar, a bus with a range, or a list again.  The     *)
(* bits of a name, and get_partition, which cuts a name into names of      *)
(* `chunk` bits without writing out its bits: a long bus is cut by index   *)
(* and a repetition by count, and what is left over is carried on.  The    *)
(* expression that Verilog gets for a name.                                *)
(***************************************************************************)
EXTENDS Integers, Sequences, SequencesExt

CONSTANT NoIndex    \* in place of an index

\* name_unit: a step of 0 is a scalar.
Unit(base, start, stop, step) == [base |-> base, start |-> start, stop |-> stop, step |-> step]
One(base) == Unit(base, 0, 0, 0)

\* name_rep: `of` is << a unit >> or << >> with the list in `list`.
RepUnit(mult, u) == [mult |-> mult, of |-> <<u>>, list |-> << >>]
RepList(mult, name) == [mult |-> mult, of |-> << >>, list |-> name]

\* <*mult>(name) as the grammar reads it: a unit in parentheses is no list.
Group(mult, name) ==
  IF Len(name) = 1 /\ name[1].mult = 1 /\ name[1].of # << >> THEN RepUnit(mult, name[1].of[1])
  ELSE RepList(mult, name)

-----------------------------------------------------------------------------
(***************************************************************************)
(* range, name_unit: sizes and indices.                                    *)
(***************************************************************************)

Up(u) == u.stop >= u.start
RangeSize(u) ==
  IF u.step = 0 THEN 0
  ELSE ((IF Up(u) THEN u.stop - u.start ELSE u.start - u.stop) + u.step) \div u.step
At(u, i) == IF Up(u) THEN u.start + u.step * i ELSE u.start - u.step * i

UnitBits(u) ==
  IF u.step = 0 THEN <<<<u.base, NoIndex>>>>
  ELSE [i \in 1 .. RangeSize(u) |-> <<u.base, At(u, i - 1)>>]

RECURSIVE NameBits(_)
RepBits(r) ==
  LET cache == IF r.of # << >> THEN UnitBits(r.of[1]) ELSE NameBits(r.list)
  IN  FlattenSeq([i \in 1 .. r.mult |-> cache])
NameBits(name) == FlattenSeq([i \in DOMAIN name |-> RepBits(name[i])])

DataSize(r) == Len(RepBits([r EXCEPT !.mult = 1]))

-----------------------------------------------------------------------------
(***************************************************************************)
(* get_partition_helper.  `reps` is the part being filled, `cum` its size, *)
(* `parts` the parts that are done.                                        *)
(***************************************************************************)

Add(s, rep, size) == [s EXCEPT !.reps = Append(@, rep), !.cum = @ + size]
Emit(s) == [reps |-> << >>, cum |-> 0, parts |-> Append(s.parts, s.reps)]

\* The elements first .. last of a bus, and those from first on.
Slice(u, first, last) == RepUnit(1, Unit(u.base, At(u, first), At(u, last), u.step))
Rest(u, first) == RepUnit(1, Unit(u.base, At(u, first), u.stop, u.step))

\* A slip: the room of the first part used again for the second.
UnitPart_SameRoom(s, u, chunk) ==
  IF u.step = 0
  THEN LET t == Add(s, RepUnit(1, u), 1) IN IF t.cum = chunk THEN Emit(t) ELSE t
  ELSE LET n     == RangeSize(u)
           room  == chunk - s.cum
           count == IF room <= n THEN n \div room ELSE 0
           Cut(j) == Append(IF j = 1 THEN s.reps ELSE << >>, Slice(u, (j - 1) * room, j * room - 1))
           start == count * room
           reps  == IF count = 0 THEN s.reps ELSE << >>
       IN  [reps  |-> IF start < n THEN Append(reps, Rest(u, start)) ELSE << >>,
            cum   |-> IF start < n THEN n - start ELSE 0,
            parts |-> s.parts \o [j \in 1 .. count |-> Cut(j)]]

\* A bus fills the part, then whole parts, and its end starts the next one.
UnitPart(s, u, chunk) ==
  IF u.step = 0
  THEN LET t == Add(s, RepUnit(1, u), 1) IN IF t.cum = chunk THEN Emit(t) ELSE t
  ELSE LET n     == RangeSize(u)
           room  == chunk - s.cum
           count == IF room <= n THEN 1 + (n - room) \div chunk ELSE 0
           From(j) == IF j = 1 THEN 0 ELSE room + (j - 2) * chunk
           Cut(j) == Append(IF j = 1 THEN s.reps ELSE << >>, Slice(u, From(j), From(j + 1) - 1))
           start == From(count + 1)
           reps  == IF count = 0 THEN s.reps ELSE << >>
       IN  [reps  |-> IF start < n THEN Append(reps, Rest(u, start)) ELSE << >>,
            cum   |-> IF start < n THEN n - start ELSE 0,
            parts |-> s.parts \o [j \in 1 .. count |-> Cut(j)]]

\* A repetition: as many as fit, then one that is cut, until none remains.
RECURSIVE NamePart(_, _, _), RepPart(_, _, _)

\* What a round adds, of units with n bits: all that remain, or the mult1 that fit and
\* the part of one more that it is cut to; and how many remain then.
RepFill(s, r, n, mult1, cut, chunk) ==
  LET some == IF mult1 > 0 THEN Add(s, [r EXCEPT !.mult = mult1], mult1 * n) ELSE s
  IN  IF mult1 >= r.mult THEN Add(s, r, r.mult * n)
      ELSE IF ~cut THEN some
      ELSE IF r.of # << >> THEN UnitPart(some, r.of[1], chunk)
      ELSE NamePart(some, r.list, chunk)
RepLeft(r, mult1, cut) == IF mult1 >= r.mult THEN 0 ELSE r.mult - mult1 - (IF cut THEN 1 ELSE 0)
Filled(t, chunk) == IF t.cum = chunk THEN Emit(t) ELSE t
RepStep(s, r, n, mult1, cut, chunk) ==
  RepPart(Filled(RepFill(s, r, n, mult1, cut, chunk), chunk),
          [r EXCEPT !.mult = RepLeft(r, mult1, cut)], chunk)
RepPart(s, r, chunk) ==
  IF r.mult = 0 THEN s
  ELSE LET n == DataSize(r)
       IN  RepStep(s, r, n, (chunk - s.cum) \div n, (chunk - s.cum) % n # 0, chunk)
NamePart(s, name, chunk) ==
  IF name = << >> THEN s ELSE NamePart(RepPart(s, Head(name), chunk), Tail(name), chunk)

\* get_partition: what is left over is the last part.
Partition(name, chunk) ==
  LET s == NamePart([reps |-> << >>, cum |-> 0, parts |-> << >>], name, chunk)
  IN  IF s.cum # 0 THEN Append(s.parts, s.reps) ELSE s.parts

-----------------------------------------------------------------------------
(***************************************************************************)
(* to_string for Verilog.  An expression is a select of a net (its ends    *)
(* NoIndex for a scalar), { a, b }, or { m a } where a has braces.         *)
(***************************************************************************)

Select(base, from, to) == [op |-> "select", base |-> base, from |-> from, to |-> to]
Concat(parts) == [op |-> "concat", parts |-> parts]
Replicate(m, part) == [op |-> "replicate", times |-> m, part |-> part]

\* Verilog has no ranges with a step: such a bus is written bit by bit.
UnitExpr(u) ==
  LET Bit(i) == Select(u.base, At(u, i), At(u, i))
  IN  IF u.step = 0 THEN Select(u.base, NoIndex, NoIndex)
      ELSE IF RangeSize(u) = 1 THEN Bit(0)
      ELSE IF u.step = 1 THEN Select(u.base, u.start, u.stop)
      ELSE Concat([i \in 1 .. RangeSize(u) |-> Bit(i - 1)])

\* A unit with a step has its braces already.
HasBraces(u) == RangeSize(u) > 1 /\ u.step > 1

RECURSIVE NameExpr(_)
\* A slip: no braces around a unit that is repeated.
RepExpr_NoBraces(r) ==
  LET e == IF r.of # << >> THEN UnitExpr(r.of[1]) ELSE NameExpr(r.list)
  IN  IF r.mult = 1 THEN e ELSE Replicate(r.mult, e)

RepExpr(r) ==
  LET e == IF r.of # << >> THEN UnitExpr(r.of[1]) ELSE NameExpr(r.list)
  IN  IF r.mult = 1 THEN e
      ELSE Replicate(r.mult, IF r.of = << >> \/ HasBraces(r.of[1]) THEN e ELSE Concat(<<e>>))
NameExpr(name) ==
  IF Len(name) = 1 THEN RepExpr(name[1]) ELSE Concat([i \in DOMAIN name |-> RepExpr(name[i])])

\* The bits of an expression, first to last, and whether what it repeats has braces.
RECURSIVE ExprBits(_), Legal(_)
ExprBits(e) ==
  CASE e.op = "concat"    -> FlattenSeq([i \in DOMAIN e.parts |-> ExprBits(e.parts[i])])
    [] e.op = "replicate" -> FlattenSeq([i \in 1 .. e.times |-> ExprBits(e.part)])
    [] e.op = "select"    -> UnitBits(Unit(e.base, e.from, e.to, IF e.from = NoIndex THEN 0 ELSE 1))
Legal(e) ==
  CASE e.op = "concat"    -> \A i \in DOMAIN e.parts : Legal(e.parts[i])
    [] e.op = "replicate" -> e.part.op # "select" /\ Legal(e.part)
    [] e.op = "select"    -> TRUE

-----------------------------------------------------------------------------
\* The parts have the bits of the name in their order, `chunk` bits each, the last one
\* what is left, and so has what Verilog reads of them.
PartitionExact(name, chunk) ==
  LET parts == Partition(name, chunk)
      bits  == [i \in DOMAIN parts |-> NameBits(parts[i])]
      Exact(e, b) == Legal(e) /\ ExprBits(e) = b
  IN  /\ FlattenSeq(bits) = NameBits(name)
      /\ \A i \in DOMAIN parts :
           /\ Exact(NameExpr(parts[i]), bits[i])
           /\ Len(bits[i]) \in IF i < Len(parts) THEN {chunk} ELSE 1 .. chunk
=============================================================================
