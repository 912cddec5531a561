------------------------- MODULE HierNetlist_proofs -------------------------
(***************************************************************************)
(* A netlist defines every cell before it instantiates it, whatever the    *)
(* library of cells, the list and its order, the format and the options;   *)
(* and its lines match the headers of the cells they refer to, its         *)
(* attributes reach the top, its modules declare what they use.            *)
(* The netlist map alone does not say so: with `shell` it has cells that   *)
(* the file has not, and Spectre may write the last cell without a         *)
(* subcircuit.  What holds is that                                         *)
(*   - the file has a finished subcircuit for each cell in the map that is *)
(*     no primitive, for as long as anything is left to write (a shell     *)
(*     writes no instances),                                               *)
(*   - the cell being written is the last one of the file, not finished,   *)
(*     so it is not one of those, and its instances are all in the map     *)
(*     (FileInv),                                                          *)
(*   - no cellview that is still in the list is in the map, and an entry   *)
(*     of the map is never replaced (TypeInv),                             *)
(*   - each line was made from an instance of its cell and from the        *)
(*     terminals that the map has for the master, and each cell in the     *)
(*     file that has been written has in the map what it exports           *)
(*     (MadeInv).                                                          *)
(***************************************************************************)
EXTENDS HierNetlist, Recursion, SequenceTheorems, FiniteSetTheorems, TLAPS

Fields == {"cell", "custom", "subckt", "terms", "nets", "lines", "closed"}

Entries == [cell : DOMAIN Schematics \ DOMAIN Prims, kind : Kind]

\* The file is a sequence of cells with these fields.
FileOK == \E S : out \in Seq(S) /\ \A x \in S : DOMAIN x = Fields

ListOK == IsSeq(todo) /\ \A i \in DOMAIN todo : todo[i].cell \in DOMAIN Schematics

Defines(x, cell) == x.cell = cell /\ x.closed /\ x.subckt

\* What the netlist map has is in the file.
MapInFile ==
  ~shell /\ todo # << >> =>
    \A c \in DOMAIN netlist_map :
      c \in DOMAIN Prims \/ \E j \in 1 .. Len(out) : Defines(out[j], c)

\* The cell that is being written.
CellOpen ==
  cur # NoCell =>
    /\ todo # << >> /\ Len(out) > 0
    /\ ~out[Len(out)].closed /\ out[Len(out)].cell = cur.info[1].cell
    /\ Len(todo) # 1 => out[Len(out)].subckt
    /\ cur = [info |-> <<cur.info[1]>>, left |-> cur.left] /\ IsSeq(cur.left)
    /\ IF shell THEN cur.left = << >>
       ELSE \A i \in DOMAIN cur.left : cur.left[i].cell \in DOMAIN netlist_map

Fresh == status = "start" => cur = NoCell

FileInv == FileOK /\ ListOK /\ Fresh /\ MapInFile /\ CellOpen /\ InstancesDefined

-----------------------------------------------------------------------------
(***************************************************************************)
(* Sequences.                                                              *)
(***************************************************************************)

LEMMA SeqIsSeq ==
  ASSUME NEW S, NEW s \in Seq(S)
  PROVE  IsSeq(s) /\ ElementsOf(s) \subseteq S
<1>1. s \in [1 .. Len(s) -> S] /\ Len(s) \in Nat
  BY LenProperties
<1>2. \A i \in 1 .. Len(s) : s[i] \in ElementsOf(s) /\ s[i] \in S
  BY <1>1 DEF ElementsOf
<1>3. s \in [1 .. Len(s) -> ElementsOf(s)]
  BY <1>1, <1>2
<1>4. QED
  BY <1>1, <1>2, <1>3, SeqDef DEF IsSeq, ElementsOf

LEMMA TailIsSeq ==
  ASSUME NEW s, IsSeq(s), s # << >>
  PROVE  /\ IsSeq(Tail(s)) /\ Len(s) \in Nat /\ Len(s) > 0
         /\ DOMAIN s = 1 .. Len(s) /\ Len(Tail(s)) = Len(s) - 1
         /\ \A i \in DOMAIN Tail(s) : i + 1 \in DOMAIN s /\ Tail(s)[i] = s[i + 1]
<1>1. s \in Seq(ElementsOf(s))
  BY DEF IsSeq
<1>2. /\ Len(s) \in Nat /\ Len(s) > 0 /\ DOMAIN s = 1 .. Len(s) /\ Len(Tail(s)) = Len(s) - 1
      /\ Tail(s) \in Seq(ElementsOf(s))
      /\ \A i \in DOMAIN Tail(s) : i + 1 \in DOMAIN s /\ Tail(s)[i] = s[i + 1]
  BY <1>1
<1>3. Tail(s) \in Seq(ElementsOf(Tail(s)))
  <2>. DEFINE t == Tail(s)
  <2>0. DOMAIN t = 1 .. Len(t)
    BY <1>2
  <2>. HIDE DEF t
  <2>1. \A i \in 1 .. Len(t) : t[i] \in ElementsOf(t)
    BY <2>0 DEF ElementsOf
  <2>. USE DEF t
  <2>2. /\ Tail(s) \in [1 .. Len(Tail(s)) -> ElementsOf(s)]
        /\ Len(Tail(s)) \in Nat
    BY <1>2, LenProperties
  <2>3. Tail(s) \in [1 .. Len(Tail(s)) -> ElementsOf(Tail(s))]
    BY <2>1, <2>2
  <2>4. QED
    BY <2>2, <2>3, SeqDef
<1>4. QED
  BY <1>2, <1>3 DEF IsSeq

\* A sequence of cells with one more.
LEMMA AppendFile ==
  ASSUME FileOK, NEW x, DOMAIN x = Fields, out' = Append(out, x)
  PROVE  /\ FileOK' /\ Len(out) \in Nat /\ Len(out') = Len(out) + 1
         /\ out'[Len(out')] = x /\ \A i \in 1 .. Len(out) : out'[i] = out[i]
         /\ DOMAIN out = 1 .. Len(out) /\ DOMAIN out' = 1 .. Len(out')
<1>1. PICK S : out \in Seq(S) /\ \A y \in S : DOMAIN y = Fields
  BY DEF FileOK
<1>2. out \in Seq(S \cup {x})
  BY <1>1
<1>3. out' \in Seq(S \cup {x})
  BY <1>2
<1>4. FileOK'
  BY <1>1, <1>3 DEF FileOK
<1>5. QED
  BY <1>2, <1>4

\* An index of a list that is not its last one is below it.
LEMMA BelowLast ==
  ASSUME NEW n \in Nat, NEW i \in 1 .. n, i # n
  PROVE  i \in 1 .. n - 1
OBVIOUS

\* A sequence of cells, the last one changed.
LEMMA ChangeFile ==
  ASSUME FileOK, Len(out) > 0, NEW x, DOMAIN x = Fields, out' = [out EXCEPT ![Len(out)] = x]
  PROVE  /\ FileOK' /\ Len(out) \in Nat /\ Len(out') = Len(out)
         /\ out'[Len(out)] = x /\ \A i \in 1 .. Len(out) - 1 : out'[i] = out[i]
         /\ DOMAIN out = 1 .. Len(out) /\ DOMAIN out' = 1 .. Len(out')
<1>1. PICK S : out \in Seq(S) /\ \A y \in S : DOMAIN y = Fields
  BY DEF FileOK
<1>2. out \in Seq(S \cup {x}) /\ Len(out) \in Nat
  BY <1>1
<1>3. out' \in Seq(S \cup {x}) /\ Len(out') = Len(out)
  BY <1>2
<1>4. FileOK'
  BY <1>1, <1>3 DEF FileOK
<1>5. DOMAIN out = 1 .. Len(out) /\ DOMAIN out' = 1 .. Len(out')
  BY <1>2, <1>3
<1>6. out'[Len(out)] = x /\ \A i \in 1 .. Len(out) - 1 : out'[i] = out[i]
  <2>1. /\ Len(out) \in 1 .. Len(out) /\ x \in S \cup {x}
        /\ \A i \in 1 .. Len(out) - 1 : i \in 1 .. Len(out) /\ i # Len(out)
    BY <1>2
  <2>2. \A j \in 1 .. Len(out) : out'[j] = IF j = Len(out) THEN x ELSE out[j]
    BY <1>2, <2>1, ExceptSeq
  <2>3. QED
    BY <2>1, <2>2
<1>7. QED
  BY <1>2, <1>3, <1>4, <1>5, <1>6

LEMMA LastFields ==
  ASSUME FileOK, Len(out) > 0
  PROVE  DOMAIN out[Len(out)] = Fields /\ Len(out) \in Nat /\ DOMAIN out = 1 .. Len(out)
BY DEF FileOK

-----------------------------------------------------------------------------
(***************************************************************************)
(* The steps.                                                              *)
(***************************************************************************)

LEMMA InitFile == Init => FileInv
<1>1. SUFFICES ASSUME Init PROVE FileInv
  OBVIOUS
<1>2. FileOK
  <2>1. out \in Seq({})
    BY <1>1 DEF Init
  <2>2. QED
    BY <2>1 DEF FileOK
<1>3. ListOK
  <2>1. todo \in Seq(Entries)
    BY <1>1, Assumptions DEF Init, NetlistAssumption, Entries
  <2>2. IsSeq(todo) /\ ElementsOf(todo) \subseteq Entries
    BY <2>1, SeqIsSeq
  <2>3. \A i \in DOMAIN todo : todo[i].cell \in DOMAIN Schematics
    BY <2>2 DEF Entries, ElementsOf
  <2>4. QED
    BY <2>2, <2>3 DEF ListOK
<1>4. MapInFile
  BY <1>1 DEF Init, MapInFile, EmptyDict
<1>5. CellOpen /\ InstancesDefined
  BY <1>1 DEF Init, CellOpen, InstancesDefined
<1>6. Fresh
  BY <1>1 DEF Init, Fresh
<1>7. QED
  BY <1>2, <1>3, <1>4, <1>5, <1>6 DEF FileInv

LEMMA StartKeeps ==
  ASSUME FileInv, NEW p \in BOOLEAN, NEW e \in BOOLEAN, NEW a \in BOOLEAN, Start(p, e, a)
  PROVE  FileInv'
<1>1. cur = NoCell /\ UNCHANGED <<todo, shell, out, cur>>
      /\ netlist_map' = (IF p THEN Prims ELSE netlist_map) /\ status' \in {"error", "run"}
  BY DEF Start, FileInv, Fresh
<1>2. FileOK' /\ ListOK' /\ Fresh' /\ CellOpen'
  BY <1>1 DEF FileInv, FileOK, ListOK, Fresh, CellOpen
<1>3. MapInFile' /\ InstancesDefined'
  BY <1>1 DEF FileInv, MapInFile, InstancesDefined, DefinedBefore
<1>4. QED
  BY <1>2, <1>3 DEF FileInv

\* One entry of the list less.
LEMMA RestOfList ==
  ASSUME ListOK, todo # << >>, todo' = Tail(todo)
  PROVE  /\ ListOK' /\ Len(todo) \in Nat /\ Entry.cell \in DOMAIN Schematics
         /\ todo' # << >> => Len(todo) # 1
<1>1. /\ IsSeq(Tail(todo)) /\ Len(todo) \in Nat /\ Len(todo) > 0
      /\ DOMAIN todo = 1 .. Len(todo) /\ Len(Tail(todo)) = Len(todo) - 1
      /\ \A i \in DOMAIN Tail(todo) : i + 1 \in DOMAIN todo /\ Tail(todo)[i] = todo[i + 1]
  BY TailIsSeq DEF ListOK
<1>2. ListOK'
  <2>1. IsSeq(todo')
    BY <1>1
  <2>2. \A i \in DOMAIN todo' : todo'[i].cell \in DOMAIN Schematics
    BY <1>1 DEF ListOK
  <2>3. QED
    BY <2>1, <2>2 DEF ListOK, IsSeq, ElementsOf
<1>3. Entry.cell \in DOMAIN Schematics
  BY <1>1 DEF ListOK, Entry
<1>4. Len(todo) = 1 => Tail(todo) = << >>
  BY <1>1 DEF IsSeq
<1>5. QED
  BY <1>1, <1>2, <1>3, <1>4

LEMMA SkipKeeps ==
  ASSUME FileInv, SkipNull
  PROVE  FileInv'
<1>1. /\ todo # << >> /\ cur = NoCell /\ todo' = Tail(todo) /\ status = "run"
      /\ UNCHANGED <<shell, netlist_map, out, cur, status>>
  BY DEF SkipNull, Idle
<1>2. ListOK'
  BY <1>1, RestOfList DEF FileInv
<1>3. FileOK' /\ Fresh' /\ MapInFile' /\ CellOpen' /\ InstancesDefined'
  BY <1>1 DEF FileInv, FileOK, Fresh, MapInFile, CellOpen, InstancesDefined, DefinedBefore
<1>4. QED
  BY <1>2, <1>3 DEF FileInv

\* What is defined stays defined when the file grows.
LEMMA StaysDefined ==
  ASSUME NEW n \in Nat, DOMAIN out = 1 .. Len(out), n <= Len(out) + 1, Len(out) \in Nat,
         \A j \in 1 .. n - 1 : out'[j] = out[j],
         NEW cell, DefinedBefore(n, cell)
  PROVE  DefinedBefore(n, cell)'
BY DEF DefinedBefore

LEMMA RecordKeeps ==
  ASSUME FileInv, RecordOnly
  PROVE  FileInv'
<1> DEFINE custom == [cell |-> Entry.cell, custom |-> TRUE, subckt |-> TRUE, terms |-> << >>,
                      nets |-> {}, lines |-> {}, closed |-> TRUE]
<1>1. /\ todo # << >> /\ cur = NoCell /\ todo' = Tail(todo) /\ status = "run"
      /\ UNCHANGED <<shell, cur, status>>
  BY DEF RecordOnly, Idle
<1>2. out' = IF shell /\ ~IsTop THEN out ELSE Append(out, custom)
  BY DEF RecordOnly
<1>3. DOMAIN netlist_map' = DOMAIN netlist_map \cup {Entry.cell}
  BY DEF RecordOnly, Record, Emplace, Info
<1>4. ListOK' /\ Fresh' /\ CellOpen'
  BY <1>1, RestOfList DEF FileInv, Fresh, CellOpen
<1>5. CASE shell /\ ~IsTop
  BY <1>1, <1>2, <1>4, <1>5 DEF FileInv, FileOK, MapInFile, InstancesDefined, DefinedBefore
<1>6. CASE ~(shell /\ ~IsTop)
  <2>1. out' = Append(out, custom) /\ DOMAIN custom = Fields
    BY <1>2, <1>6 DEF Fields
  <2>2. /\ FileOK' /\ Len(out) \in Nat /\ Len(out') = Len(out) + 1
        /\ out'[Len(out')] = custom /\ \A i \in 1 .. Len(out) : out'[i] = out[i]
        /\ DOMAIN out = 1 .. Len(out) /\ DOMAIN out' = 1 .. Len(out')
    BY <2>1, AppendFile DEF FileInv
  <2>3. Defines(custom, Entry.cell) /\ custom.lines = {}
    BY DEF Defines
  <2>. HIDE DEF custom
  <2>4. MapInFile'
    BY <1>1, <1>3, <2>2, <2>3 DEF FileInv, MapInFile, Defines
  <2>5. InstancesDefined'
    BY <2>2, <2>3, StaysDefined DEF FileInv, InstancesDefined
  <2>6. QED
    BY <1>4, <2>2, <2>4, <2>5 DEF FileInv
<1>7. QED
  BY <1>5, <1>6

LEMMA BeginKeeps ==
  ASSUME FileInv, BeginCell
  PROVE  FileInv'
<1> DEFINE info == Info(Entry.cell, TRUE)
           head == Header(info)
<1>1. /\ todo # << >> /\ cur = NoCell /\ status = "run" /\ status' \in {"run", "error"}
      /\ UNCHANGED <<todo, shell, netlist_map>>
      /\ out' = Append(out, head)
      /\ cur' = [info |-> <<info>>, left |-> IF shell THEN << >> ELSE Schematics[info.cell].insts]
      /\ Compute /\ ~Throws(Entry.cell, Compute)
  BY DEF BeginCell, Idle
<1>2. info.cell = Entry.cell
  BY DEF Info
<1>3. /\ DOMAIN head = Fields /\ head.cell = Entry.cell /\ ~head.closed /\ head.lines = {}
      /\ Len(todo) # 1 => head.subckt
  BY <1>2 DEF Header, Fields, Wrapped, IsTop
<1>4. Entry.cell \in DOMAIN Schematics
  BY <1>1, TailIsSeq DEF FileInv, ListOK, Entry
<1>. HIDE DEF info
<1>5. /\ cur'.info = <<info>> /\ cur'.left = IF shell THEN << >> ELSE Schematics[Entry.cell].insts
  BY <1>1, <1>2
<1>6. ~shell => \A i \in DOMAIN cur'.left : cur'.left[i].cell \in DOMAIN netlist_map
  BY <1>1, <1>5 DEF Throws, Has, ElementsOf
<1>7. IsSeq(cur'.left)
  <2>1. CASE shell
    BY <2>1, <1>5 DEF IsSeq, ElementsOf
  <2>2. CASE ~shell
    BY <2>2, <1>4, <1>5, Assumptions DEF SchematicAssumption
  <2>3. QED
    BY <2>1, <2>2
<1>. HIDE DEF head
<1>8. /\ FileOK' /\ Len(out) \in Nat /\ Len(out') = Len(out) + 1
      /\ out'[Len(out')] = head /\ \A i \in 1 .. Len(out) : out'[i] = out[i]
      /\ DOMAIN out = 1 .. Len(out) /\ DOMAIN out' = 1 .. Len(out')
  BY <1>1, <1>3, AppendFile DEF FileInv
<1>9. CellOpen'
  <2>1. cur' = [info |-> <<cur'.info[1]>>, left |-> cur'.left]
    BY <1>1, <1>5
  <2>2. cur'.info[1].cell = Entry.cell
    BY <1>2, <1>5
  <2>3. Len(out') > 0 /\ ~out'[Len(out')].closed /\ out'[Len(out')].cell = cur'.info[1].cell
    BY <2>2, <1>3, <1>8
  <2>4. IF shell' THEN cur'.left = << >>
        ELSE \A i \in DOMAIN cur'.left : cur'.left[i].cell \in DOMAIN netlist_map'
    BY <1>1, <1>5, <1>6
  <2>5. todo' # << >> /\ (Len(todo') # 1 => out'[Len(out')].subckt)
    BY <1>1, <1>3, <1>8
  <2>6. IsSeq(cur.left)'
    BY <1>7 DEF IsSeq, ElementsOf
  <2>7. QED
    BY <2>1, <2>3, <2>4, <2>5, <2>6 DEF CellOpen
<1>10. MapInFile'
  BY <1>1, <1>8 DEF FileInv, MapInFile, Defines
<1>11. InstancesDefined'
  BY <1>3, <1>8, StaysDefined DEF FileInv, InstancesDefined
<1>12. ListOK' /\ Fresh'
  BY <1>1 DEF FileInv, ListOK, Fresh, IsSeq, ElementsOf
<1>13. QED
  BY <1>8, <1>9, <1>10, <1>11, <1>12 DEF FileInv

\* Writing an instance adds to the lines of the last cell, at most.
Adds(x, y, inst) ==
  /\ DOMAIN y = Fields
  /\ y.cell = x.cell /\ y.custom = x.custom /\ y.subckt = x.subckt
  /\ y.terms = x.terms /\ y.nets = x.nets /\ y.closed = x.closed
  /\ \/ y.lines = x.lines
     \/ ~Unconnected(inst) /\ y.lines = x.lines \cup Lines(inst)

LEMMA WriteAdds ==
  ASSUME FileOK, Len(out) > 0, WriteInstance
  PROVE  \E y : Adds(out[Len(out)], y, Head(cur.left)) /\ out' = [out EXCEPT ![Len(out)] = y]
<1> DEFINE x    == out[Len(out)]
           inst == Head(cur.left)
<1>1. /\ DOMAIN x = Fields /\ Len(out) \in Nat /\ DOMAIN out = 1 .. Len(out)
  BY LastFields
<1>. HIDE DEF inst
<1>2. CASE out' = out
  <2>1. out' = [out EXCEPT ![Len(out)] = x]
    <3>1. PICK S : out \in Seq(S) /\ \A y \in S : DOMAIN y = Fields
      BY DEF FileOK
    <3>2. QED
      BY <1>1, <1>2, <3>1
  <2>2. Adds(x, x, inst)
    BY <1>1 DEF Adds
  <2>3. QED
    BY <2>1, <2>2 DEF inst
<1>3. CASE ~Unconnected(inst) /\ out' = [out EXCEPT ![Len(out)].lines = @ \cup Lines(inst)]
  <2>1. DEFINE y == [x EXCEPT !.lines = x.lines \cup Lines(inst)]
  <2>2. out' = [out EXCEPT ![Len(out)] = y]
    BY <1>1, <1>3
  <2>3. Adds(x, y, inst)
    BY <1>1, <1>3 DEF Adds, Fields
  <2>. HIDE DEF y
  <2>4. QED
    BY <2>2, <2>3 DEF inst
<1>4. QED
  BY <1>2, <1>3 DEF WriteInstance, inst

\* The instance that is written is in the netlist map, whose cells are finished; the cell
\* it is written in is not.
LEMMA WriteKeeps ==
  ASSUME FileInv, WriteInstance
  PROVE  FileInv'
<1> DEFINE inst == Head(cur.left)
<1>1. /\ cur.left # << >> /\ cur # NoCell /\ status = "run" /\ status' \in {"run", "error"}
      /\ cur' = [cur EXCEPT !.left = Tail(cur.left)]
      /\ UNCHANGED <<todo, shell, netlist_map>>
  BY DEF WriteInstance, NoCell
<1>2. /\ todo # << >> /\ Len(out) > 0 /\ ~shell
      /\ ~out[Len(out)].closed /\ out[Len(out)].cell = cur.info[1].cell
      /\ Len(todo) # 1 => out[Len(out)].subckt
      /\ cur = [info |-> <<cur.info[1]>>, left |-> cur.left] /\ IsSeq(cur.left)
      /\ \A i \in DOMAIN cur.left : cur.left[i].cell \in DOMAIN netlist_map
  BY <1>1 DEF FileInv, CellOpen
<1>3. cur' = [info |-> <<cur.info[1]>>, left |-> Tail(cur.left)]
  <2>1. ASSUME NEW a, NEW b, NEW c
        PROVE  [[info |-> a, left |-> b] EXCEPT !.left = c] = [info |-> a, left |-> c]
    OBVIOUS
  <2>2. PICK a, b : cur = [info |-> <<a>>, left |-> b]
    BY <1>2
  <2>3. cur.info[1] = a /\ cur.left = b
    BY <2>2
  <2>4. cur' = [[info |-> <<a>>, left |-> b] EXCEPT !.left = Tail(cur.left)]
    BY <1>1, <2>2
  <2>5. QED
    BY <2>1, <2>3, <2>4
<1>4. /\ IsSeq(Tail(cur.left)) /\ 1 \in DOMAIN cur.left
      /\ \A i \in DOMAIN Tail(cur.left) : Tail(cur.left)[i].cell \in DOMAIN netlist_map
  BY <1>1, <1>2, TailIsSeq
<1>5. inst.cell \in DOMAIN netlist_map
  BY <1>2, <1>4
<1>6. /\ DOMAIN out[Len(out)] = Fields /\ Len(out) \in Nat /\ DOMAIN out = 1 .. Len(out)
  BY <1>2, LastFields DEF FileInv
<1>7. DefinedBefore(Len(out), inst.cell)
  BY <1>2, <1>5, <1>6 DEF FileInv, MapInFile, Defines, DefinedBefore
<1>. HIDE DEF inst
<1>8. PICK x : /\ DOMAIN x = Fields /\ out' = [out EXCEPT ![Len(out)] = x]
               /\ x.cell = out[Len(out)].cell /\ x.closed = out[Len(out)].closed
               /\ x.subckt = out[Len(out)].subckt
               /\ \A line \in x.lines : line \in out[Len(out)].lines \/ line.cell = inst.cell
  <2>1. \A line \in Lines(inst) : line.cell = inst.cell
    BY DEF Lines
  <2>2. PICK y : Adds(out[Len(out)], y, inst) /\ out' = [out EXCEPT ![Len(out)] = y]
    BY <1>2, WriteAdds DEF FileInv, inst
  <2>3. QED
    BY <2>1, <2>2 DEF Adds
<1>9. /\ FileOK' /\ Len(out') = Len(out)
      /\ out'[Len(out)] = x /\ \A i \in 1 .. Len(out) - 1 : out'[i] = out[i]
      /\ DOMAIN out' = 1 .. Len(out')
  BY <1>2, <1>8, ChangeFile DEF FileInv
<1>10. MapInFile'
  <2>1. \A j \in 1 .. Len(out) : \A c : Defines(out[j], c) => j # Len(out) /\ Defines(out'[j], c)
    BY <1>2, <1>6, <1>9 DEF Defines
  <2>2. QED
    BY <1>1, <1>9, <2>1 DEF FileInv, MapInFile, Defines
<1>11. InstancesDefined'
  <2>1. \A i \in 1 .. Len(out) : \A c : DefinedBefore(i, c) => DefinedBefore(i, c)'
    BY <1>6, <1>9 DEF DefinedBefore
  <2>2. \A i \in 1 .. Len(out) : \A line \in out'[i].lines : DefinedBefore(i, line.cell)'
    <3>1. TAKE i \in 1 .. Len(out)
    <3>2. CASE i = Len(out)
      BY <3>2, <1>6, <1>7, <1>8, <1>9, <2>1 DEF FileInv, InstancesDefined
    <3>3. CASE i # Len(out)
      <4>. i \in 1 .. Len(out) - 1
        BY <3>1, <3>3, <1>6, BelowLast
      <4>1. out'[i] = out[i]
        BY <1>9
      <4>2. \A line \in out[i].lines : DefinedBefore(i, line.cell)
        BY <1>6 DEF FileInv, InstancesDefined
      <4>3. QED
        BY <2>1, <4>1, <4>2
    <3>4. QED
      BY <3>2, <3>3
  <2>3. QED
    BY <1>9, <2>2 DEF InstancesDefined
<1>12. CellOpen'
  <2>1. /\ cur'.info = cur.info /\ cur'.left = Tail(cur.left)
        /\ cur' = [info |-> <<cur'.info[1]>>, left |-> cur'.left]
    BY <1>2, <1>3
  <2>2. IsSeq(cur.left)'
    BY <1>4, <2>1 DEF IsSeq, ElementsOf
  <2>3. /\ Len(out') > 0 /\ ~out'[Len(out')].closed /\ out'[Len(out')].cell = cur'.info[1].cell
        /\ Len(todo') # 1 => out'[Len(out')].subckt
    BY <1>1, <1>2, <1>8, <1>9, <2>1
  <2>4. ~shell' /\ \A i \in DOMAIN cur'.left : cur'.left[i].cell \in DOMAIN netlist_map'
    BY <1>1, <1>2, <1>4, <2>1
  <2>5. todo' # << >>
    BY <1>1, <1>2
  <2>6. QED
    BY <2>1, <2>2, <2>3, <2>4, <2>5 DEF CellOpen
<1>13. ListOK' /\ Fresh'
  BY <1>1 DEF FileInv, ListOK, Fresh, IsSeq, ElementsOf
<1>14. QED
  BY <1>9, <1>10, <1>11, <1>12, <1>13 DEF FileInv

\* The end of a cell closes it.
Closes(x, y) ==
  /\ DOMAIN y = Fields /\ y.closed
  /\ y.cell = x.cell /\ y.custom = x.custom /\ y.subckt = x.subckt
  /\ y.terms = x.terms /\ y.nets = x.nets /\ y.lines = x.lines

LEMMA EndCloses ==
  ASSUME FileOK, Len(out) > 0, EndCell
  PROVE  \E y : Closes(out[Len(out)], y) /\ out' = [out EXCEPT ![Len(out)] = y]
<1> DEFINE y == [out[Len(out)] EXCEPT !.closed = TRUE]
<1>1. /\ DOMAIN out[Len(out)] = Fields /\ Len(out) \in Nat /\ DOMAIN out = 1 .. Len(out)
  BY LastFields
<1>2. out' = [out EXCEPT ![Len(out)] = y]
  BY <1>1 DEF EndCell
<1>3. Closes(out[Len(out)], y)
  BY <1>1 DEF Closes, Fields
<1>. HIDE DEF y
<1>4. QED
  BY <1>2, <1>3

\* The cell that was written is finished when it gets into the map, and a subcircuit
\* unless it is the last one.
LEMMA EndKeeps ==
  ASSUME FileInv, EndCell
  PROVE  FileInv'
<1>1. /\ cur # NoCell /\ cur' = NoCell /\ todo' = Tail(todo) /\ status = "run"
      /\ out' = [out EXCEPT ![Len(out)].closed = TRUE]
      /\ DOMAIN netlist_map' = DOMAIN netlist_map \cup {cur.info[1].cell}
      /\ UNCHANGED <<shell, status>>
  BY DEF EndCell, Record, Emplace
<1>2. /\ todo # << >> /\ Len(out) > 0 /\ ~out[Len(out)].closed
      /\ out[Len(out)].cell = cur.info[1].cell /\ (Len(todo) # 1 => out[Len(out)].subckt)
  BY <1>1 DEF FileInv, CellOpen
<1>3. /\ DOMAIN out[Len(out)] = Fields /\ Len(out) \in Nat /\ DOMAIN out = 1 .. Len(out)
  BY <1>2, LastFields DEF FileInv
<1>4. PICK x : /\ DOMAIN x = Fields /\ x.cell = out[Len(out)].cell /\ x.closed
               /\ x.subckt = out[Len(out)].subckt /\ x.lines = out[Len(out)].lines
               /\ out' = [out EXCEPT ![Len(out)] = x]
  BY <1>2, EndCloses DEF FileInv, Closes
<1>5. /\ FileOK' /\ Len(out') = Len(out)
      /\ out'[Len(out)] = x /\ \A i \in 1 .. Len(out) - 1 : out'[i] = out[i]
      /\ DOMAIN out' = 1 .. Len(out')
  BY <1>2, <1>4, ChangeFile DEF FileInv
<1>6. ListOK' /\ (todo' # << >> => Len(todo) # 1)
  BY <1>1, <1>2, RestOfList DEF FileInv
<1>7. \A j \in 1 .. Len(out) : \A c : Defines(out[j], c) => j # Len(out) /\ Defines(out'[j], c)
  <2>1. ASSUME NEW j \in 1 .. Len(out), NEW c, Defines(out[j], c)
        PROVE  j # Len(out) /\ Defines(out'[j], c)
    <3>1. j # Len(out)
      BY <1>2, <2>1 DEF Defines
    <3>. j \in 1 .. Len(out) - 1
      BY <1>3, <2>1, <3>1, BelowLast
    <3>2. out'[j] = out[j]
      BY <1>5
    <3>3. QED
      BY <2>1, <3>1, <3>2
  <2>2. QED
    BY <2>1
<1>8. MapInFile'
  <2>1. todo' # << >> => Defines(out'[Len(out)], cur.info[1].cell)
    BY <1>2, <1>4, <1>5, <1>6 DEF Defines
  <2>2. Len(out) \in 1 .. Len(out')
    BY <1>2, <1>3, <1>5
  <2>3. ~shell' /\ todo' # << >> =>
          \A c \in DOMAIN netlist_map :
            c \in DOMAIN Prims \/ \E j \in 1 .. Len(out) : Defines(out'[j], c)
    BY <1>1, <1>2, <1>7 DEF FileInv, MapInFile
  <2>4. QED
    BY <1>1, <1>5, <2>1, <2>2, <2>3 DEF MapInFile, Defines
<1>9. InstancesDefined'
  <2>1. \A i \in 1 .. Len(out) : \A c : DefinedBefore(i, c) => DefinedBefore(i, c)'
    BY <1>3, <1>5 DEF DefinedBefore
  <2>2. \A i \in 1 .. Len(out) : out'[i].lines = out[i].lines
    BY <1>3, <1>4, <1>5
  <2>3. QED
    BY <1>3, <1>5, <2>1, <2>2 DEF FileInv, InstancesDefined
<1>10. CellOpen' /\ Fresh'
  BY <1>1 DEF CellOpen, Fresh
<1>11. QED
  BY <1>5, <1>6, <1>8, <1>9, <1>10 DEF FileInv

LEMMA StepKeeps ==
  ASSUME FileInv, [Next]_vars
  PROVE  FileInv'
<1>1. CASE \E p, e, a \in BOOLEAN : Start(p, e, a)
  BY <1>1, StartKeeps
<1>2. CASE SkipNull
  BY <1>2, SkipKeeps
<1>3. CASE Refuse \/ Close \/ UNCHANGED vars
  <2>1. UNCHANGED <<todo, shell, netlist_map, out, cur>> /\ (status' = "start" => status = "start")
    BY <1>3 DEF Refuse, Close, vars
  <2>2. QED
    BY <2>1 DEF FileInv, FileOK, ListOK, Fresh, MapInFile, CellOpen, InstancesDefined, DefinedBefore, IsSeq, ElementsOf
<1>4. CASE RecordOnly
  BY <1>4, RecordKeeps
<1>5. CASE BeginCell
  BY <1>5, BeginKeeps
<1>6. CASE WriteInstance
  BY <1>6, WriteKeeps
<1>7. CASE EndCell
  BY <1>7, EndKeeps
<1>8. QED
  BY <1>1, <1>2, <1>3, <1>4, <1>5, <1>6, <1>7 DEF Next

\* Whatever the cells, the list and the options, no instance in a netlist refers to a cell
\* that is not finished before it (write_netlist): in particular, no cell contains itself.
THEOREM InstancesAlwaysDefined == Spec => []InstancesDefined
<1>1. FileInv => InstancesDefined
  BY DEF FileInv
<1>2. QED
  BY InitFile, StepKeeps, <1>1, PTL DEF Spec
-----------------------------------------------------------------------------
(***************************************************************************)
(* The types.                                                              *)
(***************************************************************************)

\* What is left of the list: each cellview once, and none of them in the map.
ListFresh ==
  /\ todo \in Seq(Entries)
  /\ \A i, j \in DOMAIN todo : todo[i].cell = todo[j].cell => i = j
  /\ \A i \in DOMAIN todo : todo[i].cell \notin DOMAIN netlist_map

Unstarted == status = "start" => out = << >> /\ netlist_map = EmptyDict

AttrsIn(attrs) == \A n \in DOMAIN attrs : attrs[n] \in Attrs

\* The map has primitives and cellviews, with attributes that exist.
MapTyped ==
  \A c \in DOMAIN netlist_map :
    /\ c \in DOMAIN Prims \cup DOMAIN Schematics
    /\ AttrsIn(netlist_map[c].attrs)

CurTyped ==
  cur # NoCell => cur.info[1].cell = Entry.cell /\ AttrsIn(cur.info[1].attrs)

OneOpen == \A i \in DOMAIN out : out[i].closed \/ (i = Len(out) /\ cur # NoCell)

OptionsOK ==
  /\ shell \in BOOLEAN /\ top_subckt \in BOOLEAN /\ format \in Formats
  /\ status \in {"start", "run", "done", "error"}

TypeInv == ListFresh /\ Unstarted /\ MapTyped /\ CurTyped /\ OneOpen /\ OptionsOK

LEMMA TypeInvTypeOK == TypeInv => TypeOK
<1>1. ASSUME todo \in Seq(Entries) PROVE todo \in Seq([cell : DOMAIN Schematics, kind : Kind])
  <2>1. Entries \subseteq [cell : DOMAIN Schematics, kind : Kind]
    BY DEF Entries
  <2>2. ASSUME NEW S, NEW T, S \subseteq T, NEW s \in Seq(S) PROVE s \in Seq(T)
    <3>1. s \in [1 .. Len(s) -> S] /\ Len(s) \in Nat
      BY LenProperties
    <3>2. s \in [1 .. Len(s) -> T]
      BY <2>2, <3>1
    <3>3. QED
      BY <3>1, <3>2, SeqDef
  <2>3. QED
    BY <1>1, <2>1, <2>2
<1>2. QED
  BY <1>1 DEF TypeInv, TypeOK, ListFresh, MapTyped, AttrsIn, OneOpen, OptionsOK

\* What is recorded of a cellview has attributes of its pins and of its children's.
LEMMA InfoAttrs ==
  ASSUME MapTyped, NEW c \in DOMAIN Schematics, NEW compute
  PROVE  /\ Info(c, compute).cell = c /\ AttrsIn(Info(c, compute).attrs)
<1> DEFINE attrs == NetAttrs(c, compute)
<1>1. ASSUME NEW a \in attrs PROVE a[2] \in Attrs
  <2>1. CASE a \in PortAttrs(c)
    BY <2>1, Assumptions DEF PortAttrs, SchematicAssumption
  <2>2. CASE a \in ChildAttrs(c)
    <3>1. PICK inst \in Known(c) :
            \E t \in {u \in DOMAIN inst.conns : Has(netlist_map[inst.cell].attrs, TermBase(u))} :
              \E b \in ElementsOf(BitsOf(inst.conns[t])) :
                a = <<Base(b), netlist_map[inst.cell].attrs[TermBase(t)]>>
      BY <2>2 DEF ChildAttrs
    <3>2. inst.cell \in DOMAIN netlist_map
      BY DEF Known, Has
    <3>3. QED
      BY <3>1, <3>2 DEF MapTyped, AttrsIn, Has
  <2>3. QED
    BY <2>1, <2>2, <1>1 DEF NetAttrs
<1>2. Info(c, compute).attrs = [n \in {a[1] : a \in attrs} |-> (CHOOSE a \in attrs : a[1] = n)[2]]
  BY DEF Info
<1>. HIDE DEF attrs
<1>3. ASSUME NEW n \in {a[1] : a \in attrs} PROVE (CHOOSE a \in attrs : a[1] = n)[2] \in Attrs
  <2>1. \E a \in attrs : a[1] = n
    OBVIOUS
  <2>2. (CHOOSE a \in attrs : a[1] = n) \in attrs
    BY <2>1
  <2>3. QED
    BY <2>2, <1>1
<1>4. AttrsIn(Info(c, compute).attrs)
  BY <1>2, <1>3 DEF AttrsIn
<1>5. QED
  BY <1>4 DEF Info

\* One entry of the list less, and its cellview in the map or not.
LEMMA ListShrinks ==
  ASSUME ListFresh, todo # << >>, todo' = Tail(todo),
         DOMAIN netlist_map' \subseteq DOMAIN netlist_map \cup {Entry.cell}
  PROVE  ListFresh'
<1>1. /\ IsSeq(todo) /\ todo' \in Seq(Entries)
  BY SeqIsSeq DEF ListFresh
<1>2. /\ Len(todo) \in Nat /\ Len(todo) > 0 /\ DOMAIN todo = 1 .. Len(todo)
      /\ \A i \in DOMAIN todo' : i + 1 \in DOMAIN todo /\ todo'[i] = todo[i + 1]
  BY <1>1, TailIsSeq
<1>3. DOMAIN todo' \subseteq Nat \ {0}
  BY <1>1
<1>4. \A i, j \in DOMAIN todo' : todo'[i].cell = todo'[j].cell => i = j
  BY <1>2, <1>3 DEF ListFresh
<1>5. Entry = todo[1]
  BY DEF Entry
<1>6. \A i \in DOMAIN todo' : todo'[i].cell # Entry.cell /\ todo'[i].cell \notin DOMAIN netlist_map
  <2>1. TAKE i \in DOMAIN todo'
  <2>2. 1 \in DOMAIN todo /\ i + 1 # 1
    BY <1>2, <1>3
  <2>3. QED
    BY <2>2, <1>2, <1>5 DEF ListFresh
<1>7. QED
  BY <1>1, <1>4, <1>6 DEF ListFresh

LEMMA FirstEntry ==
  ASSUME ListFresh, todo # << >>
  PROVE  /\ Entry \in Entries /\ Entry.cell \in DOMAIN Schematics \ DOMAIN Prims
         /\ Entry.cell \notin DOMAIN netlist_map
<1>1. 1 \in DOMAIN todo /\ Entry = todo[1] /\ Entry \in Entries
  BY DEF ListFresh, Entry
<1>2. QED
  BY <1>1 DEF ListFresh, Entries

LEMMA InitTyped == Init => TypeInv
<1>1. SUFFICES ASSUME Init PROVE TypeInv
  OBVIOUS
<1>2. ListFresh
  BY <1>1, Assumptions DEF Init, ListFresh, NetlistAssumption, Entries, EmptyDict
<1>3. Unstarted /\ MapTyped /\ CurTyped /\ OneOpen /\ OptionsOK
  BY <1>1 DEF Init, Unstarted, MapTyped, CurTyped, OneOpen, OptionsOK, EmptyDict
<1>4. QED
  BY <1>2, <1>3 DEF TypeInv

\* The map grows by what was found out about a cellview.
LEMMA MapGrows ==
  ASSUME MapTyped, NEW info, AttrsIn(info.attrs), info.cell \in DOMAIN Schematics,
         info.cell \notin DOMAIN netlist_map, Record(info)
  PROVE  /\ MapTyped' /\ DOMAIN netlist_map' = DOMAIN netlist_map \cup {info.cell}
         /\ netlist_map'[info.cell] = info
         /\ \A c \in DOMAIN netlist_map : netlist_map'[c] = netlist_map[c]
BY DEF MapTyped, AttrsIn, Record, Emplace

LEMMA TypeStep ==
  ASSUME TypeInv, FileInv, [Next]_vars
  PROVE  TypeInv'
<1>. USE DEF TypeInv
<1>1. ASSUME NEW p \in BOOLEAN, NEW e \in BOOLEAN, NEW a \in BOOLEAN, Start(p, e, a) PROVE TypeInv'
  <2>1. /\ status = "start" /\ status' \in {"run", "error"} /\ cur = NoCell
        /\ netlist_map = EmptyDict /\ netlist_map' = (IF p THEN Prims ELSE netlist_map)
        /\ UNCHANGED <<format, todo, shell, top_subckt, out, cur>>
    BY <1>1 DEF Start, Unstarted, FileInv, Fresh
  <2>2. ListFresh'
    <3>1. \A i \in DOMAIN todo : todo[i].cell \notin DOMAIN Prims
      <4>1. ElementsOf(todo) \subseteq Entries
        BY SeqIsSeq DEF ListFresh
      <4>2. QED
        BY <4>1 DEF Entries, ElementsOf
    <3>2. QED
      BY <2>1, <3>1 DEF ListFresh
  <2>3. MapTyped'
    BY <2>1, Assumptions DEF MapTyped, AttrsIn, NetlistAssumption
  <2>4. Unstarted' /\ CurTyped' /\ OneOpen' /\ OptionsOK'
    BY <2>1 DEF Unstarted, CurTyped, OneOpen, OptionsOK
  <2>5. QED
    BY <2>2, <2>3, <2>4
<1>2. CASE SkipNull
  <2>1. /\ todo # << >> /\ cur = NoCell /\ status = "run" /\ todo' = Tail(todo)
        /\ UNCHANGED <<format, shell, top_subckt, netlist_map, out, cur, status>>
    BY <1>2 DEF SkipNull, Idle
  <2>2. ListFresh'
    BY <2>1, ListShrinks
  <2>3. Unstarted' /\ MapTyped' /\ CurTyped' /\ OneOpen' /\ OptionsOK'
    BY <2>1 DEF Unstarted, MapTyped, CurTyped, OneOpen, OptionsOK
  <2>4. QED
    BY <2>2, <2>3
<1>3. CASE Refuse \/ Close \/ UNCHANGED vars
  <2>1. /\ status' \in {"error", "done", status}
        /\ UNCHANGED <<format, todo, shell, top_subckt, netlist_map, out, cur>>
    BY <1>3 DEF Refuse, Close, vars
  <2>2. ListFresh' /\ Unstarted' /\ MapTyped' /\ CurTyped' /\ OneOpen' /\ OptionsOK'
    BY <2>1 DEF ListFresh, Unstarted, MapTyped, CurTyped, Entry, OneOpen, OptionsOK
  <2>3. QED
    BY <2>2
<1>4. CASE RecordOnly
  <2> DEFINE info == Info(Entry.cell, Compute)
  <2>1. /\ todo # << >> /\ cur = NoCell /\ status = "run" /\ todo' = Tail(todo) /\ Record(info)
        /\ UNCHANGED <<format, shell, top_subckt, cur, status>>
    BY <1>4 DEF RecordOnly, Idle
  <2>2. Entry.cell \in DOMAIN Schematics /\ Entry.cell \notin DOMAIN netlist_map
    BY <2>1, FirstEntry
  <2>3. info.cell = Entry.cell /\ AttrsIn(info.attrs)
    BY <2>2, InfoAttrs
  <2>. HIDE DEF info
  <2>4. MapTyped' /\ DOMAIN netlist_map' = DOMAIN netlist_map \cup {Entry.cell}
    BY <2>1, <2>2, <2>3, MapGrows
  <2>5. ListFresh'
    BY <2>1, <2>4, ListShrinks
  <2>6. OneOpen'
    <3> DEFINE custom == [cell |-> Entry.cell, custom |-> TRUE, subckt |-> TRUE, terms |-> << >>,
                          nets |-> {}, lines |-> {}, closed |-> TRUE]
    <3>1. CASE out' = out
      BY <2>1, <3>1 DEF OneOpen
    <3>2. CASE out' = Append(out, custom)
      <4>1. /\ Len(out) \in Nat /\ Len(out') = Len(out) + 1
            /\ out'[Len(out')] = custom /\ \A i \in 1 .. Len(out) : out'[i] = out[i]
            /\ DOMAIN out = 1 .. Len(out) /\ DOMAIN out' = 1 .. Len(out')
        <5>1. DOMAIN custom = Fields
          BY DEF Fields
        <5>. HIDE DEF custom
        <5>2. QED
          BY <3>2, <5>1, AppendFile DEF FileInv
      <4>2. custom.closed
        OBVIOUS
      <4>. HIDE DEF custom
      <4>3. \A i \in 1 .. Len(out) : out[i].closed
        BY <2>1, <4>1 DEF OneOpen
      <4>4. QED
        BY <4>1, <4>2, <4>3 DEF OneOpen
    <3>3. QED
      BY <1>4, <3>1, <3>2 DEF RecordOnly
  <2>7. Unstarted' /\ CurTyped' /\ OptionsOK'
    BY <2>1 DEF Unstarted, CurTyped, OptionsOK
  <2>8. QED
    BY <2>4, <2>5, <2>6, <2>7
<1>5. CASE BeginCell
  <2> DEFINE info == Info(Entry.cell, TRUE)
             head == Header(info)
  <2>1. /\ todo # << >> /\ cur = NoCell /\ status = "run" /\ status' \in {"run", "error"}
        /\ UNCHANGED <<format, todo, shell, top_subckt, netlist_map>>
        /\ out' = Append(out, head) /\ cur'.info = <<info>>
    BY <1>5 DEF BeginCell, Idle
  <2>2. Entry.cell \in DOMAIN Schematics
    BY <2>1, FirstEntry
  <2>3. info.cell = Entry.cell /\ AttrsIn(info.attrs)
    BY <2>2, InfoAttrs
  <2>4. DOMAIN head = Fields
    BY DEF Header, Fields
  <2>. HIDE DEF info, head
  <2>5. /\ Len(out) \in Nat /\ Len(out') = Len(out) + 1
        /\ \A i \in 1 .. Len(out) : out'[i] = out[i]
        /\ DOMAIN out = 1 .. Len(out) /\ DOMAIN out' = 1 .. Len(out')
    BY <2>1, <2>4, AppendFile DEF FileInv
  <2>6. cur' # NoCell
    BY <2>1 DEF NoCell
  <2>7. OneOpen'
    <3>1. \A i \in 1 .. Len(out) : out[i].closed
      BY <2>1, <2>5 DEF OneOpen
    <3>2. \A i \in 1 .. Len(out') : i \in 1 .. Len(out) \/ i = Len(out')
      BY <2>5
    <3>3. QED
      BY <2>5, <2>6, <3>1, <3>2 DEF OneOpen
  <2>8. CurTyped' /\ ListFresh' /\ MapTyped' /\ Unstarted' /\ OptionsOK'
    BY <2>1, <2>3 DEF CurTyped, Entry, ListFresh, MapTyped, Unstarted, OptionsOK
  <2>9. QED
    BY <2>7, <2>8
<1>6. CASE WriteInstance
  <2>1. /\ cur # NoCell /\ status = "run" /\ status' \in {"run", "error"}
        /\ cur' = [cur EXCEPT !.left = Tail(cur.left)]
        /\ UNCHANGED <<format, todo, shell, top_subckt, netlist_map>>
    BY <1>6 DEF WriteInstance, NoCell
  <2>2. cur'.info = cur.info /\ cur' # NoCell /\ Len(out) > 0
    <3>1. PICK a, b : cur = [info |-> <<a>>, left |-> b]
      BY <2>1 DEF FileInv, CellOpen
    <3>2. cur' = [info |-> <<a>>, left |-> Tail(b)]
      BY <2>1, <3>1
    <3>3. QED
      BY <2>1, <3>1, <3>2 DEF FileInv, CellOpen, NoCell
  <2>3. PICK y : Adds(out[Len(out)], y, Head(cur.left)) /\ out' = [out EXCEPT ![Len(out)] = y]
    BY <1>6, <2>2, WriteAdds DEF FileInv
  <2>4. /\ Len(out') = Len(out) /\ DOMAIN out = 1 .. Len(out) /\ DOMAIN out' = 1 .. Len(out')
        /\ \A i \in 1 .. Len(out) - 1 : out'[i] = out[i] /\ Len(out) \in Nat
    BY <2>2, <2>3, ChangeFile DEF FileInv, Adds
  <2>5. OneOpen'
    BY <2>2, <2>4, BelowLast DEF OneOpen
  <2>6. CurTyped' /\ ListFresh' /\ MapTyped' /\ Unstarted' /\ OptionsOK'
    BY <2>1, <2>2 DEF CurTyped, Entry, ListFresh, MapTyped, Unstarted, OptionsOK
  <2>7. QED
    BY <2>5, <2>6
<1>7. CASE EndCell
  <2> DEFINE info == cur.info[1]
  <2>1. /\ cur # NoCell /\ cur' = NoCell /\ status = "run" /\ todo' = Tail(todo) /\ Record(info)
        /\ UNCHANGED <<format, shell, top_subckt, status>>
    BY <1>7 DEF EndCell
  <2>2. /\ todo # << >> /\ Len(out) > 0 /\ info.cell = Entry.cell /\ AttrsIn(info.attrs)
    BY <2>1 DEF FileInv, CellOpen, CurTyped
  <2>3. Entry.cell \in DOMAIN Schematics /\ Entry.cell \notin DOMAIN netlist_map
    BY <2>2, FirstEntry
  <2>. HIDE DEF info
  <2>4. MapTyped' /\ DOMAIN netlist_map' = DOMAIN netlist_map \cup {Entry.cell}
    BY <2>1, <2>2, <2>3, MapGrows
  <2>5. ListFresh'
    BY <2>1, <2>2, <2>4, ListShrinks
  <2>6. PICK y : Closes(out[Len(out)], y) /\ out' = [out EXCEPT ![Len(out)] = y]
    BY <1>7, <2>2, EndCloses DEF FileInv
  <2>7. /\ Len(out') = Len(out) /\ DOMAIN out = 1 .. Len(out) /\ DOMAIN out' = 1 .. Len(out')
        /\ \A i \in 1 .. Len(out) - 1 : out'[i] = out[i] /\ Len(out) \in Nat
        /\ out'[Len(out)].closed
    BY <2>2, <2>6, ChangeFile DEF FileInv, Closes
  <2>8. OneOpen'
    BY <2>7, BelowLast DEF OneOpen
  <2>9. Unstarted' /\ CurTyped' /\ OptionsOK'
    BY <2>1 DEF Unstarted, CurTyped, OptionsOK
  <2>10. QED
    BY <2>4, <2>5, <2>8, <2>9
<1>8. QED
  BY <1>1, <1>2, <1>3, <1>4, <1>5, <1>6, <1>7 DEF Next

\* The variables keep their types, whatever the cellviews and the list (write_netlist): a
\* file has at most one cell that is not finished, its last one, and what a cellview gives
\* to the cells above it are attributes of pins.
THEOREM AlwaysTypeOK == Spec => []TypeOK
<1>1. Init => TypeInv /\ FileInv
  BY InitTyped, InitFile
<1>2. TypeInv /\ FileInv /\ [Next]_vars => (TypeInv /\ FileInv)'
  BY TypeStep, StepKeeps
<1>3. QED
  BY <1>1, <1>2, TypeInvTypeOK, PTL DEF Spec

-----------------------------------------------------------------------------
(***************************************************************************)
(* What is in the file.  Every line was made from the instance and from    *)
(* the terminals that the netlist map has for its master, and what the map *)
(* has stays: an entry is emplaced, never replaced.                        *)
(***************************************************************************)

LineOf(fmt, map, x, line) ==
  /\ line.inst \in ElementsOf(Schematics[x.cell].insts)
  /\ line.cell = line.inst.cell /\ line.cell \in DOMAIN map
  /\ line.dev \in 0 .. line.inst.size - 1
  /\ \A t \in ElementsOf(map[line.cell].terms) : t \in DOMAIN line.inst.conns
  /\ line.nets = DeviceNets(fmt, line.inst, map[line.cell].terms, line.dev)

CellMade(fmt, sh, map, x) ==
  /\ x.custom => x.lines = {}
  /\ ~x.custom =>
       /\ x.cell \in DOMAIN Schematics /\ ~OutOfBounds(x.cell)
       /\ x.terms = PortOrder(Schematics[x.cell].ports)
       /\ fmt = "VERILOG" /\ ~sh => x.nets = NetRanges(x.cell)
  /\ x.lines # {} => ~sh
  /\ x.lines # {} /\ fmt = "VERILOG" => \A t \in ElementsOf(x.terms) : ~NoRange(t)
  /\ \A line \in x.lines : LineOf(fmt, map, x, line)

\* What a cellview says of its nets agrees with what its children say of their terminals.
AttrsReach(map, attrs, c) ==
  \A inst \in ElementsOf(Schematics[c].insts) :
    /\ inst.cell \in DOMAIN map
    /\ \A t \in DOMAIN inst.conns : Has(map[inst.cell].attrs, TermBase(t)) =>
         \A b \in ElementsOf(BitsOf(inst.conns[t])) :
           Has(attrs, Base(b)) /\ attrs[Base(b)] = map[inst.cell].attrs[TermBase(t)]

Exported(map, info, c) ==
  info.terms = PortOrder(Schematics[c].ports) /\ AttrsReach(map, info.attrs, c)

\* A cellview in the file is the one being written, or the map has what it exports.
CellKnown(map, open, n, i, x) ==
  ~x.custom => \/ i = n /\ open
               \/ x.cell \in DOMAIN map /\ Exported(map, map[x.cell], x.cell)

BeingWritten ==
  cur # NoCell =>
    /\ ~out[Len(out)].custom /\ out[Len(out)].cell = Entry.cell
    /\ Exported(netlist_map, cur.info[1], Entry.cell)
    /\ ElementsOf(cur.left) \subseteq ElementsOf(Schematics[Entry.cell].insts)
    /\ status = "run" /\ format = "VERILOG" => \A t \in ElementsOf(out[Len(out)].terms) : ~NoRange(t)

CellsMade ==
  \A i \in DOMAIN out : /\ CellMade(format, shell, netlist_map, out[i])
                        /\ CellKnown(netlist_map, cur # NoCell, Len(out), i, out[i])

MadeInv == CellsMade /\ BeingWritten

\* The map only grows.
Extends(m1, m2) == \A c \in DOMAIN m1 : c \in DOMAIN m2 /\ m2[c] = m1[c]

LEMMA LinesStay ==
  ASSUME NEW fmt, NEW sh, NEW m1, NEW m2, Extends(m1, m2), NEW x, CellMade(fmt, sh, m1, x)
  PROVE  CellMade(fmt, sh, m2, x)
<1>1. ASSUME NEW line \in x.lines PROVE LineOf(fmt, m2, x, line)
  BY DEF CellMade, LineOf, Extends
<1>2. QED
  BY <1>1 DEF CellMade

LEMMA ReachStays ==
  ASSUME NEW m1, NEW m2, Extends(m1, m2), NEW info, NEW c, Exported(m1, info, c)
  PROVE  Exported(m2, info, c)
BY DEF Exported, AttrsReach, Extends, Has

LEMMA KnownStays ==
  ASSUME NEW m1, NEW m2, Extends(m1, m2), NEW i, NEW x,
         CellKnown(m1, FALSE, i, i, x)
  PROVE  \A open, n : CellKnown(m2, open, n, i, x)
<1>1. ~x.custom => x.cell \in DOMAIN m1 /\ Exported(m1, m1[x.cell], x.cell)
  BY DEF CellKnown
<1>2. ~x.custom => x.cell \in DOMAIN m2 /\ m2[x.cell] = m1[x.cell]
  BY <1>1 DEF Extends
<1>3. ~x.custom => Exported(m2, m2[x.cell], x.cell)
  BY <1>1, <1>2, ReachStays
<1>4. QED
  BY <1>2, <1>3 DEF CellKnown

\* The attributes on a net are one, or write_netlist refuses the cellview; so the cellview
\* says of the net what each of its children does.
LEMMA InfoExports ==
  ASSUME NEW c, ~Throws(c, TRUE)
  PROVE  Exported(netlist_map, Info(c, TRUE), c)
<1> DEFINE attrs == NetAttrs(c, TRUE)
           found == Info(c, TRUE).attrs
<1>1. \A a, b \in attrs : a[1] = b[1] => a[2] = b[2]
  BY DEF Throws
<1>2. found = [n \in {a[1] : a \in attrs} |-> (CHOOSE a \in attrs : a[1] = n)[2]]
  BY DEF Info
<1>3. \A inst \in ElementsOf(Schematics[c].insts) : inst.cell \in DOMAIN netlist_map
  BY DEF Throws, Has
<1>4. ASSUME NEW inst \in ElementsOf(Schematics[c].insts), NEW t \in DOMAIN inst.conns,
             Has(netlist_map[inst.cell].attrs, TermBase(t)),
             NEW b \in ElementsOf(BitsOf(inst.conns[t]))
      PROVE  <<Base(b), netlist_map[inst.cell].attrs[TermBase(t)]>> \in attrs
  <2>1. inst \in Known(c)
    BY <1>3 DEF Known, Has
  <2>2. <<Base(b), netlist_map[inst.cell].attrs[TermBase(t)]>> \in ChildAttrs(c)
    BY <1>4, <2>1 DEF ChildAttrs
  <2>3. QED
    BY <2>2 DEF NetAttrs
<1>. HIDE DEF attrs, found
<1>5. ASSUME NEW a \in attrs PROVE a[1] \in DOMAIN found /\ found[a[1]] = a[2]
  <2>1. (CHOOSE d \in attrs : d[1] = a[1]) \in attrs /\ (CHOOSE d \in attrs : d[1] = a[1])[1] = a[1]
    OBVIOUS
  <2>2. (CHOOSE d \in attrs : d[1] = a[1])[2] = a[2]
    BY <1>1, <2>1
  <2>3. QED
    BY <1>2, <2>2
<1>6. AttrsReach(netlist_map, found, c)
  <2>1. ASSUME NEW inst \in ElementsOf(Schematics[c].insts), NEW t \in DOMAIN inst.conns,
               Has(netlist_map[inst.cell].attrs, TermBase(t)),
               NEW b \in ElementsOf(BitsOf(inst.conns[t]))
        PROVE  Has(found, Base(b)) /\ found[Base(b)] = netlist_map[inst.cell].attrs[TermBase(t)]
    <3> DEFINE a == <<Base(b), netlist_map[inst.cell].attrs[TermBase(t)]>>
    <3>1. a \in attrs
      BY <1>4, <2>1
    <3>2. a[1] \in DOMAIN found /\ found[a[1]] = a[2]
      BY <3>1, <1>5
    <3>3. QED
      BY <3>2 DEF Has
  <2>2. QED
    BY <1>3, <2>1 DEF AttrsReach
<1>7. QED
  BY <1>6 DEF Exported, Info, found

LEMMA InitMade == Init => MadeInv
BY DEF Init, MadeInv, CellsMade, BeingWritten

LEMMA RecordMade ==
  ASSUME MadeInv, TypeInv, FileInv, RecordOnly
  PROVE  MadeInv'
<1> DEFINE info   == Info(Entry.cell, Compute)
           custom == [cell |-> Entry.cell, custom |-> TRUE, subckt |-> TRUE, terms |-> << >>,
                      nets |-> {}, lines |-> {}, closed |-> TRUE]
<1>1. /\ todo # << >> /\ cur = NoCell /\ Record(info) /\ UNCHANGED <<format, shell, cur>>
      /\ out' = out \/ out' = Append(out, custom)
  BY DEF RecordOnly, Idle
<1>2. Extends(netlist_map, netlist_map')
  BY <1>1 DEF Record, Emplace, Extends
<1>3. CellMade(format, shell, netlist_map', custom) /\ \A open, n, i : CellKnown(netlist_map', open, n, i, custom)
  BY DEF CellMade, CellKnown
<1>4. DOMAIN custom = Fields
  BY DEF Fields
<1>. HIDE DEF info, custom
<1>5. \A i \in DOMAIN out : /\ CellMade(format, shell, netlist_map', out[i])
                            /\ \A open, n : CellKnown(netlist_map', open, n, i, out[i])
  <2>1. TAKE i \in DOMAIN out
  <2>2. CellMade(format, shell, netlist_map, out[i])
    BY DEF MadeInv, CellsMade
  <2>3. CellKnown(netlist_map, FALSE, i, i, out[i])
    BY <1>1 DEF MadeInv, CellsMade, CellKnown
  <2>4. QED
    BY <1>2, <2>2, <2>3, LinesStay, KnownStays
<1>6. BeingWritten'
  BY <1>1 DEF BeingWritten
<1>7. CASE out' = out
  BY <1>1, <1>5, <1>6, <1>7 DEF MadeInv, CellsMade
<1>8. CASE out' = Append(out, custom)
  <2>1. /\ Len(out) \in Nat /\ Len(out') = Len(out) + 1
        /\ out'[Len(out')] = custom /\ \A i \in 1 .. Len(out) : out'[i] = out[i]
        /\ DOMAIN out = 1 .. Len(out) /\ DOMAIN out' = 1 .. Len(out')
    BY <1>4, <1>8, AppendFile DEF FileInv
  <2>2. ASSUME NEW i \in DOMAIN out'
        PROVE  /\ CellMade(format, shell, netlist_map', out'[i])
               /\ CellKnown(netlist_map', cur' # NoCell, Len(out'), i, out'[i])
    <3>1. CASE i \in 1 .. Len(out)
      BY <1>5, <2>1, <3>1
    <3>2. CASE i = Len(out')
      BY <1>3, <2>1, <3>2
    <3>3. QED
      BY <2>1, <3>1, <3>2
  <2>3. QED
    BY <1>1, <1>6, <2>2 DEF MadeInv, CellsMade
<1>9. QED
  BY <1>1, <1>7, <1>8

LEMMA BeginMade ==
  ASSUME MadeInv, TypeInv, FileInv, BeginCell
  PROVE  MadeInv'
<1> DEFINE info == Info(Entry.cell, TRUE)
           head == Header(info)
<1>1. /\ todo # << >> /\ cur = NoCell /\ UNCHANGED <<format, todo, shell, netlist_map>>
      /\ out' = Append(out, head)
      /\ cur' = [info |-> <<info>>, left |-> IF shell THEN << >> ELSE Schematics[info.cell].insts]
      /\ ~Throws(Entry.cell, TRUE)
      /\ status' = IF NoHeader(info) THEN "error" ELSE status
  BY DEF BeginCell, Idle, Compute
<1>2. /\ Entry.cell \in DOMAIN Schematics /\ ~OutOfBounds(Entry.cell)
  BY <1>1, FirstEntry DEF Throws, TypeInv
<1>3. info.cell = Entry.cell /\ info.nets = NetRanges(Entry.cell)
      /\ info.terms = PortOrder(Schematics[Entry.cell].ports)
  BY DEF Info
<1>4. Exported(netlist_map, info, Entry.cell)
  BY <1>1, InfoExports
<1>. HIDE DEF info
<1>5. /\ DOMAIN head = Fields /\ head.cell = Entry.cell /\ ~head.custom /\ head.lines = {}
      /\ head.terms = info.terms
      /\ format = "VERILOG" /\ ~shell => head.nets = info.nets
  BY <1>3 DEF Header, Fields
<1>. HIDE DEF head
<1>6. CellMade(format, shell, netlist_map, head)
  BY <1>2, <1>3, <1>5 DEF CellMade
<1>7. /\ Len(out) \in Nat /\ Len(out') = Len(out) + 1
      /\ out'[Len(out')] = head /\ \A i \in 1 .. Len(out) : out'[i] = out[i]
      /\ DOMAIN out = 1 .. Len(out) /\ DOMAIN out' = 1 .. Len(out')
  BY <1>1, <1>5, AppendFile DEF FileInv
<1>8. cur' # NoCell /\ cur'.info[1] = info
  BY <1>1 DEF NoCell
<1>9. ASSUME NEW i \in DOMAIN out'
      PROVE  /\ CellMade(format, shell, netlist_map, out'[i])
             /\ CellKnown(netlist_map, TRUE, Len(out'), i, out'[i])
  <2>1. CASE i \in 1 .. Len(out)
    BY <1>1, <1>7, <2>1 DEF MadeInv, CellsMade, CellKnown
  <2>2. CASE i = Len(out')
    BY <1>6, <1>7, <2>2 DEF CellKnown
  <2>3. i \in 1 .. Len(out) \/ i = Len(out')
    <3>1. ASSUME NEW n \in Nat, NEW j \in 1 .. n + 1 PROVE j \in 1 .. n \/ j = n + 1
      OBVIOUS
    <3>2. QED
      BY <1>7, <3>1
  <2>4. QED
    BY <2>1, <2>2, <2>3
<1>10. CellsMade'
  BY <1>1, <1>8, <1>9 DEF CellsMade
<1>11. BeingWritten'
  <2>1. ~out'[Len(out')].custom /\ out'[Len(out')].cell = Entry'.cell
    BY <1>1, <1>5, <1>7 DEF Entry
  <2>2. Exported(netlist_map', cur'.info[1], Entry'.cell)
    BY <1>1, <1>4, <1>8 DEF Entry
  <2>3. ElementsOf(cur'.left) \subseteq ElementsOf(Schematics[Entry'.cell].insts)
    BY <1>1, <1>3 DEF Entry, ElementsOf
  <2>4. status' = "run" /\ format' = "VERILOG" => \A t \in ElementsOf(out'[Len(out')].terms) : ~NoRange(t)
    BY <1>1, <1>5, <1>7 DEF NoHeader
  <2>5. QED
    BY <2>1, <2>2, <2>3, <2>4 DEF BeingWritten
<1>12. QED
  BY <1>10, <1>11 DEF MadeInv

LEMMA WriteMade ==
  ASSUME MadeInv, TypeInv, FileInv, WriteInstance
  PROVE  MadeInv'
<1> DEFINE inst == Head(cur.left)
           x    == out[Len(out)]
<1>1. /\ cur.left # << >> /\ cur # NoCell /\ status = "run" /\ status' \in {"run", "error"}
      /\ cur' = [cur EXCEPT !.left = Tail(cur.left)]
      /\ UNCHANGED <<format, todo, shell, netlist_map>>
  BY DEF WriteInstance, NoCell
<1>2. /\ Len(out) > 0 /\ ~shell /\ IsSeq(cur.left) /\ cur = [info |-> <<cur.info[1]>>, left |-> cur.left]
      /\ \A i \in DOMAIN cur.left : cur.left[i].cell \in DOMAIN netlist_map
  BY <1>1 DEF FileInv, CellOpen
<1>3. /\ 1 \in DOMAIN cur.left /\ inst = cur.left[1]
      /\ ElementsOf(Tail(cur.left)) \subseteq ElementsOf(cur.left)
  BY <1>1, <1>2, TailIsSeq DEF ElementsOf
<1>4. cur' # NoCell /\ cur'.info = cur.info /\ cur'.left = Tail(cur.left)
  <2>1. PICK a, b : cur = [info |-> <<a>>, left |-> b]
    BY <1>2
  <2>2. cur' = [info |-> <<a>>, left |-> Tail(b)]
    BY <1>1, <2>1
  <2>3. QED
    BY <2>1, <2>2 DEF NoCell
<1>5. inst \in ElementsOf(Schematics[Entry.cell].insts) /\ inst.cell \in DOMAIN netlist_map
  BY <1>1, <1>2, <1>3 DEF MadeInv, BeingWritten, ElementsOf
<1>6. /\ DOMAIN out[Len(out)] = Fields /\ Len(out) \in Nat /\ DOMAIN out = 1 .. Len(out)
      /\ Len(out) \in DOMAIN out
  BY <1>2, LastFields DEF FileInv
<1>7. x.cell = Entry.cell /\ ~x.custom /\ CellMade(format, shell, netlist_map, x)
      /\ (format = "VERILOG" => \A t \in ElementsOf(x.terms) : ~NoRange(t))
  BY <1>1, <1>6 DEF MadeInv, CellsMade, BeingWritten
<1>8. ASSUME ~Unconnected(inst), NEW line \in Lines(inst)
      PROVE  LineOf(format, netlist_map, x, line)
  <2>1. PICK dev \in 0 .. inst.size - 1 :
          line = [inst |-> inst, dev |-> dev, cell |-> inst.cell,
                  nets |-> DeviceNets(format, inst, netlist_map[inst.cell].terms, dev)]
    BY <1>8 DEF Lines
  <2>2. \A t \in ElementsOf(netlist_map[inst.cell].terms) : t \in DOMAIN inst.conns
    BY <1>8 DEF Unconnected
  <2>. HIDE DEF inst
  <2>3. /\ line.inst = inst /\ line.dev = dev /\ line.cell = inst.cell
        /\ line.nets = DeviceNets(format, inst, netlist_map[inst.cell].terms, dev)
    BY <2>1
  <2>4. QED
    BY <2>2, <2>3, <1>5, <1>7 DEF LineOf
<1>9. PICK y : Adds(x, y, inst) /\ out' = [out EXCEPT ![Len(out)] = y]
  BY <1>2, WriteAdds DEF FileInv
<1>. HIDE DEF inst
<1>10. CellMade(format, shell, netlist_map, y)
  <2>1. /\ y.cell = x.cell /\ ~y.custom /\ y.terms = x.terms /\ y.nets = x.nets
    BY <1>7, <1>9 DEF Adds
  <2>2. \A line \in y.lines : LineOf(format, netlist_map, x, line)
    BY <1>7, <1>8, <1>9 DEF Adds, CellMade
  <2>3. \A line \in y.lines : LineOf(format, netlist_map, y, line)
    BY <2>1, <2>2 DEF LineOf
  <2>. HIDE DEF x
  <2>4. QED
    BY <2>1, <2>3, <1>2, <1>7 DEF CellMade
<1>11. /\ Len(out') = Len(out) /\ out'[Len(out)] = y /\ \A i \in 1 .. Len(out) - 1 : out'[i] = out[i]
       /\ DOMAIN out' = 1 .. Len(out')
  BY <1>2, <1>9, ChangeFile DEF FileInv, Adds
<1>12. ASSUME NEW i \in DOMAIN out'
       PROVE  /\ CellMade(format, shell, netlist_map, out'[i])
              /\ CellKnown(netlist_map, TRUE, Len(out'), i, out'[i])
  <2>1. CASE i = Len(out)
    BY <1>10, <1>11, <2>1 DEF CellKnown
  <2>2. CASE i # Len(out)
    <3>1. i \in 1 .. Len(out) - 1
      BY <1>6, <1>11, <2>2, BelowLast
    <3>2. QED
      BY <3>1, <2>2, <1>6, <1>11 DEF MadeInv, CellsMade, CellKnown
  <2>3. QED
    BY <2>1, <2>2
<1>13. CellsMade'
  BY <1>1, <1>4, <1>12 DEF CellsMade
<1>14. BeingWritten'
  <2>1. ~y.custom /\ y.cell = Entry.cell /\ y.terms = x.terms
    BY <1>7, <1>9 DEF Adds
  <2>2. ElementsOf(cur'.left) \subseteq ElementsOf(Schematics[Entry'.cell].insts)
    BY <1>1, <1>3, <1>4 DEF MadeInv, BeingWritten, Entry
  <2>3. Exported(netlist_map', cur'.info[1], Entry'.cell)
    BY <1>1, <1>4 DEF MadeInv, BeingWritten, Entry
  <2>4. QED
    BY <1>1, <1>7, <1>11, <2>1, <2>2, <2>3 DEF BeingWritten, Entry
<1>15. QED
  BY <1>13, <1>14 DEF MadeInv

LEMMA EndMade ==
  ASSUME MadeInv, TypeInv, FileInv, EndCell
  PROVE  MadeInv'
<1> DEFINE info == cur.info[1]
           x    == out[Len(out)]
<1>1. /\ cur # NoCell /\ cur' = NoCell /\ Record(info) /\ UNCHANGED <<format, shell>>
  BY DEF EndCell
<1>2. /\ Len(out) > 0 /\ info.cell = Entry.cell /\ AttrsIn(info.attrs) /\ todo # << >>
  BY <1>1 DEF FileInv, CellOpen, TypeInv, CurTyped
<1>3. Entry.cell \notin DOMAIN netlist_map /\ Entry.cell \in DOMAIN Schematics
  BY <1>2, FirstEntry DEF TypeInv
<1>4. /\ Len(out) \in Nat /\ DOMAIN out = 1 .. Len(out) /\ Len(out) \in DOMAIN out
  BY <1>2, LastFields DEF FileInv
<1>5. x.cell = Entry.cell /\ ~x.custom /\ CellMade(format, shell, netlist_map, x)
      /\ Exported(netlist_map, info, Entry.cell)
  BY <1>1, <1>4 DEF MadeInv, CellsMade, BeingWritten
<1>6. PICK y : Closes(x, y) /\ out' = [out EXCEPT ![Len(out)] = y]
  BY <1>2, EndCloses DEF FileInv
<1>. HIDE DEF info, x
<1>7. /\ Extends(netlist_map, netlist_map')
      /\ Entry.cell \in DOMAIN netlist_map' /\ netlist_map'[Entry.cell] = info
  BY <1>1, <1>2, <1>3, MapGrows DEF Extends, TypeInv
<1>8. CellMade(format, shell, netlist_map, y) /\ y.cell = Entry.cell
  <2>1. /\ y.cell = x.cell /\ ~y.custom /\ y.terms = x.terms /\ y.nets = x.nets /\ y.lines = x.lines
    BY <1>5, <1>6 DEF Closes
  <2>2. \A line \in y.lines : LineOf(format, netlist_map, y, line)
    BY <1>5, <2>1 DEF CellMade, LineOf
  <2>3. QED
    BY <2>1, <2>2, <1>5 DEF CellMade
<1>9. CellMade(format, shell, netlist_map', y)
  BY <1>7, <1>8, LinesStay
<1>10. \A open, n, i : CellKnown(netlist_map', open, n, i, y)
  <2>1. Exported(netlist_map', info, Entry.cell)
    BY <1>5, <1>7, ReachStays
  <2>2. QED
    BY <1>7, <1>8, <2>1 DEF CellKnown
<1>11. /\ Len(out') = Len(out) /\ out'[Len(out)] = y /\ \A i \in 1 .. Len(out) - 1 : out'[i] = out[i]
       /\ DOMAIN out' = 1 .. Len(out')
  BY <1>2, <1>6, ChangeFile DEF FileInv, Closes, x
<1>12. ASSUME NEW i \in DOMAIN out'
       PROVE  /\ CellMade(format, shell, netlist_map', out'[i])
              /\ CellKnown(netlist_map', FALSE, Len(out'), i, out'[i])
  <2>1. CASE i = Len(out)
    BY <1>9, <1>10, <1>11, <2>1
  <2>2. CASE i # Len(out)
    <3>1. i \in 1 .. Len(out) - 1 /\ i \in DOMAIN out
      BY <1>4, <1>11, <2>2, BelowLast
    <3>2. CellMade(format, shell, netlist_map, out[i]) /\ CellKnown(netlist_map, FALSE, i, i, out[i])
      BY <2>2, <3>1 DEF MadeInv, CellsMade, CellKnown
    <3>3. CellMade(format, shell, netlist_map', out[i]) /\ CellKnown(netlist_map', FALSE, Len(out'), i, out[i])
      BY <3>2, <1>7, LinesStay, KnownStays
    <3>4. QED
      BY <3>1, <3>3, <1>11
  <2>3. QED
    BY <2>1, <2>2
<1>13. CellsMade'
  BY <1>1, <1>12 DEF CellsMade
<1>14. BeingWritten'
  BY <1>1 DEF BeingWritten
<1>15. QED
  BY <1>13, <1>14 DEF MadeInv

LEMMA StepMade ==
  ASSUME MadeInv, TypeInv, FileInv, [Next]_vars
  PROVE  MadeInv'
<1>1. CASE \E p, e, a \in BOOLEAN : Start(p, e, a)
  <2>1. out = << >> /\ out' = out /\ cur' = NoCell
    BY <1>1 DEF Start, TypeInv, Unstarted, FileInv, Fresh
  <2>2. QED
    BY <2>1 DEF MadeInv, CellsMade, BeingWritten
<1>2. CASE SkipNull
  <2>1. cur = NoCell /\ UNCHANGED <<format, shell, netlist_map, out, cur>>
    BY <1>2 DEF SkipNull, Idle
  <2>2. QED
    BY <2>1 DEF MadeInv, CellsMade, BeingWritten
<1>3. CASE Refuse \/ Close \/ UNCHANGED vars
  <2>1. /\ UNCHANGED <<format, todo, shell, netlist_map, out, cur>>
        /\ status' = "run" => status = "run"
    BY <1>3 DEF Refuse, Close, vars
  <2>2. QED
    BY <2>1 DEF MadeInv, CellsMade, BeingWritten, Entry
<1>4. QED
  BY <1>1, <1>2, <1>3, RecordMade, BeginMade, WriteMade, EndMade DEF Next

-----------------------------------------------------------------------------
(***************************************************************************)
(* Minima and maxima of sets of numbers.                                   *)
(***************************************************************************)

LEMMA MinIs ==
  ASSUME NEW S \in SUBSET Int, NEW m \in S, \A y \in S : m <= y
  PROVE  MinOf(S) = m
<1>1. \A x \in S : (\A y \in S : x <= y) => x = m
  OBVIOUS
<1>2. QED
  BY <1>1 DEF MinOf

LEMMA MaxIs ==
  ASSUME NEW S \in SUBSET Int, NEW m \in S, \A y \in S : m >= y
  PROVE  MaxOf(S) = m
<1>1. \A x \in S : (\A y \in S : x >= y) => x = m
  OBVIOUS
<1>2. QED
  BY <1>1 DEF MaxOf

LEMMA MinOfNat ==
  ASSUME NEW S, S \subseteq Nat, S # {}
  PROVE  MinOf(S) \in S /\ \A y \in S : MinOf(S) <= y
BY LeastElement DEF MinOf

\* A finite set has a greatest number: of the sets without one, the smallest would have
\* none when an element is taken out either.
LEMMA MaxOfNat ==
  ASSUME NEW S, S \subseteq Nat, S # {}, IsFiniteSet(S)
  PROVE  MaxOf(S) \in S /\ \A y \in S : MaxOf(S) >= y
<1> DEFINE Greatest(T) == \E x \in T : \A y \in T : x >= y
           Bad  == {T \in SUBSET S : T # {} /\ IsFiniteSet(T) /\ ~Greatest(T)}
           Size == {Cardinality(T) : T \in Bad}
<1>1. SUFFICES ASSUME Bad # {} PROVE FALSE
  <2>1. Greatest(S)
    BY <1>1
  <2>2. QED
    BY <2>1 DEF MaxOf
<1>2. Size \subseteq Nat /\ Size # {}
  BY <1>1, FS_CardinalityType
<1>3. PICK n \in Size : \A m \in Size : n <= m
  BY <1>2, LeastElement
<1>4. PICK T \in Bad : Cardinality(T) = n
  OBVIOUS
<1>5. PICK x \in T : TRUE
  OBVIOUS
<1> DEFINE U == T \ {x}
<1>6. n \in Nat /\ IsFiniteSet(U) /\ Cardinality(U) = n - 1
  BY <1>2, <1>4, <1>5, FS_RemoveElement
<1>7. ASSUME U \in Bad PROVE FALSE
  <2>1. Cardinality(U) \in Size
    BY <1>7
  <2>2. n <= Cardinality(U)
    BY <1>3, <2>1
  <2>. HIDE DEF U
  <2>3. QED
    BY <1>6, <2>2
<1>8. CASE U = {}
  <2>1. T = {x} /\ x \in Nat
    BY <1>5, <1>8
  <2>2. Greatest(T)
    BY <2>1
  <2>3. QED
    BY <2>2, <1>4
<1>9. CASE U # {}
  <2>1. Greatest(U)
    BY <1>6, <1>7, <1>9
  <2>2. PICK z \in U : \A y \in U : z >= y
    BY <2>1
  <2>3. Greatest(T)
    <3>1. x \in Nat /\ z \in Nat /\ T \subseteq Nat /\ T = U \cup {x}
      BY <1>5
    <3>2. CASE x >= z
      BY <3>1, <3>2, <2>2, <1>5
    <3>3. CASE z >= x
      BY <3>1, <3>3, <2>2
    <3>4. QED
      BY <3>1, <3>2, <3>3
  <2>4. QED
    BY <2>3, <1>4
<1>10. QED
  BY <1>8, <1>9

-----------------------------------------------------------------------------
(***************************************************************************)
(* The terminals in order.                                                 *)
(***************************************************************************)

\* The place of a terminal in the order is its own, so none is lost when they are sorted.
LEMMA PortsInOrder ==
  ASSUME NEW ports, IsSeq(ports), NEW p \in ElementsOf(ports)
  PROVE  \E k \in DOMAIN PortOrder(ports) : PortOrder(ports)[k] = p.name
<1> DEFINE n == Len(ports)
           Place(i) == Cardinality(UpTo(ports, i))
<1>1. n \in Nat /\ DOMAIN ports = 1 .. n
  BY DEF IsSeq
<1>2. \A q : Rank(q) \in 1 .. 3
  BY DEF Rank
<1>3. IsFiniteSet(1 .. n) /\ Cardinality(1 .. n) = n
  <2>1. ASSUME NEW m \in Nat PROVE IsFiniteSet(1 .. m) /\ Cardinality(1 .. m) = m
    <3>1. 1 \in Int /\ m \in Int /\ (1 > m => m = 0) /\ m - 1 + 1 = m
      OBVIOUS
    <3>2. QED
      BY <3>1, FS_Interval
  <2>2. QED
    BY <1>1, <2>1
<1>4. ASSUME NEW i \in 1 .. n
      PROVE  /\ IsFiniteSet(UpTo(ports, i)) /\ i \in UpTo(ports, i) /\ Place(i) \in 1 .. n
  <2>1. UpTo(ports, i) \subseteq 1 .. n /\ i \in UpTo(ports, i)
    BY <1>1 DEF UpTo
  <2>2. IsFiniteSet(UpTo(ports, i)) /\ Place(i) <= n
    BY <1>3, <2>1, FS_Subset
  <2>3. Place(i) \in Nat /\ Place(i) # 0
    BY <2>1, <2>2, FS_CardinalityType, FS_EmptySet
  <2>4. QED
    BY <1>1, <2>1, <2>2, <2>3
<1>5. ASSUME NEW i \in 1 .. n, NEW j \in 1 .. n, j \notin UpTo(ports, i)
      PROVE  Place(i) # Place(j)
  <2>1. UpTo(ports, i) \subseteq UpTo(ports, j)
    <3>1. \/ Rank(ports[i]) < Rank(ports[j])
          \/ Rank(ports[i]) = Rank(ports[j]) /\ i <= j
      BY <1>1, <1>2, <1>5 DEF UpTo
    <3>2. \A k \in 1 .. n : Rank(ports[k]) \in Int /\ Rank(ports[i]) \in Int /\ Rank(ports[j]) \in Int
      BY <1>2
    <3>3. QED
      BY <1>1, <3>1, <3>2 DEF UpTo
  <2>2. UpTo(ports, i) # UpTo(ports, j)
    BY <1>4, <1>5
  <2>3. QED
    BY <1>4, <2>1, <2>2, FS_Subset
<1>6. ASSUME NEW i \in 1 .. n, NEW j \in 1 .. n, Place(i) = Place(j)
      PROVE  i = j
  <2>1. j \in UpTo(ports, i) /\ i \in UpTo(ports, j)
    BY <1>5, <1>6
  <2>2. QED
    BY <1>1, <1>2, <2>1 DEF UpTo
<1>7. PICK i \in 1 .. n : ports[i] = p
  BY <1>1 DEF ElementsOf
<1>8. PortAt(ports, Place(i)) = i
  BY <1>1, <1>6, <1>7 DEF PortAt
<1>9. Place(i) \in DOMAIN PortOrder(ports) /\ PortOrder(ports)[Place(i)] = p.name
  BY <1>1, <1>4, <1>7, <1>8 DEF PortOrder
<1>10. QED
  BY <1>9

LEMMA PortsLength ==
  ASSUME NEW ports, IsSeq(ports)
  PROVE  Len(PortOrder(ports)) = Len(ports) /\ Len(ports) \in Nat /\ DOMAIN PortOrder(ports) = 1 .. Len(ports)
<1>1. Len(ports) \in Nat /\ DOMAIN ports = 1 .. Len(ports)
  BY DEF IsSeq
<1>2. PortOrder(ports) = [k \in 1 .. Len(ports) |-> ports[PortAt(ports, k)].name]
  BY <1>1 DEF PortOrder
<1>3. QED
  BY <1>1, <1>2

-----------------------------------------------------------------------------
(***************************************************************************)
(* The declared nets.                                                      *)
(***************************************************************************)

\* Numbers with a step of one, up or down, are a whole interval.
LEMMA Progression ==
  ASSUME NEW n \in Nat \ {0}, NEW f \in [1 .. n -> Nat], NEW step \in {1, -1},
         \A i \in 1 .. n : f[i] = f[1] + (i - 1) * step
  PROVE  \E p, q \in 1 .. n :
           /\ \A i \in 1 .. n : f[p] <= f[i] /\ f[i] <= f[q]
           /\ \A v \in Nat : f[p] <= v /\ v <= f[q] => \E i \in 1 .. n : f[i] = v
<1>1. 1 \in 1 .. n /\ n \in 1 .. n /\ f[1] \in Nat /\ f[n] \in Nat
  OBVIOUS
<1>2. CASE step = 1
  <2>1. \A i \in 1 .. n : f[i] = f[1] + i - 1
    BY <1>1, <1>2
  <2>2. \A i \in 1 .. n : f[1] <= f[i] /\ f[i] <= f[n]
    BY <1>1, <2>1
  <2>3. ASSUME NEW v \in Nat, f[1] <= v, v <= f[n] PROVE \E i \in 1 .. n : f[i] = v
    <3>1. v - f[1] + 1 \in 1 .. n
      <4>1. f[n] = f[1] + n - 1
        BY <1>1, <2>1
      <4>2. QED
        BY <1>1, <2>3, <4>1
    <3>2. QED
      BY <1>1, <2>1, <3>1
  <2>4. QED
    BY <1>1, <2>2, <2>3
<1>3. CASE step = -1
  <2>1. \A i \in 1 .. n : f[i] = f[1] - i + 1
    <3>1. TAKE i \in 1 .. n
    <3>2. f[i] = f[1] + (i - 1) * (-1) /\ i \in Int
      BY <1>3
    <3>3. QED
      BY <1>1, <3>2
  <2>2. \A i \in 1 .. n : f[n] <= f[i] /\ f[i] <= f[1]
    BY <1>1, <2>1
  <2>3. ASSUME NEW v \in Nat, f[n] <= v, v <= f[1] PROVE \E i \in 1 .. n : f[i] = v
    <3>1. f[1] - v + 1 \in 1 .. n
      <4>1. f[n] = f[1] - n + 1
        BY <1>1, <2>1
      <4>2. QED
        BY <1>1, <2>3, <4>1
    <3>2. QED
      BY <1>1, <2>1, <3>1
  <2>4. QED
    BY <1>1, <2>2, <2>3
<1>4. QED
  BY <1>2, <1>3

LEMMA HullIs ==
  ASSUME NEW B, NEW p \in B, NEW q \in B,
         \A b \in B : /\ BitBounds(b)[1] \in Int /\ BitBounds(b)[2] \in Int
                      /\ BitBounds(p)[1] <= BitBounds(b)[1] /\ BitBounds(b)[2] <= BitBounds(q)[2]
  PROVE  Hull(B)[1] = BitBounds(p)[1] /\ Hull(B)[2] = BitBounds(q)[2]
<1> DEFINE lows  == {BitBounds(b)[1] : b \in B}
           highs == {BitBounds(b)[2] : b \in B}
<1>1. MinOf(lows) = BitBounds(p)[1]
  <2>1. /\ lows \in SUBSET Int /\ BitBounds(p)[1] \in lows
        /\ \A y \in lows : BitBounds(p)[1] <= y
    OBVIOUS
  <2>. HIDE DEF lows
  <2>2. QED
    BY <2>1, MinIs
<1>2. MaxOf(highs) = BitBounds(q)[2]
  <2>1. /\ highs \in SUBSET Int /\ BitBounds(q)[2] \in highs
        /\ \A y \in highs : BitBounds(q)[2] >= y
    OBVIOUS
  <2>. HIDE DEF highs
  <2>2. QED
    BY <2>1, MaxIs
<1>3. QED
  BY <1>1, <1>2 DEF Hull

\* What the code compares of a net and a terminal of the same base name.
InRange(term, net) ==
  /\ (term[1] = term[2]) = (net[1] = net[2])
  /\ term[1] # term[2] => ~(net[1] < term[1]) /\ ~(net[2] > term[2])

\* For a terminal without gaps it says that the bit of the net is one of the terminal.
LEMMA TermHull ==
  ASSUME NEW t \in TermNames, ~NoRange(t), NEW b, b = <<TermBase(t), b[2]>>, b[2] \in Nat \cup {Scalar},
         InRange(Hull(ElementsOf(TermBits[t])), BitBounds(b))
  PROVE  b \in ElementsOf(TermBits[t])
<1> DEFINE bits  == TermBits[t]
           n     == Len(bits)
           hull  == Hull(ElementsOf(bits))
<1>1. n \in Nat \ {0} /\ DOMAIN bits = 1 .. n /\ Scalar \notin Nat
  BY Assumptions DEF TermAssumption, NetlistAssumption, IsSeq
<1>2. /\ (hull[1] = hull[2]) = (BitBounds(b)[1] = BitBounds(b)[2])
      /\ hull[1] # hull[2] => ~(BitBounds(b)[1] < hull[1]) /\ ~(BitBounds(b)[2] > hull[2])
  BY DEF InRange
<1>3. CASE bits = <<<<TermBase(t), Scalar>>>>
  <2> DEFINE d == <<TermBase(t), Scalar>>
  <2>1. ElementsOf(bits) = {d}
    BY <1>3 DEF ElementsOf
  <2>2. BitBounds(d) = <<0, 0>>
    BY DEF BitBounds
  <2>3. hull[1] = 0 /\ hull[2] = 0
    <3>. HIDE DEF d, hull
    <3>1. \A e \in {d} : /\ BitBounds(e)[1] \in Int /\ BitBounds(e)[2] \in Int
                         /\ BitBounds(d)[1] <= BitBounds(e)[1] /\ BitBounds(e)[2] <= BitBounds(d)[2]
      BY <2>2
    <3>2. Hull({d})[1] = BitBounds(d)[1] /\ Hull({d})[2] = BitBounds(d)[2]
      BY <3>1, HullIs
    <3>3. QED
      BY <2>1, <2>2, <3>2 DEF hull
  <2>4. b[2] = Scalar
    BY <1>1, <1>2, <2>3 DEF BitBounds
  <2>5. QED
    BY <2>1, <2>4
<1>4. CASE \A i \in DOMAIN bits : /\ bits[i] = <<TermBase(t), bits[1][2] + (i - 1) * Step(t)>>
                                  /\ bits[i][2] \in Nat
  <2> DEFINE f == [i \in 1 .. n |-> bits[i][2]]
  <2>1. /\ f \in [1 .. n -> Nat] /\ 1 \in 1 .. n
        /\ \A i \in 1 .. n : bits[i] = <<TermBase(t), f[i]>> /\ f[i] = f[1] + (i - 1) * Step(t)
    BY <1>1, <1>4
  <2>2. ASSUME n # 1 PROVE Step(t) \in {1, -1}
    <3>1. \A m \in Nat \ {0} : m # 1 => 1 \in 1 .. m - 1 /\ 2 \in 1 .. m
      OBVIOUS
    <3>2. 1 \in 1 .. n - 1 /\ 2 \in 1 .. n
      BY <1>1, <2>2, <3>1
    <3>3. bits[1][2] - bits[2][2] \in {1, -1}
      BY <3>2 DEF NoRange
    <3>4. bits[1][2] \in Nat /\ bits[2][2] \in Nat
      BY <1>1, <1>4, <2>1, <3>2
    <3>5. Step(t) = bits[2][2] - bits[1][2]
      BY <2>2 DEF Step
    <3>6. QED
      BY <3>3, <3>4, <3>5
  <2>3. Step(t) \in {1, -1}
    BY <2>2 DEF Step
  <2>4. \A i \in 1 .. n : BitBounds(bits[i])[1] = f[i] /\ BitBounds(bits[i])[2] = f[i] + 1
    BY <1>1, <2>1 DEF BitBounds
  <2>. HIDE DEF f
  <2>5. PICK p, q \in 1 .. n :
           /\ \A i \in 1 .. n : f[p] <= f[i] /\ f[i] <= f[q]
           /\ \A v \in Nat : f[p] <= v /\ v <= f[q] => \E i \in 1 .. n : f[i] = v
    <3> DEFINE step == Step(t)
    <3>1. \A i \in 1 .. n : f[i] = f[1] + (i - 1) * step
      BY <2>1
    <3>2. step \in {1, -1}
      BY <2>3
    <3>. HIDE DEF n, step
    <3>3. QED
      BY <1>1, <2>1, <3>1, <3>2, Progression
  <2>6. f[p] \in Nat /\ f[q] \in Nat /\ f[p] <= f[q]
    BY <2>1, <2>5
  <2>7. hull[1] = f[p] /\ hull[2] = f[q] + 1
    <3>1. \A d \in ElementsOf(bits) : \E i \in 1 .. n : d = bits[i]
      BY <1>1 DEF ElementsOf
    <3>2. bits[p] \in ElementsOf(bits) /\ bits[q] \in ElementsOf(bits)
      BY <1>1 DEF ElementsOf
    <3>3. \A i \in 1 .. n : f[i] \in Nat
      BY <2>1
    <3>4. \A d \in ElementsOf(bits) :
            /\ BitBounds(d)[1] \in Int /\ BitBounds(d)[2] \in Int
            /\ BitBounds(bits[p])[1] <= BitBounds(d)[1] /\ BitBounds(d)[2] <= BitBounds(bits[q])[2]
      <4>1. TAKE d \in ElementsOf(bits)
      <4>2. PICK i \in 1 .. n : d = bits[i]
        BY <3>1
      <4>3. /\ BitBounds(d)[1] = f[i] /\ BitBounds(d)[2] = f[i] + 1
            /\ BitBounds(bits[p])[1] = f[p] /\ BitBounds(bits[q])[2] = f[q] + 1
        BY <2>4, <4>2
      <4>4. f[i] \in Nat /\ f[p] <= f[i] /\ f[i] <= f[q]
        BY <2>5, <3>3
      <4>5. QED
        BY <4>3, <4>4, <2>6
    <3>. HIDE DEF bits
    <3>5. Hull(ElementsOf(bits))[1] = BitBounds(bits[p])[1] /\ Hull(ElementsOf(bits))[2] = BitBounds(bits[q])[2]
      BY <3>2, <3>4, HullIs
    <3>6. QED
      BY <3>5, <2>4
  <2>8. b[2] \in Nat /\ f[p] <= b[2] /\ b[2] <= f[q]
    <3>. HIDE DEF hull
    <3>1. hull[1] # hull[2]
      BY <2>6, <2>7
    <3>2. /\ BitBounds(b)[1] # BitBounds(b)[2]
          /\ ~(BitBounds(b)[1] < hull[1]) /\ ~(BitBounds(b)[2] > hull[2])
      BY <1>2, <3>1
    <3>3. b[2] \in Nat /\ BitBounds(b)[1] = b[2] /\ BitBounds(b)[2] = b[2] + 1
      BY <3>2 DEF BitBounds
    <3>4. QED
      BY <2>6, <2>7, <3>2, <3>3
  <2>9. PICK i \in 1 .. n : f[i] = b[2]
    BY <2>5, <2>8
  <2>10. b = bits[i]
    BY <2>1, <2>9
  <2>11. QED
    BY <1>1, <2>10 DEF ElementsOf
<1>5. QED
  BY <1>3, <1>4, Assumptions DEF TermAssumption

LEMMA FiniteImage ==
  ASSUME NEW f, IsFiniteSet(DOMAIN f)
  PROVE  IsFiniteSet({f[x] : x \in DOMAIN f})
<1> DEFINE T == {f[x] : x \in DOMAIN f}
           g == [x \in DOMAIN f |-> f[x]]
<1>1. g \in Surjection(DOMAIN f, T)
  BY DEF Surjection
<1>. HIDE DEF g
<1>2. QED
  BY <1>1, FS_Surjection

LEMMA SeqFinite ==
  ASSUME NEW s, IsSeq(s)
  PROVE  IsFiniteSet(ElementsOf(s))
<1>1. Len(s) \in Nat /\ DOMAIN s = 1 .. Len(s)
  BY DEF IsSeq
<1>2. IsFiniteSet(DOMAIN s)
  BY <1>1, FS_Interval
<1>3. QED
  BY <1>2, FiniteImage DEF ElementsOf

LEMMA NetBitsFinite ==
  ASSUME NEW c \in DOMAIN Schematics
  PROVE  IsFiniteSet(NetBits(c))
<1> DEFINE insts == ElementsOf(Schematics[c].insts)
           InstBits(inst) == UNION {ElementsOf(BitsOf(inst.conns[t])) : t \in DOMAIN inst.conns}
           f == [inst \in insts |-> InstBits(inst)]
<1>1. IsFiniteSet(insts)
  BY Assumptions, SeqFinite DEF SchematicAssumption
<1>2. ASSUME NEW inst \in insts PROVE IsFiniteSet(InstBits(inst))
  <2> DEFINE g == [t \in DOMAIN inst.conns |-> ElementsOf(BitsOf(inst.conns[t]))]
  <2>1. /\ IsFiniteSet(DOMAIN inst.conns)
        /\ \A t \in DOMAIN inst.conns : IsFiniteSet(ElementsOf(BitsOf(inst.conns[t])))
    BY Assumptions, SeqFinite DEF SchematicAssumption
  <2>2. /\ InstBits(inst) = UNION {g[t] : t \in DOMAIN g} /\ DOMAIN g = DOMAIN inst.conns
        /\ \A t \in DOMAIN g : IsFiniteSet(g[t])
    BY <2>1
  <2>. HIDE DEF g
  <2>3. IsFiniteSet({g[t] : t \in DOMAIN g})
    BY <2>1, <2>2, FiniteImage
  <2>4. IsFiniteSet(UNION {g[t] : t \in DOMAIN g})
    BY <2>2, <2>3, FS_UNION
  <2>5. QED
    BY <2>2, <2>4
<1>3. /\ NetBits(c) = UNION {f[inst] : inst \in DOMAIN f} /\ DOMAIN f = insts
      /\ \A inst \in DOMAIN f : IsFiniteSet(f[inst])
  <2>1. NetBits(c) = UNION {InstBits(inst) : inst \in insts}
    BY DEF NetBits
  <2>. HIDE DEF InstBits, insts
  <2>2. QED
    BY <1>2, <2>1
<1>. HIDE DEF f, insts
<1>4. IsFiniteSet({f[inst] : inst \in DOMAIN f})
  BY <1>1, <1>3, FiniteImage
<1>5. IsFiniteSet(UNION {f[inst] : inst \in DOMAIN f})
  BY <1>3, <1>4, FS_UNION
<1>6. QED
  BY <1>3, <1>5

\* The range of the bits of one base name, and what the code declares for it.
LEMMA NetDeclared ==
  ASSUME NEW c \in DOMAIN Schematics, NEW b \in NetBits(c), Base(b) \notin PortBases(c),
         ~Shadowed(c, b)
  PROVE  b \in NetRanges(c)
<1> DEFINE B == {d \in NetBits(c) : Base(d) = Base(b)}
<1>1. IsFiniteSet(B) /\ b \in B
  BY NetBitsFinite, FS_Subset
<1>2. \A d \in NetBits(c) : d = <<Base(d), d[2]>> /\ d[2] \in Nat \cup {Scalar}
  BY Assumptions DEF SchematicAssumption
<1>3. Scalar \notin Nat
  BY Assumptions DEF NetlistAssumption
<1>4. SUFFICES b \in Declared(Base(b), Hull(B))
  BY DEF NetRanges
<1>5. \A d \in B : BitBounds(d)[1] \in Nat /\ BitBounds(d)[2] \in Nat
  BY <1>2 DEF BitBounds
<1>6. CASE b[2] = Scalar
  <2>1. \A d \in B : BitBounds(d)[1] = 0 /\ BitBounds(d)[2] = 0
    BY <1>6 DEF Shadowed, BitBounds
  <2>. HIDE DEF B
  <2>2. Hull(B)[1] = 0 /\ Hull(B)[2] = 0
    <3>1. \A d \in B : /\ BitBounds(d)[1] \in Int /\ BitBounds(d)[2] \in Int
                       /\ BitBounds(b)[1] <= BitBounds(d)[1] /\ BitBounds(d)[2] <= BitBounds(b)[2]
      BY <1>1, <2>1
    <3>2. QED
      BY <1>1, <2>1, <3>1, HullIs
  <2>3. QED
    BY <1>2, <1>6, <2>2 DEF Declared
<1>7. CASE b[2] # Scalar
  <2> DEFINE lows  == {BitBounds(d)[1] : d \in B}
             highs == {BitBounds(d)[2] : d \in B}
             lo == MinOf(lows)
             hi == MaxOf(highs)
  <2>1. /\ lows \subseteq Nat /\ highs \subseteq Nat
        /\ BitBounds(b)[1] \in lows /\ BitBounds(b)[2] \in highs
    BY <1>1, <1>5
  <2>2. IsFiniteSet(highs)
    <3> DEFINE g == [d \in B |-> BitBounds(d)[2]]
    <3>1. highs = {g[d] : d \in DOMAIN g} /\ DOMAIN g = B
      OBVIOUS
    <3>. HIDE DEF g, highs, B
    <3>2. QED
      BY <1>1, <3>1, FiniteImage
  <2>3. Hull(B) = <<lo, hi>>
    BY DEF Hull
  <2>. HIDE DEF lows, highs, B
  <2>4. /\ lo \in Nat /\ hi \in Nat /\ lo <= BitBounds(b)[1] /\ BitBounds(b)[2] <= hi
    BY <2>1, <2>2, MinOfNat, MaxOfNat
  <2>. HIDE DEF lo, hi
  <2>5. b[2] \in Nat /\ BitBounds(b)[1] = b[2] /\ BitBounds(b)[2] = b[2] + 1
    BY <1>2, <1>7 DEF BitBounds
  <2>6. lo # hi /\ b[2] \in lo .. hi /\ (hi - lo = 1 => b[2] = lo)
    BY <2>4, <2>5
  <2>7. b = <<Base(b), b[2]>> /\ Hull(B)[1] = lo /\ Hull(B)[2] = hi
    BY <1>2, <2>3
  <2>8. QED
    BY <2>6, <2>7 DEF Declared
<1>8. QED
  BY <1>6, <1>7

LEMMA BitDeclared ==
  ASSUME NEW c \in DOMAIN Schematics, ~OutOfBounds(c), NEW b \in NetBits(c), ~Shadowed(c, b),
         \A t \in ElementsOf(PortOrder(Schematics[c].ports)) : ~NoRange(t)
  PROVE  b \in TermBitsOf(PortOrder(Schematics[c].ports)) \cup NetRanges(c)
<1> DEFINE ports == Schematics[c].ports
<1>1. CASE Base(b) \in PortBases(c)
  <2>1. PICK p \in ElementsOf(ports) : Base(b) = TermBase(p.name)
    BY <1>1 DEF PortBases
  <2>2. IsSeq(ports) /\ p.name \in TermNames /\ b = <<Base(b), b[2]>> /\ b[2] \in Nat \cup {Scalar}
    BY Assumptions DEF SchematicAssumption
  <2>3. PICK k \in DOMAIN PortOrder(ports) : PortOrder(ports)[k] = p.name
    BY <2>2, PortsInOrder
  <2>4. ~NoRange(p.name)
    BY <2>3 DEF ElementsOf
  <2>5. InRange(Hull(ElementsOf(TermBits[p.name])), BitBounds(b))
    BY <2>1 DEF OutOfBounds, InRange
  <2>6. b \in ElementsOf(TermBits[p.name])
    BY <2>1, <2>2, <2>4, <2>5, TermHull
  <2>7. QED
    BY <2>3, <2>6 DEF TermBitsOf
<1>2. CASE Base(b) \notin PortBases(c)
  BY <1>2, NetDeclared
<1>3. QED
  BY <1>1, <1>2

-----------------------------------------------------------------------------
(***************************************************************************)
(* What the lines say.                                                     *)
(***************************************************************************)

\* The part of device `dev` of a connection is within it.
LEMMA SliceInside ==
  ASSUME NEW size \in Nat, NEW w \in Nat, NEW dev \in 0 .. size - 1, NEW b \in 1 .. w
  PROVE  dev * w + b \in 1 .. size * w /\ (dev + 1) * w = dev * w + w
<1>1. dev \in Nat /\ (dev + 1) * w = dev * w + w /\ dev * w \in Nat
  OBVIOUS
<1>2. \A k \in Nat : (dev + 1 + k) * w = (dev + 1) * w + k * w /\ k * w \in Nat
  OBVIOUS
<1>3. size - (dev + 1) \in Nat
  OBVIOUS
<1>4. (dev + 1) * w <= size * w
  <2>1. (dev + 1 + (size - (dev + 1))) * w = (dev + 1) * w + (size - (dev + 1)) * w
        /\ (size - (dev + 1)) * w \in Nat
    BY <1>2, <1>3
  <2>2. dev + 1 + (size - (dev + 1)) = size
    OBVIOUS
  <2>3. QED
    BY <1>1, <2>1, <2>2
<1>5. QED
  BY <1>1, <1>4

LEMMA SliceBits ==
  ASSUME NEW bits, IsSeq(bits), NEW size \in Nat, NEW w \in Nat, Len(bits) = size * w,
         NEW dev \in 0 .. size - 1
  PROVE  LET part == SubSeq(bits, dev * w + 1, (dev + 1) * w)
         IN  /\ Len(part) = w /\ DOMAIN part = 1 .. w
             /\ \A b \in 1 .. w : part[b] = bits[dev * w + b] /\ dev * w + b \in DOMAIN bits
<1> DEFINE part == SubSeq(bits, dev * w + 1, (dev + 1) * w)
           m == dev * w
<1>1. m \in Nat /\ (dev + 1) * w = m + w
  OBVIOUS
<1>2. DOMAIN bits = 1 .. size * w
  BY DEF IsSeq
<1>3. \A b \in 1 .. w : m + b \in DOMAIN bits
  BY <1>2, SliceInside
<1>. HIDE DEF m
<1>4. \A i \in m + 1 .. m + w : bits[i] \in ElementsOf(bits)
  <2>1. TAKE i \in m + 1 .. m + w
  <2>2. i - m \in 1 .. w /\ m + (i - m) = i
    BY <1>1
  <2>3. i \in DOMAIN bits
    BY <1>3, <2>2
  <2>4. QED
    BY <2>3 DEF ElementsOf
<1>5. /\ part \in Seq(ElementsOf(bits))
      /\ Len(part) = IF m + 1 <= m + w THEN (m + w) - (m + 1) + 1 ELSE 0
      /\ \A i \in 1 .. (m + w) - (m + 1) + 1 : part[i] = bits[(m + 1) + i - 1]
  <2>1. part = SubSeq(bits, m + 1, m + w) /\ m + 1 \in Int /\ m + w \in Int
    BY <1>1 DEF m
  <2>. HIDE DEF part
  <2>2. QED
    BY <1>4, <2>1, SubSeqProperties
<1>. HIDE DEF part
<1>6. Len(part) = w /\ DOMAIN part = 1 .. w
  BY <1>1, <1>5
<1>7. \A b \in 1 .. w : part[b] = bits[m + b]
  <2>1. (m + w) - (m + 1) + 1 = w /\ \A b \in 1 .. w : (m + 1) + b - 1 = m + b
    BY <1>1
  <2>2. QED
    BY <1>5, <2>1
<1>8. QED
  BY <1>3, <1>6, <1>7 DEF part, m

\* What a writer puts on a line for a terminal are the bits of the device, one by one, or
\* the ground of Spectre.
LEMMA NetsSlice ==
  ASSUME PartsExact, NEW fmt \in Formats, NEW c \in DOMAIN Schematics,
         NEW inst \in ElementsOf(Schematics[c].insts), NEW dev \in 0 .. inst.size - 1,
         NEW terms, NEW k \in DOMAIN terms, terms[k] \in DOMAIN inst.conns
  PROVE  LET nets == DeviceNets(fmt, inst, terms, dev)[k]
             bits == BitsOf(inst.conns[terms[k]])
             w    == Len(TermBits[terms[k]])
         IN  /\ Len(nets) = w /\ DOMAIN nets = 1 .. w
             /\ \A b \in 1 .. w :
                  /\ dev * w + b \in DOMAIN bits
                  /\ \/ nets[b] = bits[dev * w + b]
                     \/ fmt = "SPECTRE" /\ nets[b] = GroundName /\ bits[dev * w + b] = Ground
<1> DEFINE net  == inst.conns[terms[k]]
           bits == BitsOf(net)
           w    == Len(TermBits[terms[k]])
           nets == DeviceNets(fmt, inst, terms, dev)[k]
           part == SubSeq(bits, dev * w + 1, (dev + 1) * w)
<1>1. /\ inst.size \in Nat \ {0} /\ IsSeq(bits) /\ Len(bits) = inst.size * w /\ w \in Nat
      /\ dev \in Nat
  BY Assumptions DEF SchematicAssumption, TermAssumption, IsSeq
<1>2. /\ Len(part) = w /\ DOMAIN part = 1 .. w
      /\ \A b \in 1 .. w : part[b] = bits[dev * w + b] /\ dev * w + b \in DOMAIN bits
  <2>. HIDE DEF bits, w
  <2>1. QED
    BY <1>1, SliceBits
<1>3. /\ fmt = "CDL" => nets = CdlNets(inst, net, w, dev)
      /\ fmt = "SPECTRE" => nets = SpectreNets(inst, net, w, dev)
      /\ fmt = "VERILOG" => nets = VerilogNets(inst, net, w, dev)
  BY DEF DeviceNets
<1>4. inst.size = 1 => dev = 0 /\ DOMAIN bits = 1 .. w /\ Len(bits) = w /\ \A b \in 1 .. w : dev * w + b = b
  <2>. HIDE DEF bits, w
  <2>1. QED
    BY <1>1 DEF IsSeq
<1>5. BitsOf(PartsOf(net, w)[dev + 1]) = part
  BY DEF PartsExact
<1>. HIDE DEF bits, w, part
<1>6. CASE nets = part
  BY <1>2, <1>6 DEF bits, w
<1>7. CASE inst.size = 1 /\ nets = bits
  BY <1>4, <1>7 DEF bits, w
<1>8. CASE inst.size = 1 /\ bits = <<Ground>> /\ nets = <<GroundName>> /\ fmt = "SPECTRE"
  <2>1. w = 1 /\ Len(nets) = 1 /\ DOMAIN nets = 1 .. 1
    BY <1>4, <1>8
  <2>2. \A b \in 1 .. 1 : b = 1 /\ nets[b] = GroundName /\ dev * w + b = 1 /\ bits[dev * w + b] = Ground
    BY <1>4, <1>8, <2>1
  <2>3. 1 \in DOMAIN bits
    BY <1>8
  <2>4. QED
    BY <1>8, <2>1, <2>2, <2>3 DEF bits, w
<1>9. nets = part \/ (inst.size = 1 /\ nets = bits)
      \/ (inst.size = 1 /\ bits = <<Ground>> /\ nets = <<GroundName>> /\ fmt = "SPECTRE")
  <2>1. CASE fmt = "CDL"
    BY <1>3, <2>1 DEF CdlNets, AllNets, SliceOf, part, bits
  <2>2. CASE fmt = "SPECTRE"
    BY <1>3, <2>2 DEF SpectreNets, SliceOf, part, bits
  <2>3. CASE fmt = "VERILOG"
    BY <1>3, <1>5, <2>3 DEF VerilogNets, bits
  <2>4. QED
    BY <2>1, <2>2, <2>3 DEF Formats
<1>10. QED
  BY <1>6, <1>7, <1>8, <1>9

LEMMA LinesMatch ==
  ASSUME PartsExact, MadeInv, TypeInv, FileInv
  PROVE  LinesMatchHeaders
<1> SUFFICES ASSUME NEW i \in DOMAIN out, NEW j \in DOMAIN out, NEW line \in out[i].lines,
                    line.cell = out[j].cell, ~out[j].custom
             PROVE  /\ Len(line.nets) = Len(out[j].terms)
                    /\ \A k \in DOMAIN line.nets :
                         /\ Len(line.nets[k]) = Len(TermBits[out[j].terms[k]])
                         /\ \A b \in DOMAIN line.nets[k] :
                              LET bits == BitsOf(line.inst.conns[out[j].terms[k]])
                                  bit  == bits[line.dev * Len(line.nets[k]) + b]
                              IN  line.nets[k][b] = IF line.nets[k][b] # GroundName THEN bit
                                                    ELSE IF bit = Ground THEN GroundName ELSE bit
  BY DEF LinesMatchHeaders
<1> DEFINE terms == netlist_map[line.cell].terms
           inst  == line.inst
<1>1. /\ CellMade(format, shell, netlist_map, out[i]) /\ LineOf(format, netlist_map, out[i], line)
      /\ CellMade(format, shell, netlist_map, out[j])
      /\ CellKnown(netlist_map, cur # NoCell, Len(out), j, out[j])
  BY DEF MadeInv, CellsMade, CellMade
<1>2. /\ out[i].cell \in DOMAIN Schematics /\ inst \in ElementsOf(Schematics[out[i].cell].insts)
      /\ line.cell \in DOMAIN netlist_map /\ line.dev \in 0 .. inst.size - 1
      /\ \A t \in ElementsOf(terms) : t \in DOMAIN inst.conns
      /\ line.nets = DeviceNets(format, inst, terms, line.dev)
  BY <1>1 DEF CellMade, LineOf
<1>3. /\ out[j].cell \in DOMAIN Schematics
      /\ out[j].terms = PortOrder(Schematics[out[j].cell].ports)
  BY <1>1 DEF CellMade
<1>4. terms = out[j].terms
  <2>1. ASSUME cur # NoCell, j = Len(out) PROVE FALSE
    <3>1. out[j].cell = Entry.cell /\ todo # << >>
      BY <2>1 DEF MadeInv, BeingWritten, FileInv, CellOpen
    <3>2. QED
      BY <3>1, <1>2, FirstEntry DEF TypeInv
  <2>2. Exported(netlist_map, netlist_map[out[j].cell], out[j].cell)
    BY <1>1, <2>1 DEF CellKnown
  <2>3. QED
    BY <1>3, <2>2 DEF Exported
<1>5. IsSeq(Schematics[out[j].cell].ports)
  BY <1>3, Assumptions DEF SchematicAssumption
<1>6. DOMAIN line.nets = DOMAIN terms /\ line.nets = [k \in DOMAIN terms |-> line.nets[k]]
  BY <1>2 DEF DeviceNets
<1>. HIDE DEF terms
<1>7. Len(line.nets) = Len(terms) /\ DOMAIN terms = 1 .. Len(terms)
  <2>1. Len(terms) \in Nat /\ DOMAIN terms = 1 .. Len(terms)
    BY <1>3, <1>4, <1>5, PortsLength
  <2>2. ASSUME NEW n \in Nat, NEW f, f = [k \in 1 .. n |-> f[k]] PROVE Len(f) = n
    <3>1. f \in [1 .. n -> ElementsOf(f)]
      BY <2>2 DEF ElementsOf
    <3>2. f \in Seq(ElementsOf(f)) /\ DOMAIN f = 1 .. n
      BY <3>1, SeqDef
    <3>3. QED
      BY <3>2, LenProperties
  <2>3. QED
    BY <1>6, <2>1, <2>2
<1>8. format \in Formats
  BY DEF TypeInv, OptionsOK
<1>9. ASSUME NEW k \in DOMAIN line.nets
      PROVE  /\ Len(line.nets[k]) = Len(TermBits[out[j].terms[k]])
             /\ \A b \in DOMAIN line.nets[k] :
                  LET bits == BitsOf(line.inst.conns[out[j].terms[k]])
                      bit  == bits[line.dev * Len(line.nets[k]) + b]
                  IN  line.nets[k][b] = IF line.nets[k][b] # GroundName THEN bit
                                        ELSE IF bit = Ground THEN GroundName ELSE bit
  <2>1. k \in DOMAIN terms /\ terms[k] \in DOMAIN inst.conns
    BY <1>2, <1>6 DEF ElementsOf
  <2> DEFINE bits == BitsOf(inst.conns[terms[k]])
             w    == Len(TermBits[terms[k]])
             nets == line.nets[k]
  <2>2. /\ Len(nets) = w /\ DOMAIN nets = 1 .. w
        /\ \A b \in 1 .. w :
             \/ nets[b] = bits[line.dev * w + b]
             \/ nets[b] = GroundName /\ bits[line.dev * w + b] = Ground
    <3>. HIDE DEF inst
    <3>1. QED
      BY <1>2, <1>8, <2>1, NetsSlice
  <2>. HIDE DEF bits, w, nets
  <2>3. \A b \in DOMAIN nets :
          LET bit == bits[line.dev * Len(nets) + b]
          IN  nets[b] = IF nets[b] # GroundName THEN bit ELSE IF bit = Ground THEN GroundName ELSE bit
    BY <2>2
  <2>4. QED
    BY <1>4, <2>2, <2>3 DEF bits, w, nets
<1>10. QED
  BY <1>4, <1>7, <1>9

LEMMA Declares ==
  ASSUME PartsExact, MadeInv, TypeInv
  PROVE  BitsDeclared
<1> SUFFICES ASSUME format = "VERILOG", NEW i \in DOMAIN out, NEW line \in out[i].lines,
                    NEW k \in DOMAIN line.nets, NEW bit \in ElementsOf(line.nets[k])
             PROVE  bit \in TermBitsOf(out[i].terms) \cup out[i].nets \/ Shadowed(out[i].cell, bit)
  BY DEF BitsDeclared
<1> DEFINE terms == netlist_map[line.cell].terms
           inst  == line.inst
           c     == out[i].cell
           bits  == BitsOf(inst.conns[terms[k]])
           w     == Len(TermBits[terms[k]])
           nets  == line.nets[k]
<1>1. CellMade(format, shell, netlist_map, out[i]) /\ LineOf(format, netlist_map, out[i], line)
  BY DEF MadeInv, CellsMade, CellMade
<1>2. /\ c \in DOMAIN Schematics /\ inst \in ElementsOf(Schematics[c].insts)
      /\ line.dev \in 0 .. inst.size - 1
      /\ \A t \in ElementsOf(terms) : t \in DOMAIN inst.conns
      /\ line.nets = DeviceNets(format, inst, terms, line.dev)
  BY <1>1 DEF CellMade, LineOf
<1>3. /\ ~OutOfBounds(c) /\ out[i].terms = PortOrder(Schematics[c].ports)
      /\ out[i].nets = NetRanges(c) /\ \A t \in ElementsOf(out[i].terms) : ~NoRange(t)
  BY <1>1 DEF CellMade
<1>4. k \in DOMAIN terms /\ terms[k] \in DOMAIN inst.conns
  BY <1>2 DEF DeviceNets, ElementsOf
<1>5. /\ DOMAIN nets = 1 .. w
      /\ \A b \in 1 .. w : line.dev * w + b \in DOMAIN bits /\ nets[b] = bits[line.dev * w + b]
  <2>1. format \in Formats /\ format # "SPECTRE"
    BY DEF Formats
  <2>. HIDE DEF inst, terms, c
  <2>2. QED
    BY <1>2, <1>4, <2>1, NetsSlice
<1>6. bit \in ElementsOf(bits)
  <2>. HIDE DEF bits, w
  <2>1. QED
    BY <1>5 DEF ElementsOf
<1>7. bit \in NetBits(c)
  BY <1>2, <1>4, <1>6 DEF NetBits
<1>. HIDE DEF c, bits, w, nets, inst, terms
<1>8. QED
  BY <1>2, <1>3, <1>7, BitDeclared DEF c

LEMMA Agrees ==
  ASSUME MadeInv, TypeInv, FileInv
  PROVE  AttrsAgree
<1> SUFFICES ASSUME NEW i \in DOMAIN out, ~out[i].custom, out[i].cell \in DOMAIN netlist_map
             PROVE  AttrsReach(netlist_map, netlist_map[out[i].cell].attrs, out[i].cell)
  BY DEF AttrsAgree, Netlisted, AttrsReach
<1>1. ASSUME cur # NoCell, i = Len(out) PROVE FALSE
  <2>1. out[i].cell = Entry.cell /\ todo # << >>
    BY <1>1 DEF MadeInv, BeingWritten, FileInv, CellOpen
  <2>2. QED
    BY <2>1, FirstEntry DEF TypeInv
<1>2. CellKnown(netlist_map, cur # NoCell, Len(out), i, out[i])
  BY DEF MadeInv, CellsMade
<1>3. QED
  BY <1>1, <1>2 DEF CellKnown, Exported

LEMMA AllInv == Spec => [](FileInv /\ TypeInv /\ MadeInv)
<1>1. Init => FileInv /\ TypeInv /\ MadeInv
  BY InitFile, InitTyped, InitMade
<1>2. FileInv /\ TypeInv /\ MadeInv /\ [Next]_vars => (FileInv /\ TypeInv /\ MadeInv)'
  BY StepKeeps, TypeStep, StepMade
<1>3. QED
  BY <1>1, <1>2, PTL DEF Spec

\* The attribute that a cell gives to the net of a terminal reaches every cell above it,
\* on every net connected there, and a Verilog module declares every bit its lines use but
\* a scalar named as a bus is (get_cv_netlist_info): for every library in which
\* get_partition cuts the names of connections into slices.
THEOREM AlwaysCollected == ASSUME PartsExact PROVE Spec => []NetsCollected
<1>1. FileInv /\ TypeInv /\ MadeInv => NetsCollected
  BY Agrees, Declares DEF NetsCollected
<1>2. QED
  BY <1>1, AllInv, PTL

\* The nets of a line are, position by position, those for the terminals in the header of
\* its cell, and each device has its own slice (write_instance of the three writers).
THEOREM AlwaysMatch == ASSUME PartsExact PROVE Spec => []LinesMatchHeaders
<1>1. FileInv /\ TypeInv /\ MadeInv => LinesMatchHeaders
  BY LinesMatch
<1>2. QED
  BY <1>1, AllInv, PTL
=============================================================================
