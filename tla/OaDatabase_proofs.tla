-------------------------- MODULE OaDatabase_proofs --------------------------
(***************************************************************************)
(* Proofs about OaDatabase for any libraries, lists, designs and faults.   *)
(* Four invariants, each inductive with those before it: IInv, of calls    *)
(* and of what they hold; Saved, of what each design was written from;     *)
(* Progress, of how far the list under way has come; and Hierarchy, of     *)
(* what a recursive read has seen and has still to visit.                  *)
(***************************************************************************)
EXTENDS OaDatabase, Recursion, SequenceTheorems, FiniteSetTheorems, TLAPS

-----------------------------------------------------------------------------
(***************************************************************************)
(* The inductive invariant.                                                *)
(***************************************************************************)

ReadOp == call.op \in {"recursive", "library"}

\* The fields of the call of each operation.
CallShape ==
  /\ call.op \in {"idle", "lib", "sch", "lay", "recursive", "library"}
  /\ call.op = "idle" => call = Idle
  /\ call.op = "lib" =>
       /\ call = [op |-> "lib", at |-> call.at, lib |-> call.lib, tech |-> call.tech]
       /\ call.lib \in Libraries
  /\ Writing =>
       call = [op |-> call.op, at |-> call.at, list |-> call.list, k |-> call.k,
               isSch |-> call.isSch, renames |-> call.renames]
  /\ ReadOp =>
       call = [op |-> call.op, root |-> call.root, stack |-> call.stack, out |-> call.out,
               seen |-> call.seen, left |-> call.left]
  /\ call.op = "library" => call.root \in Libraries

Keys ==
  /\ \A k \in DOMAIN disk \cup DOMAIN open \cup DOMAIN views \cup DOMAIN yaml : k[1] \in Libraries
  /\ DOMAIN written \subseteq DOMAIN disk
  /\ known \cup defined \cup attached \cup paths \cup prims \subseteq Libraries

\* The loop over a list is at one of its entries, whose design is open, or at its end.
AtList ==
  Writing =>
    /\ call.list \in DOMAIN (IF call.op = "lay" THEN LayLists ELSE SchLists)
    /\ call.k \in Nat \ {0}
    /\ AtEntry => call.k <= Len(List.entries) /\ EntryKey \in DOMAIN open

IsFrame(f) ==
  /\ f = [cell |-> f.cell, at |-> f.at, syms |-> f.syms, todo |-> f.todo]
  /\ f.at \in {"schematic", "symbols", "masters"}
  /\ f.at = "symbols" => f.cell[1] \in Libraries /\ \A k \in f.syms : k[1] \in Libraries

\* The cells below the top of the stack have been read and wait for their masters, so
\* a cell that has not been read is not among them.
StackOK(stack, seen) ==
  /\ stack \in Seq(Range(stack))
  /\ \A i \in DOMAIN stack : IsFrame(stack[i])
  /\ \A i \in DOMAIN stack : i > 1 => stack[i].at = "masters"
  /\ \A i \in DOMAIN stack : stack[i].at = "masters" => stack[i].cell \in seen
  /\ \A i, j \in DOMAIN stack : stack[i].cell = stack[j].cell => i = j

\* The read accesses that the call under way has to release.
Held(l) ==
  (IF call.op = "library" /\ call.root = l THEN 1 ELSE 0)
    + (IF Reading /\ Top.at = "symbols" /\ Top.cell[1] = l THEN 1 ELSE 0)

\* Accesses are never fewer than those in use; an exception leaves more.
AccessOK ==
  /\ access \in [Libraries -> Nat]
  /\ \A l \in Libraries : access[l] >= Held(l) /\ (clean => access[l] = Held(l))

OpenOK == clean => DOMAIN open \subseteq (IF AtEntry THEN {EntryKey} ELSE {})

IInv ==
  /\ CallShape /\ Keys /\ AtList /\ AccessOK /\ OpenOK
  /\ ReadOp => StackOK(call.stack, call.seen)

-----------------------------------------------------------------------------
(***************************************************************************)
(* Calls that end.                                                         *)
(***************************************************************************)

LEMMA IdleCall ==
  ASSUME call = Idle
  PROVE  /\ call.op = "idle" /\ ~Writing /\ ~AtEntry /\ ~ReadOp /\ ~Reading
         /\ \A l : Held(l) = 0
         /\ CallShape /\ AtList
BY DEF Idle, Writing, AtEntry, ReadOp, Reading, Held, CallShape, AtList

LEMMA HeldNat ==
  ASSUME NEW l
  PROVE  Held(l) \in 0 .. 2
BY DEF Held

LEMMA InitInv == Init => IInv
<1>. SUFFICES ASSUME Init PROVE IInv
  OBVIOUS
<1>1. call = Idle /\ clean = TRUE
  BY DEF Init
<1>2. CallShape /\ AtList /\ ~ReadOp /\ ~AtEntry /\ \A l : Held(l) = 0
  BY <1>1, IdleCall
<1>3. Keys
  BY OaAssumption DEF Init, Keys
<1>4. AccessOK
  BY <1>2 DEF Init, AccessOK
<1>5. OpenOK
  BY DEF Init, OpenOK
<1>. QED BY <1>2, <1>3, <1>4, <1>5 DEF IInv

\* A step to a call that reads nothing keeps the invariant when it has thrown, or when
\* nothing was held.
LEMMA QuietInv ==
  ASSUME IInv, Keys', CallShape', AtList', OpenOK', access' = access,
         call'.op \in {"idle", "lib", "sch", "lay"},
         clean' => clean /\ \A l \in Libraries : Held(l) = 0
  PROVE  IInv'
<1>1. (~ReadOp /\ \A l : Held(l) = 0)'
  BY DEF ReadOp, Reading, Held
<1>2. AccessOK'
  BY <1>1 DEF AccessOK, IInv
<1>. QED BY <1>1, <1>2 DEF IInv

\* A call that ends.
LEMMA EndsInv ==
  ASSUME IInv, Keys', call' = Idle, access' = access,
         clean' => /\ clean /\ (\A l \in Libraries : Held(l) = 0)
                   /\ DOMAIN open' = {}
  PROVE  IInv'
<1>1. CallShape' /\ AtList' /\ call'.op = "idle"
  BY DEF Idle, Writing, AtEntry, ReadOp, CallShape, AtList
<1>2. OpenOK'
  BY DEF OpenOK
<1>. QED BY <1>1, <1>2, QuietInv

\* Outside a reading call nothing is held.
LEMMA NotReading ==
  ASSUME IInv, ~ReadOp
  PROVE  \A l \in Libraries : Held(l) = 0
BY DEF ReadOp, Reading, Held

\* An exception that leaves the designs in memory under keys of libraries.
LEMMA FailInv ==
  ASSUME NEW c, IInv, Fail(c), \A k \in DOMAIN open' : k[1] \in Libraries
  PROVE  IInv'
<1>1. Keys'
  BY DEF IInv, Keys, Fail, stored, settings
<1>. QED BY <1>1, EndsInv DEF Fail

LEMMA OaThrowsInv == IInv /\ OaThrows => IInv'
<1>. SUFFICES ASSUME IInv, OaThrows PROVE IInv'
  OBVIOUS
<1>1. Keys'
  BY DEF IInv, Keys, OaThrows, settings
<1>. QED BY <1>1, EndsInv DEF OaThrows

\* A new process holds nothing.
LEMMA ProcessEndsInv == IInv /\ ProcessEnds => IInv'
<1>. SUFFICES ASSUME IInv, ProcessEnds PROVE IInv'
  OBVIOUS
<1>1. Keys'
  BY DEF IInv, Keys, ProcessEnds, stored
<1>2. (CallShape /\ AtList /\ ~ReadOp /\ ~AtEntry /\ \A l : Held(l) = 0)'
  BY DEF ProcessEnds, Idle, Writing, AtEntry, ReadOp, Reading, Held, CallShape, AtList
<1>3. AccessOK'
  BY <1>2 DEF AccessOK, ProcessEnds
<1>4. OpenOK'
  BY DEF OpenOK, ProcessEnds
<1>. QED BY <1>1, <1>2, <1>3, <1>4 DEF IInv

-----------------------------------------------------------------------------
(***************************************************************************)
(* Settings and create_lib.                                                *)
(***************************************************************************)

\* A call that is requested leaves what is kept alone.
LEMMA SettingsInv ==
  ASSUME IInv, call = Idle, UNCHANGED <<stored, open, access, call, clean>>,
         known' \cup paths' \cup prims' \subseteq Libraries
  PROVE  IInv'
<1>1. Keys'
  BY DEF IInv, Keys, stored
<1>2. ~ReadOp /\ ~AtEntry
  BY IdleCall
<1>3. (CallShape /\ AtList /\ ~AtEntry)' /\ call'.op = "idle"
  BY DEF Idle, Writing, AtEntry, ReadOp, CallShape, AtList
<1>4. OpenOK'
  BY <1>2, <1>3 DEF IInv, OpenOK
<1>. QED BY <1>1, <1>2, <1>3, <1>4, QuietInv, NotReading

LEMMA RequestSettingsInv ==
  ASSUME IInv, \/ Destroy
               \/ \E l \in YamlLibs : AddYamlPath(l)
               \/ \E l \in PrimLibs : AddPrimitiveLib(l)
  PROVE  IInv'
<1>1. known \cup paths \cup prims \subseteq Libraries
  BY DEF IInv, Keys
<1>2. CASE Destroy
  BY <1>1, <1>2, SettingsInv DEF Destroy
<1>3. ASSUME NEW l \in YamlLibs, AddYamlPath(l) PROVE IInv'
  BY <1>1, <1>3, SettingsInv, OaAssumption DEF AddYamlPath
<1>4. ASSUME NEW l \in PrimLibs, AddPrimitiveLib(l) PROVE IInv'
  BY <1>1, <1>4, SettingsInv, OaAssumption DEF AddPrimitiveLib
<1>. QED BY <1>2, <1>3, <1>4

LEMMA CreateLibInv ==
  ASSUME IInv, NEW l \in NewLibs, NEW tech \in Libraries, CreateLib(l, tech)
  PROVE  IInv'
<1>1. Keys'
  BY OaAssumption DEF IInv, Keys, CreateLib, stored
<1>2. ~ReadOp /\ ~AtEntry /\ call = Idle
  BY IdleCall DEF CreateLib
<1>3. /\ (CallShape /\ AtList /\ ~AtEntry)' /\ call'.op \in {"idle", "lib"}
  BY OaAssumption DEF CreateLib, Return, Idle, Writing, AtEntry, ReadOp, CallShape, AtList
<1>4. OpenOK'
  BY <1>2, <1>3 DEF IInv, OpenOK, CreateLib
<1>. QED BY <1>1, <1>2, <1>3, <1>4, QuietInv, NotReading DEF CreateLib

LEMMA LibStepsInv ==
  ASSUME IInv, AttachTech \/ AppendDefine
  PROVE  IInv'
<1>1. /\ call.op = "lib" /\ call.lib \in Libraries /\ ~ReadOp /\ ~AtEntry
      /\ call = [op |-> "lib", at |-> call.at, lib |-> call.lib, tech |-> call.tech]
  BY DEF IInv, CallShape, AttachTech, AppendDefine, At, ReadOp, AtEntry, Writing
<1>2. CASE AttachTech /\ call.tech \in TechLibs
  <2>1. Keys'
    BY <1>1, <1>2 DEF IInv, Keys, AttachTech, settings
  <2>2. call' = [op |-> "lib", at |-> "define", lib |-> call.lib, tech |-> call.tech]
    BY <1>1, <1>2 DEF AttachTech
  <2>3. (CallShape /\ AtList /\ ~AtEntry)' /\ call'.op = "lib"
    BY <1>1, <2>2 DEF Writing, AtEntry, ReadOp, CallShape, AtList
  <2>4. OpenOK'
    BY <1>1, <1>2, <2>3 DEF IInv, OpenOK, AttachTech
  <2>. QED BY <1>1, <1>2, <2>1, <2>3, <2>4, QuietInv, NotReading DEF AttachTech
<1>3. CASE AttachTech /\ call.tech \notin TechLibs
  BY <1>3, FailInv DEF AttachTech, IInv, Keys
<1>4. CASE AppendDefine
  <2>1. Keys'
    BY <1>1, <1>4 DEF IInv, Keys, AppendDefine, settings
  <2>2. clean' => DOMAIN open' = {}
    BY <1>1, <1>4 DEF IInv, OpenOK, AppendDefine
  <2>. QED BY <1>1, <1>4, <2>1, <2>2, EndsInv, NotReading DEF AppendDefine, Return
<1>. QED BY <1>2, <1>3, <1>4

-----------------------------------------------------------------------------
(***************************************************************************)
(* implement_sch_list and implement_lay_list.                              *)
(***************************************************************************)

\* The entries of a list are a sequence, and its library exists.
LEMMA ListFacts ==
  ASSUME NEW op, NEW l \in DOMAIN (IF op = "lay" THEN LayLists ELSE SchLists)
  PROVE  /\ ListOf(op, l).lib \in Libraries
         /\ Len(ListOf(op, l).entries) \in Nat
         /\ DOMAIN ListOf(op, l).entries = 1 .. Len(ListOf(op, l).entries)
<1>1. ListOf(op, l) \in Range(SchLists) \cup Range(LayLists)
  BY DEF ListOf, Range
<1>. DEFINE es == ListOf(op, l).entries
<1>2. ListOf(op, l).lib \in Libraries /\ es \in Seq(ToSet(es))
  BY <1>1, OaAssumption
<1>. HIDE DEF es
<1>3. Len(es) \in Nat /\ DOMAIN es = 1 .. Len(es)
  BY <1>2
<1>. QED BY <1>2, <1>3 DEF es

LEMMA ImplementInv ==
  ASSUME IInv, \/ \E l \in DOMAIN SchLists : ImplementSchList(l)
               \/ \E l \in DOMAIN LayLists : ImplementLayList(l)
  PROVE  IInv'
<1>1. call = Idle /\ UNCHANGED <<stored, settings, open, access, clean>>
  BY DEF ImplementSchList, ImplementLayList, Begin
<1>2. Keys'
  BY <1>1 DEF IInv, Keys, stored, settings
<1>3. PICK op, at, l, isSch :
        /\ call' = [op |-> op, at |-> at, list |-> l, k |-> 1, isSch |-> isSch, renames |-> << >>]
        /\ l \in DOMAIN (IF op = "lay" THEN LayLists ELSE SchLists)
        /\ op \in {"sch", "lay"} /\ at \in {"tech", "open"}
  BY DEF ImplementSchList, ImplementLayList
<1>4. (CallShape /\ AtList /\ ~AtEntry)'
  BY <1>3 DEF CallShape, Writing, AtEntry, ReadOp, AtList
<1>5. ~ReadOp /\ ~AtEntry
  BY <1>1, IdleCall
<1>6. OpenOK'
  BY <1>1, <1>4, <1>5 DEF IInv, OpenOK
<1>. QED BY <1>1, <1>2, <1>3, <1>4, <1>5, <1>6, QuietInv, NotReading

\* What is known of a call that writes.
LEMMA WritingFacts ==
  ASSUME IInv, Writing
  PROVE  /\ call = [op |-> call.op, at |-> call.at, list |-> call.list, k |-> call.k,
                    isSch |-> call.isSch, renames |-> call.renames]
         /\ call.op \in {"sch", "lay"} /\ ~ReadOp
         /\ call.list \in DOMAIN (IF call.op = "lay" THEN LayLists ELSE SchLists)
         /\ call.k \in Nat \ {0}
         /\ EntryKey[1] \in Libraries
<1>1. call.list \in DOMAIN (IF call.op = "lay" THEN LayLists ELSE SchLists)
  BY DEF IInv, AtList
<1>. QED BY <1>1, ListFacts DEF IInv, CallShape, AtList, EntryKey, List, Writing, ReadOp

\* The next step of the entry that is written.
LEMMA NextAt ==
  ASSUME IInv, Writing, NEW at, call' = [call EXCEPT !.at = at], at \notin {"tech", "open"},
         call.k <= Len(List.entries), access' = access, clean' = clean, Keys',
         \/ AtEntry /\ DOMAIN open' = DOMAIN open
         \/ ~AtEntry /\ DOMAIN open' = {EntryKey} \cup DOMAIN open
  PROVE  IInv'
<1>1. call' = [op |-> call.op, at |-> at, list |-> call.list, k |-> call.k,
               isSch |-> call.isSch, renames |-> call.renames]
  BY WritingFacts
<1>2. EntryKey' = EntryKey /\ List' = List
  BY <1>1 DEF EntryKey, Entry, EntryView, List, ListOf
<1>3. Writing' /\ AtEntry' /\ call'.op \in {"sch", "lay"} /\ ~ReadOp'
  BY <1>1, WritingFacts DEF Writing, AtEntry, ReadOp
<1>4. CallShape'
  BY <1>1, <1>3 DEF CallShape, Writing, ReadOp
<1>5. EntryKey \in DOMAIN open' /\ (AtEntry => EntryKey \in DOMAIN open)
  BY DEF IInv, AtList
<1>6. AtList'
  BY <1>1, <1>2, <1>3, <1>5, WritingFacts DEF AtList
<1>7. OpenOK'
  BY <1>2, <1>3, <1>5 DEF IInv, OpenOK
<1>. QED BY <1>3, <1>4, <1>6, <1>7, QuietInv, NotReading, WritingFacts

\* The technology, and an entry that is opened.
LEMMA OpenInv ==
  ASSUME IInv, ReadTech \/ OpenDesign
  PROVE  IInv'
<1>1. Writing
  BY DEF ReadTech, OpenDesign, At, Writing
<1>. USE <1>1, WritingFacts
<1>2. CASE ReadTech /\ List.lib \in attached \cap known
  <2>1. /\ call' = [call EXCEPT !.at = "open"] /\ access' = access /\ clean' = clean
        /\ open' = open /\ call.at = "tech"
    BY <1>2 DEF ReadTech, WriteStep, At
  <2>2. call' = [op |-> call.op, at |-> "open", list |-> call.list, k |-> call.k,
                 isSch |-> call.isSch, renames |-> call.renames]
    BY <2>1
  <2>3. Keys'
    BY <1>2 DEF IInv, Keys, ReadTech, WriteStep, settings
  <2>4. (CallShape /\ AtList /\ ~AtEntry)' /\ call'.op = call.op /\ ~AtEntry
    BY <2>1, <2>2 DEF CallShape, AtList, AtEntry, Writing, ReadOp
  <2>5. OpenOK'
    BY <2>1, <2>4 DEF IInv, OpenOK
  <2>. QED BY <2>1, <2>3, <2>4, <2>5, QuietInv, NotReading
<1>3. CASE OpenDesign /\ List.lib \in known
  <2>1. DOMAIN open' = {EntryKey} \cup DOMAIN open
    BY <1>3 DEF OpenDesign, InsertOrAssign
  <2>2. Keys'
    BY <1>3, <2>1 DEF IInv, Keys, OpenDesign, WriteStep, settings
  <2>. QED BY <1>3, <2>1, <2>2, NextAt DEF OpenDesign, WriteStep, AtEntry
<1>4. CASE Fail(call) /\ UNCHANGED open
  BY <1>4, FailInv DEF IInv, Keys
<1>. QED BY <1>2, <1>3, <1>4 DEF ReadTech, OpenDesign

\* An entry that is built, saved and stamped.
LEMMA EntryInv ==
  ASSUME IInv, BuildSch \/ BuildLay \/ Save \/ WriteCellData \/ WriteCellViewData \/ Stamp
  PROVE  IInv'
<1>1. CASE Fail(call) /\ UNCHANGED open
  BY <1>1, FailInv DEF IInv, Keys
<1>2. CASE ~(Fail(call) /\ UNCHANGED open)
  <2>1. Writing /\ AtEntry
    BY DEF BuildSch, BuildLay, Save, WriteCellData, WriteCellViewData, Stamp, At, AtEntry, Writing
  <2>2. PICK at \in {"save", "cellData", "viewData", "stamp", "close"} : WriteStep(at)
    BY <1>2 DEF BuildSch, BuildLay, Save, WriteCellData, WriteCellViewData, Stamp
  <2>3. /\ call' = [call EXCEPT !.at = at] /\ access' = access /\ clean' = clean
        /\ UNCHANGED <<settings, defined, attached, yaml>>
    BY <2>2 DEF WriteStep
  <2>4. DOMAIN open' = DOMAIN open
    BY <1>2 DEF BuildSch, BuildLay, Save, WriteCellData, WriteCellViewData, Stamp
  <2>5. /\ DOMAIN disk' \subseteq {EntryKey} \cup DOMAIN disk
        /\ DOMAIN views' \subseteq {EntryKey} \cup DOMAIN views
        /\ DOMAIN written' \subseteq DOMAIN disk'
    <3>1. DOMAIN written \subseteq DOMAIN disk
      BY DEF IInv, Keys
    <3>2. CASE Save
      BY <3>1, <3>2 DEF Save, InsertOrAssign
    <3>3. CASE WriteCellViewData
      BY <3>1, <3>3 DEF WriteCellViewData, InsertOrAssign
    <3>4. CASE UNCHANGED <<disk, views, written>>
      BY <3>1, <3>4
    <3>. QED BY <1>2, <3>2, <3>3, <3>4 DEF BuildSch, BuildLay, WriteCellData, Stamp
  <2>6. Keys'
    BY <2>1, <2>3, <2>4, <2>5, WritingFacts DEF IInv, Keys, settings
  <2>7. call.k <= Len(List.entries)
    BY <2>1 DEF IInv, AtList
  <2>. QED BY <2>1, <2>3, <2>4, <2>6, <2>7, NextAt
<1>. QED BY <1>1, <1>2

\* Undefined behaviour ends the process or is an exception.
LEMMA UndefinedInv ==
  ASSUME IInv, BuildUndefined \/ StampUndefined
  PROVE  IInv'
<1>1. CASE Fail(call) /\ UNCHANGED open
  BY <1>1, FailInv DEF IInv, Keys
<1>. QED BY <1>1, ProcessEndsInv DEF BuildUndefined, StampUndefined

\* The design of the entry is closed, and the loop moves on.
LEMMA CloseInv ==
  ASSUME IInv, Close
  PROVE  IInv'
<1>1. Writing /\ AtEntry
  BY DEF Close, AtEntry
<1>. USE WritingFacts, <1>1
<1>2. PICK k, isSch, renames :
        /\ call' = [op |-> call.op, at |-> "open", list |-> call.list, k |-> k,
                    isSch |-> isSch, renames |-> renames]
        /\ k \in {call.k, call.k + 1}
  <2>1. CASE SymbolNext
    BY <2>1 DEF Close, Advanced
  <2>2. CASE ~SymbolNext
    BY <2>2 DEF Close, Advanced
  <2>. QED BY <2>1, <2>2
<1>3. (CallShape /\ AtList /\ ~AtEntry)' /\ call'.op = call.op
  BY <1>2 DEF CallShape, AtList, AtEntry, Writing, ReadOp
<1>4. DOMAIN disk' = DOMAIN disk /\ DOMAIN open' = DOMAIN open \ {EntryKey}
  BY DEF Close, Erase
<1>5. Keys'
  BY <1>4 DEF IInv, Keys, Close, settings
<1>6. OpenOK'
  BY <1>3, <1>4 DEF IInv, OpenOK, Close
<1>. QED BY <1>3, <1>5, <1>6, QuietInv, NotReading DEF Close

\* The loop is at its end.
LEMMA ListDoneInv ==
  ASSUME IInv, ListDone
  PROVE  IInv'
<1>1. Writing /\ ~AtEntry
  BY DEF ListDone, AtEntry
<1>2. Keys'
  BY DEF IInv, Keys, ListDone, stored, settings
<1>3. clean' => clean /\ DOMAIN open' = {}
  BY <1>1 DEF IInv, OpenOK, ListDone
<1>. QED BY <1>1, <1>2, <1>3, EndsInv, NotReading, WritingFacts DEF ListDone, Return

-----------------------------------------------------------------------------
(***************************************************************************)
(* The stack of cells that are being read.                                 *)
(***************************************************************************)

\* A step of the cell at the top.
LEMMA ReplaceTop ==
  ASSUME NEW stack, NEW seen, NEW seen2, StackOK(stack, seen), stack # << >>, seen \subseteq seen2,
         NEW f, IsFrame(f), f.cell = stack[1].cell, f.at = "masters" => f.cell \in seen2
  PROVE  /\ StackOK([stack EXCEPT ![1] = f], seen2)
         /\ [stack EXCEPT ![1] = f][1] = f
         /\ [stack EXCEPT ![1] = f] # << >>
<1>. DEFINE s == [stack EXCEPT ![1] = f]  S == Range(stack) \cup {f}
<1>1. stack \in Seq(Range(stack)) /\ Len(stack) \in Nat \ {0} /\ DOMAIN stack = 1 .. Len(stack)
  BY DEF StackOK
<1>2. stack \in Seq(S)
  <2>1. \A i \in 1 .. Len(stack) : stack[i] \in S
    BY <1>1 DEF Range
  <2>. QED BY <1>1, <2>1
<1>3. /\ s \in Seq(S) /\ DOMAIN s = DOMAIN stack /\ s[1] = f
      /\ \A i \in DOMAIN stack : i # 1 => s[i] = stack[i]
  BY <1>1, <1>2
<1>4. s \in Seq(Range(s))
  BY <1>3, SeqOfRange
<1>. HIDE DEF s
<1>5. \A i \in DOMAIN s : s[i].cell = stack[i].cell
  BY <1>3
<1>6. \A i \in DOMAIN s : i > 1 => s[i] = stack[i]
  BY <1>1, <1>3
<1>7. \A i \in DOMAIN s : IsFrame(s[i]) /\ (s[i].at = "masters" => s[i].cell \in seen2)
  BY <1>1, <1>3 DEF StackOK
<1>8. StackOK(s, seen2)
  BY <1>1, <1>3, <1>4, <1>5, <1>6, <1>7 DEF StackOK
<1>. QED BY <1>1, <1>3, <1>8 DEF s

\* A cell that has not been read is read before the one at the top goes on.
LEMMA PushFrame ==
  ASSUME NEW stack, NEW seen, StackOK(stack, seen),
         \A i \in DOMAIN stack : stack[i].at = "masters",
         NEW cell, stack # << >> => cell \notin seen
  PROVE  StackOK(Push(stack, Frame(cell)), seen) /\ Push(stack, Frame(cell)) # << >>
         /\ Push(stack, Frame(cell))[1] = Frame(cell)
<1>. DEFINE f == Frame(cell)  s == <<f>> \o stack  S == Range(stack) \cup {f}
<1>1. stack \in Seq(Range(stack)) /\ Len(stack) \in Nat /\ DOMAIN stack = 1 .. Len(stack)
  BY DEF StackOK
<1>2. stack \in Seq(S)
  <2>1. \A i \in 1 .. Len(stack) : stack[i] \in S
    BY <1>1 DEF Range
  <2>. QED BY <1>1, <2>1
<1>3. IsFrame(f) /\ f.cell = cell /\ f.at = "schematic"
  BY DEF IsFrame, Frame
<1>. HIDE DEF f
<1>4. /\ s \in Seq(S) /\ Len(s) = Len(stack) + 1 /\ DOMAIN s = 1 .. Len(stack) + 1 /\ s[1] = f
      /\ \A i \in 2 .. Len(stack) + 1 : s[i] = stack[i - 1]
  BY <1>1, <1>2
<1>5. s \in Seq(Range(s))
  BY <1>4, SeqOfRange
<1>. HIDE DEF s
<1>6. \A i \in DOMAIN s : i = 1 \/ (i > 1 /\ i - 1 \in DOMAIN stack /\ s[i] = stack[i - 1])
  BY <1>1, <1>4
<1>7. \A i \in DOMAIN s : i > 1 => s[i].at = "masters" /\ s[i].cell # cell /\ s[i].cell \in seen
  BY <1>1, <1>6 DEF StackOK
<1>8. \A i, j \in DOMAIN s : s[i].cell = s[j].cell => i = j
  <2>1. SUFFICES ASSUME NEW i \in DOMAIN s, NEW j \in DOMAIN s, s[i].cell = s[j].cell
                 PROVE  i = j
    OBVIOUS
  <2>2. CASE i = 1 \/ j = 1
    BY <1>3, <1>4, <1>6, <1>7, <2>1, <2>2
  <2>3. CASE i > 1 /\ j > 1
    <3>1. i - 1 = j - 1
      BY <1>6, <2>1, <2>3 DEF StackOK
    <3>. QED BY <1>4, <2>1, <3>1
  <2>. QED BY <1>6, <2>2, <2>3
<1>9. \A i \in DOMAIN s : IsFrame(s[i]) /\ (s[i].at = "masters" => s[i].cell \in seen)
  BY <1>3, <1>4, <1>6 DEF StackOK
<1>10. StackOK(s, seen)
  BY <1>5, <1>7, <1>8, <1>9 DEF StackOK
<1>. QED BY <1>4, <1>10 DEF s, f, Push

\* The cell at the top is done.
LEMMA PopFrame ==
  ASSUME NEW stack, NEW seen, StackOK(stack, seen), stack # << >>
  PROVE  StackOK(Tail(stack), seen) /\ \A i \in DOMAIN Tail(stack) : Tail(stack)[i].at = "masters"
<1>. DEFINE s == Tail(stack)
<1>1. stack \in Seq(Range(stack)) /\ Len(stack) \in Nat \ {0} /\ DOMAIN stack = 1 .. Len(stack)
  BY DEF StackOK
<1>2. /\ s \in Seq(Range(stack)) /\ DOMAIN s = 1 .. Len(stack) - 1
      /\ \A i \in DOMAIN s : s[i] = stack[i + 1]
  BY <1>1
<1>3. s \in Seq(Range(s))
  BY <1>2, SeqOfRange
<1>. HIDE DEF s
<1>4. \A i \in DOMAIN s : i + 1 \in DOMAIN stack /\ i + 1 > 1 /\ s[i] = stack[i + 1] /\ i \in Nat
  BY <1>1, <1>2
<1>5. \A i \in DOMAIN s : s[i].at = "masters" /\ s[i].cell \in seen /\ IsFrame(s[i])
  BY <1>4 DEF StackOK
<1>6. \A i, j \in DOMAIN s : s[i].cell = s[j].cell => i = j
  <2>1. SUFFICES ASSUME NEW i \in DOMAIN s, NEW j \in DOMAIN s, s[i].cell = s[j].cell
                 PROVE  i = j
    OBVIOUS
  <2>2. i + 1 = j + 1
    BY <1>4, <2>1 DEF StackOK
  <2>. QED BY <1>4, <2>1, <2>2
<1>7. StackOK(s, seen)
  BY <1>3, <1>5, <1>6 DEF StackOK
<1>. QED BY <1>5, <1>7 DEF s

-----------------------------------------------------------------------------
(***************************************************************************)
(* read_sch_recursive and read_library.                                    *)
(***************************************************************************)

\* A step of a reading call that opens nothing and keeps the accounts of accesses.
LEMMA ReadInv ==
  ASSUME IInv, Keys', ~Writing, open' = open, clean' = clean,
         NEW op \in {"recursive", "library"}, NEW root, op = "library" => root \in Libraries,
         NEW stack, NEW out, NEW seen, NEW left, StackOK(stack, seen),
         call' = [op |-> op, root |-> root, stack |-> stack, out |-> out, seen |-> seen, left |-> left],
         access' \in [Libraries -> Nat],
         \A l \in Libraries : access'[l] = access[l] + Held(l)' - Held(l)
  PROVE  IInv'
<1>1. (CallShape /\ AtList /\ ~AtEntry /\ ReadOp)' /\ call'.stack = stack /\ call'.seen = seen
  BY DEF CallShape, AtList, AtEntry, Writing, ReadOp
<1>2. AccessOK'
  <2>1. \A l \in Libraries :
          /\ Held(l) \in Int /\ Held(l)' \in Int /\ access[l] \in Int
          /\ access[l] >= Held(l) /\ (clean => access[l] = Held(l))
    BY DEF Held, IInv, AccessOK
  <2>2. \A l \in Libraries : access'[l] >= Held(l)' /\ (clean => access'[l] = Held(l)')
    BY <2>1
  <2>. QED BY <2>2 DEF AccessOK
<1>3. OpenOK'
  BY <1>1 DEF IInv, OpenOK, AtEntry
<1>4. StackOK(call.stack, call.seen)'
  BY <1>1 DEF StackOK, IsFrame
<1>. QED BY <1>1, <1>2, <1>3, <1>4 DEF IInv

\* What is known of a call that reads.
LEMMA ReadingFacts ==
  ASSUME IInv, ReadOp
  PROVE  /\ call = [op |-> call.op, root |-> call.root, stack |-> call.stack, out |-> call.out,
                    seen |-> call.seen, left |-> call.left]
         /\ call.op \in {"recursive", "library"} /\ ~Writing
         /\ call.op = "library" => call.root \in Libraries
         /\ StackOK(call.stack, call.seen)
         /\ access \in [Libraries -> Nat]
         /\ Reading => IsFrame(Top)
<1>1. StackOK(call.stack, call.seen)
  BY DEF IInv
<1>2. Reading => 1 \in DOMAIN call.stack
  BY <1>1 DEF Reading, StackOK
<1>. QED BY <1>1, <1>2 DEF IInv, CallShape, ReadOp, Writing, AccessOK, StackOK, Top

\* The accesses held at each step of the cell at the top.
LEMMA HeldAt ==
  ASSUME ReadOp, NEW l
  PROVE  Held(l) = (IF call.op = "library" /\ call.root = l THEN 1 ELSE 0)
                     + (IF call.stack # << >> /\ call.stack[1].at = "symbols"
                             /\ call.stack[1].cell[1] = l THEN 1 ELSE 0)
BY DEF Held, ReadOp, Reading, Top

\* A frame with some of its fields changed.
LEMMA FrameWith ==
  ASSUME NEW top, IsFrame(top), NEW at, NEW syms, NEW todo
  PROVE  /\ [top EXCEPT !.at = at, !.syms = syms] =
              [cell |-> top.cell, at |-> at, syms |-> syms, todo |-> top.todo]
         /\ [top EXCEPT !.syms = syms] =
              [cell |-> top.cell, at |-> top.at, syms |-> syms, todo |-> top.todo]
         /\ [top EXCEPT !.at = at, !.todo = todo] =
              [cell |-> top.cell, at |-> at, syms |-> top.syms, todo |-> todo]
         /\ [top EXCEPT !.todo = todo] =
              [cell |-> top.cell, at |-> top.at, syms |-> top.syms, todo |-> todo]
<1>1. top = [cell |-> top.cell, at |-> top.at, syms |-> top.syms, todo |-> top.todo]
  BY DEF IsFrame
<1>. DEFINE next == [top EXCEPT !.at = at]
<1>2. next = [cell |-> top.cell, at |-> at, syms |-> top.syms, todo |-> top.todo]
  BY <1>1
<1>3. /\ [top EXCEPT !.at = at, !.syms = syms] = [next EXCEPT !.syms = syms]
      /\ [top EXCEPT !.at = at, !.todo = todo] = [next EXCEPT !.todo = todo]
  OBVIOUS
<1>. HIDE DEF next
<1>4. [next EXCEPT !.syms = syms] = [cell |-> top.cell, at |-> at, syms |-> syms, todo |-> top.todo]
  BY <1>2
<1>5. [next EXCEPT !.todo = todo] = [cell |-> top.cell, at |-> at, syms |-> top.syms, todo |-> todo]
  BY <1>2
<1>6. /\ [top EXCEPT !.syms = syms] =
           [cell |-> top.cell, at |-> top.at, syms |-> syms, todo |-> top.todo]
      /\ [top EXCEPT !.todo = todo] =
           [cell |-> top.cell, at |-> top.at, syms |-> top.syms, todo |-> todo]
  BY <1>1
<1>. QED BY <1>3, <1>4, <1>5, <1>6

\* A call that reads with some of its fields changed.
LEMMA CallWith ==
  ASSUME NEW c, NEW f, NEW todo, NEW out, NEW seen, NEW stack, NEW left,
         c = [op |-> c.op, root |-> c.root, stack |-> c.stack, out |-> c.out, seen |-> c.seen,
              left |-> c.left]
  PROVE  /\ [c EXCEPT !.out = out, !.seen = seen, !.stack[1] = f] =
              [op |-> c.op, root |-> c.root, stack |-> [c.stack EXCEPT ![1] = f], out |-> out,
               seen |-> seen, left |-> c.left]
         /\ [c EXCEPT !.stack[1].todo = todo] =
              [op |-> c.op, root |-> c.root,
               stack |-> [c.stack EXCEPT ![1] = [c.stack[1] EXCEPT !.todo = todo]],
               out |-> c.out, seen |-> c.seen, left |-> c.left]
         /\ [c EXCEPT !.stack = stack] =
              [op |-> c.op, root |-> c.root, stack |-> stack, out |-> c.out, seen |-> c.seen,
               left |-> c.left]
         /\ [c EXCEPT !.stack = stack, !.left = left] =
              [op |-> c.op, root |-> c.root, stack |-> stack, out |-> c.out, seen |-> c.seen,
               left |-> left]
<1>. DEFINE c1 == [c EXCEPT !.out = out]  c2 == [c1 EXCEPT !.seen = seen]
            c3 == [c EXCEPT !.stack = stack]
<1>1. c1 = [op |-> c.op, root |-> c.root, stack |-> c.stack, out |-> out, seen |-> c.seen,
            left |-> c.left]
  OBVIOUS
<1>2. c3 = [op |-> c.op, root |-> c.root, stack |-> stack, out |-> c.out, seen |-> c.seen,
            left |-> c.left]
  OBVIOUS
<1>3. /\ [c EXCEPT !.out = out, !.seen = seen, !.stack[1] = f] =
           [c2 EXCEPT !.stack = [c2.stack EXCEPT ![1] = f]]
      /\ [c EXCEPT !.stack = stack, !.left = left] = [c3 EXCEPT !.left = left]
      /\ [c EXCEPT !.stack[1].todo = todo] =
           [c EXCEPT !.stack = [c.stack EXCEPT ![1] = [c.stack[1] EXCEPT !.todo = todo]]]
  OBVIOUS
<1>4. [c EXCEPT !.stack = [c.stack EXCEPT ![1] = [c.stack[1] EXCEPT !.todo = todo]]] =
        [op |-> c.op, root |-> c.root,
         stack |-> [c.stack EXCEPT ![1] = [c.stack[1] EXCEPT !.todo = todo]],
         out |-> c.out, seen |-> c.seen, left |-> c.left]
  OBVIOUS
<1>. HIDE DEF c1
<1>5. c2 = [op |-> c.op, root |-> c.root, stack |-> c.stack, out |-> out, seen |-> seen,
            left |-> c.left]
  BY <1>1
<1>. HIDE DEF c2, c3
<1>6. [c3 EXCEPT !.left = left] =
        [op |-> c.op, root |-> c.root, stack |-> stack, out |-> c.out, seen |-> c.seen,
         left |-> left]
  BY <1>2
<1>7. [c2 EXCEPT !.stack = [c2.stack EXCEPT ![1] = f]] =
        [op |-> c.op, root |-> c.root, stack |-> [c.stack EXCEPT ![1] = f], out |-> out,
         seen |-> seen, left |-> c.left]
  BY <1>5
<1>. QED BY <1>2, <1>3, <1>4, <1>6, <1>7 DEF c3

LEMMA StartReadInv ==
  ASSUME IInv, NEW cell, ReadSchRecursive(cell)
  PROVE  IInv'
<1>1. /\ call = Idle /\ UNCHANGED <<stored, settings, open, access, clean>>
      /\ call' = [op |-> "recursive", root |-> cell, stack |-> <<Frame(cell)>>, out |-> << >>,
                  seen |-> {}, left |-> {}]
  BY DEF ReadSchRecursive, Begin
<1>2. Keys'
  BY <1>1 DEF IInv, Keys, stored, settings
<1>3. StackOK(<<Frame(cell)>>, {})
  BY DEF StackOK, IsFrame, Frame, Range
<1>4. ~Writing /\ \A l : Held(l) = 0
  BY <1>1, IdleCall
<1>5. \A l : Held(l)' = 0
  BY <1>1 DEF Held, Reading, Top, Frame
<1>6. /\ access' \in [Libraries -> Nat]
      /\ \A l \in Libraries : access'[l] = access[l] + Held(l)' - Held(l)
  BY <1>1, <1>4, <1>5 DEF IInv, AccessOK
<1>. HIDE DEF Held
<1>. QED BY <1>1, <1>2, <1>3, <1>4, <1>6, ReadInv

LEMMA StartLibraryInv ==
  ASSUME IInv, NEW lib \in Libraries, ReadLibrary(lib)
  PROVE  IInv'
<1>1. call = Idle /\ UNCHANGED <<stored, settings, open>>
  BY DEF ReadLibrary
<1>2. Keys'
  BY <1>1 DEF IInv, Keys, stored, settings
<1>3. ~Writing /\ \A l : Held(l) = 0
  BY <1>1, IdleCall
<1>4. CASE lib \notin known
  <2>1. call' = Idle /\ access' = access /\ clean' = FALSE
    BY <1>4 DEF ReadLibrary, Return
  <2>. QED BY <1>2, <2>1, EndsInv
<1>5. CASE lib \in known
  <2>1. PICK left :
          call' = [op |-> "library", root |-> lib, stack |-> << >>, out |-> << >>, seen |-> {},
                   left |-> left]
    BY <1>5 DEF ReadLibrary
  <2>2. clean' = clean /\ access' = [access EXCEPT ![lib] = @ + 1]
    BY <1>5 DEF ReadLibrary
  <2>3. StackOK(<< >>, {})
    BY DEF StackOK, Range
  <2>4. \A l : Held(l)' = IF lib = l THEN 1 ELSE 0
    BY <2>1 DEF Held, Reading, Top
  <2>5. /\ access' \in [Libraries -> Nat]
        /\ \A l \in Libraries : access'[l] = access[l] + Held(l)' - Held(l)
    BY <1>3, <2>2, <2>4 DEF IInv, AccessOK
  <2>. HIDE DEF Held
  <2>. QED BY <1>1, <1>2, <1>3, <2>1, <2>2, <2>3, <2>5, ReadInv
<1>. QED BY <1>4, <1>5

\* A design that throws is in memory afterwards, under the key it had.
LEMMA ReadFailsInv ==
  ASSUME IInv, NEW k, ReadFails(k)
  PROVE  IInv'
<1>1. DOMAIN open' \subseteq DOMAIN open \cup DOMAIN disk
  BY DEF ReadFails, Masters, InsertOrAssign
<1>2. \A x \in DOMAIN open' : x[1] \in Libraries
  BY <1>1 DEF IInv, Keys
<1>. QED BY <1>2, FailInv DEF ReadFails

\* The design at the top is read into its YAML file.
LEMMA ReadDesignInv ==
  ASSUME IInv, Reading, NEW k, k[1] \in Libraries, ReadInto(k),
         NEW f, IsFrame(f), f.cell = Top.cell, f.at = "symbols", ReadStep(f), open' = open,
         \/ Top.at = "schematic" /\ access' = [access EXCEPT ![f.cell[1]] = @ + 1]
         \/ Top.at = "symbols" /\ access' = access
  PROVE  IInv'
<1>1. ReadOp
  BY DEF Reading, ReadOp
<1>1a. /\ call.op \in {"recursive", "library"} /\ ~Writing
       /\ call.op = "library" => call.root \in Libraries
       /\ access \in [Libraries -> Nat] /\ IsFrame(Top)
  BY <1>1, ReadingFacts
<1>. DEFINE stack == [call.stack EXCEPT ![1] = f]
<1>2. Keys'
  <2>1. DOMAIN yaml' = {k} \cup DOMAIN yaml
    BY DEF ReadInto, InsertOrAssign
  <2>. QED BY <2>1 DEF IInv, Keys, ReadStep, settings
<1>3. StackOK(stack, call.seen) /\ stack[1] = f /\ stack # << >>
  <2>1. /\ call.stack # << >> /\ StackOK(call.stack, call.seen)
        /\ f.cell = call.stack[1].cell /\ f.at # "masters"
    BY <1>1, ReadingFacts DEF Top, Reading
  <2>2. PICK st, sn : st = call.stack /\ sn = call.seen
    OBVIOUS
  <2>3. /\ StackOK(st, sn) /\ st # << >> /\ sn \subseteq sn /\ f.cell = st[1].cell
        /\ IsFrame(f) /\ f.at # "masters"
    BY <2>1, <2>2
  <2>4. /\ StackOK([st EXCEPT ![1] = f], sn) /\ [st EXCEPT ![1] = f][1] = f
        /\ [st EXCEPT ![1] = f] # << >>
    BY <2>3, ReplaceTop
  <2>. QED BY <2>2, <2>4
<1>4. call' = [op |-> call.op, root |-> call.root, stack |-> stack, out |-> call.out,
               seen |-> call.seen, left |-> call.left]
  <2>1. call' = [call EXCEPT !.stack[1] = f]
    BY DEF ReadStep
  <2>2. call = [op |-> call.op, root |-> call.root, stack |-> call.stack, out |-> call.out,
                seen |-> call.seen, left |-> call.left]
    BY <1>1, ReadingFacts
  <2>3. [call EXCEPT !.stack[1] = f] = [call EXCEPT !.stack = stack]
    OBVIOUS
  <2>. QED BY <2>1, <2>2, <2>3, CallWith
<1>. HIDE DEF stack
<1>5. \A l : Held(l)' = (IF call.op = "library" /\ call.root = l THEN 1 ELSE 0)
                          + (IF f.cell[1] = l THEN 1 ELSE 0)
  BY <1>1a, <1>3, <1>4 DEF Held, Reading, Top
<1>6. \A l : Held(l) = (IF call.op = "library" /\ call.root = l THEN 1 ELSE 0)
                         + (IF Top.at = "symbols" /\ f.cell[1] = l THEN 1 ELSE 0)
  BY <1>1a, <1>1 DEF Held, Reading
<1>7. f.cell[1] \in Libraries
  BY DEF IsFrame
<1>8. /\ access' \in [Libraries -> Nat]
      /\ \A l \in Libraries : access'[l] = access[l] + Held(l)' - Held(l)
  BY <1>1a, <1>5, <1>6, <1>7
<1>9. clean' = clean
  BY DEF ReadStep
<1>. HIDE DEF Held
<1>. QED BY <1>1a, <1>2, <1>3, <1>4, <1>8, <1>9, ReadInv

LEMMA ReadSchematicInv == IInv /\ ReadSchematic => IInv'
<1>. SUFFICES ASSUME IInv, ReadSchematic PROVE IInv'
  OBVIOUS
<1>. DEFINE k == TopKey(SchView)
            syms == {x \in DOMAIN disk : <<x[1], x[2]>> = Top.cell /\ Current(x).type = "symbol"}
            f == [Top EXCEPT !.at = "symbols", !.syms = syms]
<1>1. Reading /\ ReadOp /\ Top.at = "schematic" /\ IsFrame(Top)
  BY ReadingFacts DEF ReadSchematic, Reading, ReadOp
<1>2. CASE ReadFails(k)
  BY <1>2, ReadFailsInv
<1>3. CASE Top.cell[1] \in paths \cap known /\ ReadInto(k) /\ ReadStep(f)
             /\ access' = [access EXCEPT ![k[1]] = @ + 1] /\ UNCHANGED open
  <2>1. k[1] = Top.cell[1] /\ k[1] \in Libraries
    BY <1>3 DEF TopKey, IInv, Keys
  <2>2. \A x \in syms : x[1] \in Libraries
    BY DEF IInv, Keys
  <2>. HIDE DEF k, syms
  <2>3. f = [cell |-> Top.cell, at |-> "symbols", syms |-> syms, todo |-> Top.todo]
    BY <1>1, FrameWith
  <2>4. IsFrame(f) /\ f.cell = Top.cell /\ f.at = "symbols"
    BY <2>1, <2>2, <2>3 DEF IsFrame
  <2>. HIDE DEF f
  <2>. QED BY <1>1, <1>3, <2>1, <2>4, ReadDesignInv
<1>. QED BY <1>2, <1>3 DEF ReadSchematic

LEMMA ReadSymbolInv == IInv /\ ReadSymbol => IInv'
<1>. SUFFICES ASSUME IInv, ReadSymbol PROVE IInv'
  OBVIOUS
<1>1. Reading /\ ReadOp /\ Top.at = "symbols" /\ IsFrame(Top)
  BY ReadingFacts DEF ReadSymbol, Reading, ReadOp
<1>2. PICK k \in Top.syms :
        \/ ReadInto(k) /\ ReadStep([Top EXCEPT !.syms = @ \ {k}]) /\ UNCHANGED <<open, access>>
        \/ ReadFails(k)
  BY DEF ReadSymbol
<1>. DEFINE f == [Top EXCEPT !.syms = @ \ {k}]
<1>3. f = [cell |-> Top.cell, at |-> "symbols", syms |-> Top.syms \ {k}, todo |-> Top.todo]
  BY <1>1, FrameWith
<1>4. IsFrame(f) /\ f.cell = Top.cell /\ f.at = "symbols" /\ k[1] \in Libraries
  BY <1>1, <1>2, <1>3 DEF IsFrame
<1>5. CASE ReadFails(k)
  BY <1>5, ReadFailsInv
<1>6. CASE ReadInto(k) /\ ReadStep(f) /\ UNCHANGED <<open, access>>
  <2>. HIDE DEF f
  <2>. QED BY <1>1, <1>4, <1>6, ReadDesignInv
<1>. QED BY <1>2, <1>5, <1>6

\* The access of the cell whose symbols have been read is released.
LEMMA FinishCellInv == IInv /\ FinishCell => IInv'
<1>. SUFFICES ASSUME IInv, FinishCell PROVE IInv'
  OBVIOUS
<1>1. Reading /\ ReadOp /\ Top.at = "symbols" /\ IsFrame(Top) /\ Top = call.stack[1]
      /\ call.stack # << >>
  BY ReadingFacts DEF FinishCell, Reading, ReadOp, Top
<1>. DEFINE todo == {<<x.lib, x.cell>> : x \in Range(yaml[TopKey(SchView)].insts)}
            f == [Top EXCEPT !.at = "masters", !.todo = todo]
            out == Append(call.out, Top.cell)
            seen == call.seen \cup {Top.cell}
            stack == [call.stack EXCEPT ![1] = f]
<1>2. /\ call' = [call EXCEPT !.out = out, !.seen = seen, !.stack[1] = f]
      /\ access' = [access EXCEPT ![Top.cell[1]] = @ - 1]
      /\ UNCHANGED <<stored, settings, open, clean>>
  BY DEF FinishCell
<1>. HIDE DEF todo
<1>3. f = [cell |-> Top.cell, at |-> "masters", syms |-> Top.syms, todo |-> todo]
  <2>1. IsFrame(Top)
    BY <1>1
  <2>. QED BY <2>1, FrameWith
<1>4. IsFrame(f) /\ f.cell = Top.cell /\ f.at = "masters" /\ f.cell \in seen
  BY <1>3 DEF IsFrame
<1>. HIDE DEF f, out
<1>5. call' = [op |-> call.op, root |-> call.root, stack |-> stack, out |-> out, seen |-> seen,
               left |-> call.left]
  BY <1>1, <1>2, ReadingFacts, CallWith
<1>6. StackOK(stack, seen) /\ stack[1] = f /\ stack # << >>
  <2>1. PICK st, sn, sn2 : st = call.stack /\ sn = call.seen /\ sn2 = seen
    OBVIOUS
  <2>2. StackOK(st, sn) /\ st # << >> /\ sn \subseteq sn2 /\ f.cell = st[1].cell /\ f.cell \in sn2
    BY <1>1, <1>4, <2>1, ReadingFacts
  <2>3. /\ StackOK([st EXCEPT ![1] = f], sn2) /\ [st EXCEPT ![1] = f][1] = f
        /\ [st EXCEPT ![1] = f] # << >>
    BY <1>4, <2>2, ReplaceTop
  <2>. QED BY <2>1, <2>3
<1>7. Top.cell[1] \in Libraries /\ access \in [Libraries -> Nat]
  BY <1>1, ReadingFacts DEF IsFrame
<1>. HIDE DEF stack, seen
<1>8. \A l : /\ Held(l)' = (IF call.op = "library" /\ call.root = l THEN 1 ELSE 0)
             /\ Held(l) = (IF call.op = "library" /\ call.root = l THEN 1 ELSE 0)
                            + (IF Top.cell[1] = l THEN 1 ELSE 0)
  <2>1. \A l : Held(l)' = (IF call.op = "library" /\ call.root = l THEN 1 ELSE 0)
    BY <1>4, <1>5, <1>6 DEF Held, Reading, Top
  <2>2. \A l : Held(l) = (IF call.op = "library" /\ call.root = l THEN 1 ELSE 0)
                           + (IF Top.cell[1] = l THEN 1 ELSE 0)
    BY <1>1 DEF Held
  <2>. QED BY <2>1, <2>2
<1>9. access[Top.cell[1]] >= 1
  BY <1>7, <1>8 DEF IInv, AccessOK
<1>10. /\ access' \in [Libraries -> Nat]
       /\ \A l \in Libraries : access'[l] = access[l] + Held(l)' - Held(l)
  BY <1>2, <1>7, <1>8, <1>9
<1>11. Keys'
  BY <1>2 DEF IInv, Keys, stored, settings
<1>12. /\ call.op \in {"recursive", "library"} /\ ~Writing
       /\ call.op = "library" => call.root \in Libraries
       /\ open' = open /\ clean' = clean
  BY <1>1, <1>2, ReadingFacts
<1>. HIDE DEF Held
<1>. QED BY <1>5, <1>6, <1>10, <1>11, <1>12, ReadInv

\* A step of the stack between the cells.
LEMMA BetweenInv ==
  ASSUME IInv, ReadOp, UNCHANGED <<stored, settings, open, access, clean>>,
         NEW stack, NEW left, StackOK(stack, call.seen), stack # << >> => stack[1].at # "symbols",
         call.stack # << >> => Top.at # "symbols",
         call' = [op |-> call.op, root |-> call.root, stack |-> stack, out |-> call.out,
                  seen |-> call.seen, left |-> left]
  PROVE  IInv'
<1>1. Keys'
  BY DEF IInv, Keys, stored, settings
<1>2. \A l : Held(l)' = (IF call.op = "library" /\ call.root = l THEN 1 ELSE 0)
  BY DEF Held, Reading, Top
<1>3. \A l : Held(l) = (IF call.op = "library" /\ call.root = l THEN 1 ELSE 0)
  BY DEF Held, Reading
<1>4. /\ access' \in [Libraries -> Nat]
      /\ \A l \in Libraries : access'[l] = access[l] + Held(l)' - Held(l)
  BY <1>2, <1>3, ReadingFacts
<1>. HIDE DEF Held
<1>. QED BY <1>1, <1>4, ReadInv, ReadingFacts

LEMMA VisitMasterInv == IInv /\ VisitMaster => IInv'
<1>. SUFFICES ASSUME IInv, VisitMaster PROVE IInv'
  OBVIOUS
<1>1. Reading /\ ReadOp /\ Top.at = "masters" /\ IsFrame(Top) /\ Top = call.stack[1]
      /\ call.stack # << >>
  BY ReadingFacts DEF VisitMaster, Reading, ReadOp, Top
<1>. DEFINE rest(m) == [call EXCEPT !.stack[1].todo = @ \ {m}]
<1>2. PICK m \in Top.todo :
        call' = IF m \in call.seen \/ m[1] \in prims THEN rest(m)
                ELSE [rest(m) EXCEPT !.stack = Push(@, Frame(m))]
  BY DEF VisitMaster
<1>. DEFINE f == [Top EXCEPT !.todo = Top.todo \ {m}]
            stack == [call.stack EXCEPT ![1] = f]
<1>3. f = [cell |-> Top.cell, at |-> "masters", syms |-> Top.syms, todo |-> Top.todo \ {m}]
  <2>1. IsFrame(Top) /\ Top.at = "masters"
    BY <1>1
  <2>. QED BY <2>1, FrameWith
<1>4. IsFrame(f) /\ f.cell = Top.cell /\ f.at = "masters"
  BY <1>3 DEF IsFrame
<1>5. rest(m) = [op |-> call.op, root |-> call.root, stack |-> stack, out |-> call.out,
                 seen |-> call.seen, left |-> call.left]
  <2>1. PICK d : d = Top.todo \ {m}
    OBVIOUS
  <2>2. rest(m) = [call EXCEPT !.stack[1].todo = d] /\ f = [call.stack[1] EXCEPT !.todo = d]
    BY <1>1, <2>1
  <2>3. call = [op |-> call.op, root |-> call.root, stack |-> call.stack, out |-> call.out,
                seen |-> call.seen, left |-> call.left]
    BY <1>1, ReadingFacts
  <2>. HIDE DEF rest, f
  <2>. QED BY <2>2, <2>3, CallWith
<1>6. StackOK(stack, call.seen) /\ stack[1] = f /\ stack # << >> /\ DOMAIN stack = DOMAIN call.stack
      /\ \A i \in DOMAIN stack : stack[i].at = "masters"
  <2>1. PICK st, sn : st = call.stack /\ sn = call.seen
    OBVIOUS
  <2>2. StackOK(st, sn) /\ st # << >> /\ f.cell = st[1].cell /\ 1 \in DOMAIN st
    BY <1>1, <1>4, <2>1, ReadingFacts DEF StackOK
  <2>3. f.cell \in sn
    BY <1>1, <1>4, <2>1, <2>2 DEF StackOK
  <2>. HIDE DEF f
  <2>4. /\ StackOK([st EXCEPT ![1] = f], sn) /\ [st EXCEPT ![1] = f][1] = f
        /\ [st EXCEPT ![1] = f] # << >> /\ DOMAIN [st EXCEPT ![1] = f] = DOMAIN st
    BY <1>4, <2>2, <2>3, ReplaceTop
  <2>5. \A i \in DOMAIN st : [st EXCEPT ![1] = f][i].at = "masters"
    <3>1. \A i \in DOMAIN st : i = 1 \/ i > 1
      BY <2>2 DEF StackOK
    <3>. QED BY <1>4, <2>4, <3>1 DEF StackOK
  <2>. QED BY <2>1, <2>4, <2>5
<1>7. CASE m \in call.seen \/ m[1] \in prims
  <2>1. call' = [op |-> call.op, root |-> call.root, stack |-> stack, out |-> call.out,
                 seen |-> call.seen, left |-> call.left]
    BY <1>2, <1>5, <1>7
  <2>. HIDE DEF stack
  <2>. QED BY <1>1, <1>4, <1>6, <2>1, BetweenInv DEF VisitMaster
<1>8. CASE m \notin call.seen /\ m[1] \notin prims
  <2>. DEFINE pushed == Push(stack, Frame(m))
  <2>. HIDE DEF stack
  <2>1. StackOK(pushed, call.seen) /\ pushed # << >> /\ pushed[1] = Frame(m)
    <3>1. PICK sn : sn = call.seen
      OBVIOUS
    <3>. QED BY <1>6, <1>8, <3>1, PushFrame
  <2>2. call' = [op |-> call.op, root |-> call.root, stack |-> pushed, out |-> call.out,
                 seen |-> call.seen, left |-> call.left]
    <3>1. PICK r : r = rest(m)
      OBVIOUS
    <3>2. /\ r = [op |-> call.op, root |-> call.root, stack |-> stack, out |-> call.out,
                  seen |-> call.seen, left |-> call.left]
          /\ call' = [r EXCEPT !.stack = Push(r.stack, Frame(m))]
      BY <1>2, <1>5, <1>8, <3>1
    <3>3. call' = [r EXCEPT !.stack = pushed]
      BY <3>2
    <3>. HIDE DEF pushed
    <3>. QED BY <3>2, <3>3, CallWith
  <2>3. pushed[1].at # "symbols"
    BY <2>1 DEF Frame
  <2>. HIDE DEF pushed
  <2>. QED BY <1>1, <2>1, <2>2, <2>3, BetweenInv DEF VisitMaster
<1>. QED BY <1>7, <1>8

\* The cell at the top is done; the recursive read ends with its root.
LEMMA CellDoneInv == IInv /\ CellDone => IInv'
<1>. SUFFICES ASSUME IInv, CellDone PROVE IInv'
  OBVIOUS
<1>1. /\ Reading /\ ReadOp /\ Top.at = "masters" /\ call.stack # << >>
      /\ UNCHANGED <<stored, settings, open, access, clean>>
  BY DEF CellDone, Reading, ReadOp
<1>2. CASE call.op = "recursive" /\ call' = Idle
  <2>1. Keys'
    BY <1>1 DEF IInv, Keys, stored, settings
  <2>2. clean => DOMAIN open = {}
    BY <1>1, ReadingFacts DEF IInv, OpenOK, AtEntry
  <2>3. \A l : Held(l) = 0
    BY <1>1, <1>2 DEF Held
  <2>. HIDE DEF Held
  <2>. QED BY <1>1, <1>2, <2>1, <2>2, <2>3, EndsInv
<1>3. CASE call' = [call EXCEPT !.stack = Tail(@)]
  <2>. DEFINE stack == Tail(call.stack)
  <2>1. call' = [op |-> call.op, root |-> call.root, stack |-> stack, out |-> call.out,
                 seen |-> call.seen, left |-> call.left]
    BY <1>1, <1>3, ReadingFacts, CallWith
  <2>2. StackOK(stack, call.seen) /\ \A i \in DOMAIN stack : stack[i].at = "masters"
    <3>1. PICK st, sn : st = call.stack /\ sn = call.seen
      OBVIOUS
    <3>2. StackOK(st, sn) /\ st # << >>
      BY <1>1, <3>1, ReadingFacts
    <3>3. StackOK(Tail(st), sn) /\ \A i \in DOMAIN Tail(st) : Tail(st)[i].at = "masters"
      BY <3>2, PopFrame
    <3>. QED BY <3>1, <3>3
  <2>. HIDE DEF stack
  <2>3. stack # << >> => stack[1].at # "symbols"
    BY <2>2 DEF StackOK
  <2>. QED BY <1>1, <2>1, <2>2, <2>3, BetweenInv
<1>. QED BY <1>2, <1>3 DEF CellDone, Return

LEMMA NextCellInv == IInv /\ NextCell => IInv'
<1>. SUFFICES ASSUME IInv, NextCell PROVE IInv'
  OBVIOUS
<1>1. ReadOp /\ call.stack = << >> /\ UNCHANGED <<stored, settings, open, access, clean>>
  BY DEF NextCell, ReadOp
<1>2. PICK c \in call.left : call' = [call EXCEPT !.stack = <<Frame(c)>>, !.left = @ \ {c}]
  BY DEF NextCell
<1>. DEFINE stack == <<Frame(c)>>  left == call.left \ {c}
<1>3. call' = [op |-> call.op, root |-> call.root, stack |-> stack, out |-> call.out,
               seen |-> call.seen, left |-> left]
  BY <1>1, <1>2, ReadingFacts, CallWith
<1>4. StackOK(stack, call.seen) /\ stack[1].at # "symbols"
  BY DEF StackOK, IsFrame, Frame, Range
<1>. HIDE DEF stack, left
<1>. QED BY <1>1, <1>3, <1>4, BetweenInv

\* The access of the library is released when its cells have been gone through.
LEMMA LibraryDoneInv == IInv /\ LibraryDone => IInv'
<1>. SUFFICES ASSUME IInv, LibraryDone PROVE IInv'
  OBVIOUS
<1>1. /\ call.op = "library" /\ ReadOp /\ call.stack = << >> /\ call' = Idle
      /\ access' = [access EXCEPT ![call.root] = @ - 1]
      /\ UNCHANGED <<stored, settings, open, clean>>
  BY DEF LibraryDone, ReadOp, Return
<1>2. Keys'
  BY <1>1 DEF IInv, Keys, stored, settings
<1>3. (CallShape /\ AtList /\ ~ReadOp)'
  BY <1>1 DEF Idle, Writing, AtEntry, ReadOp, CallShape, AtList
<1>4. OpenOK'
  BY <1>1, ReadingFacts DEF IInv, OpenOK, AtEntry
<1>5. AccessOK'
  <2>1. call.root \in Libraries /\ access \in [Libraries -> Nat]
    BY <1>1, ReadingFacts
  <2>2. \A l : /\ Held(l) = (IF call.root = l THEN 1 ELSE 0)
               /\ Held(l)' = 0
    BY <1>1 DEF Held, Reading, Idle
  <2>3. access[call.root] >= 1
    BY <2>1, <2>2 DEF IInv, AccessOK
  <2>4. \A l \in Libraries : access[l] >= Held(l) /\ (clean => access[l] = Held(l))
    BY DEF IInv, AccessOK
  <2>5. /\ access' \in [Libraries -> Nat]
        /\ \A l \in Libraries : access'[l] = access[l] - Held(l)
    BY <1>1, <2>1, <2>2, <2>3
  <2>6. \A l \in Libraries : access'[l] >= 0 /\ (clean => access'[l] = 0)
    BY <2>1, <2>2, <2>4, <2>5
  <2>. QED BY <1>1, <2>2, <2>5, <2>6 DEF AccessOK
<1>. QED BY <1>2, <1>3, <1>4, <1>5 DEF IInv

-----------------------------------------------------------------------------
(***************************************************************************)
(* The theorems.                                                           *)
(***************************************************************************)

LEMMA NextInv == IInv /\ [Next]_vars => IInv'
<1>. SUFFICES ASSUME IInv, [Next]_vars PROVE IInv'
  OBVIOUS
<1>1. CASE Request
  BY <1>1, ImplementInv, StartReadInv, StartLibraryInv, RequestSettingsInv, CreateLibInv DEF Request
<1>2. CASE Step
  BY <1>2, LibStepsInv, OpenInv, ListDoneInv, EntryInv, UndefinedInv, CloseInv, ReadSchematicInv,
     ReadSymbolInv, FinishCellInv, VisitMasterInv, CellDoneInv, NextCellInv, LibraryDoneInv DEF Step
<1>3. CASE OaThrows
  BY <1>3, OaThrowsInv
<1>4. CASE Crash
  BY <1>4, ProcessEndsInv DEF Crash
<1>5. CASE Destroy
  BY <1>5, RequestSettingsInv
<1>6. CASE UNCHANGED vars
  BY <1>6 DEF vars, IInv, CallShape, Keys, AtList, AccessOK, OpenOK, StackOK, IsFrame, Held, Writing,
     AtEntry, ReadOp, Reading, Top, List, ListOf, Entry, EntryKey, EntryView
<1>. QED BY <1>1, <1>2, <1>3, <1>4, <1>5, <1>6 DEF Next

LEMMA Invariant == Spec => []IInv
BY InitInv, NextInv, PTL DEF Spec

\* Whatever is thrown and wherever the process ends, designs, cellviews and YAML files are
\* under keys of libraries, a read access is not released twice, and no cell is read below
\* itself.
THEOREM AlwaysTypeOK == Spec => []TypeOK
<1>1. IInv => TypeOK
  <2>. SUFFICES ASSUME IInv PROVE TypeOK
    OBVIOUS
  <2>1. AtEntry => call.k \in DOMAIN List.entries /\ EntryKey \in DOMAIN open
    <3>. SUFFICES ASSUME AtEntry PROVE call.k \in DOMAIN List.entries /\ EntryKey \in DOMAIN open
      OBVIOUS
    <3>1. /\ call.list \in DOMAIN (IF call.op = "lay" THEN LayLists ELSE SchLists)
          /\ call.k \in Nat \ {0} /\ call.k <= Len(List.entries) /\ EntryKey \in DOMAIN open
      BY DEF IInv, AtList, AtEntry
    <3>. QED BY <3>1, ListFacts DEF List
  <2>2. Reading => \A i, j \in DOMAIN call.stack : call.stack[i].cell = call.stack[j].cell => i = j
    BY DEF Reading, ReadOp, IInv, StackOK
  <2>. QED BY <2>1, <2>2 DEF IInv, Keys, AccessOK, TypeOK
<1>. QED BY <1>1, Invariant, PTL

\* While no call of the process has thrown, no design is left open by the writers and no
\* read access by the readers, for any list, hierarchy and library.
THEOREM AlwaysNothingHeld == Spec => []NothingHeld
<1>1. IInv => NothingHeld
  BY DEF IInv, AccessOK, OpenOK, Held, NothingHeld
<1>. QED BY <1>1, Invariant, PTL

-----------------------------------------------------------------------------
(***************************************************************************)
(* What a schematic or a symbol is written as.                             *)
(***************************************************************************)

\* A name has one place in the order of names.
LEMMA PlaceOf ==
  ASSUME NEW n \in ToSet(NameOrder)
  PROVE  Place(n) \in DOMAIN NameOrder /\ NameOrder[Place(n)] = n
BY DEF ToSet, Place

\* Subsets of the places are finite, and no larger than the order of names.
LEMMA PlacesFinite ==
  ASSUME NEW S \in SUBSET DOMAIN NameOrder
  PROVE  /\ IsFiniteSet(S) /\ Cardinality(S) \in 0 .. Len(NameOrder)
         /\ \A T \in SUBSET S : Cardinality(T) <= Cardinality(S) /\ (Cardinality(T) = Cardinality(S) => T = S)
<1>1. Len(NameOrder) \in Nat /\ DOMAIN NameOrder = 1 .. Len(NameOrder)
  BY NamesAssumption
<1>2. IsFiniteSet(1 .. Len(NameOrder)) /\ Cardinality(1 .. Len(NameOrder)) = Len(NameOrder)
  BY <1>1, FS_Interval
<1>3. IsFiniteSet(S) /\ Cardinality(S) <= Len(NameOrder)
  BY <1>1, <1>2, FS_Subset
<1>4. Cardinality(S) \in Nat
  BY <1>3, FS_CardinalityType
<1>. QED BY <1>1, <1>3, <1>4, FS_Subset

\* The instances of pins have names of their own.
LEMMA PinInstFacts ==
  ASSUME NEW terms, DOMAIN terms \subseteq ToSet(NameOrder)
  PROVE  /\ \A t \in PinObjects(terms) : PinInst(terms, t) \in PinNames(terms)
         /\ \A t, u \in PinObjects(terms) : PinInst(terms, t) = PinInst(terms, u) => t = u
<1>. DEFINE Before(t) == {i \in PinPlaces(terms) : i < Place(t)}
<1>1. Len(NameOrder) \in Nat /\ DOMAIN NameOrder = 1 .. Len(NameOrder)
  BY NamesAssumption
<1>2. \A t \in PinObjects(terms) : Place(t) \in PinPlaces(terms) /\ NameOrder[Place(t)] = t
  BY PlaceOf DEF PinObjects, PinPlaces
<1>3. PinPlaces(terms) \subseteq DOMAIN NameOrder
  BY DEF PinPlaces
<1>4. ASSUME NEW t \in PinObjects(terms)
      PROVE  /\ Cardinality(Before(t)) \in 0 .. Len(NameOrder)
             /\ Cardinality(Before(t)) < Cardinality(PinPlaces(terms))
  <2>1. Before(t) \subseteq PinPlaces(terms) /\ Before(t) \subseteq DOMAIN NameOrder
    BY <1>3
  <2>2. Place(t) \in PinPlaces(terms) /\ Place(t) \notin Before(t)
    BY <1>1, <1>2, <1>3
  <2>3. Cardinality(Before(t)) \in 0 .. Len(NameOrder) /\ Cardinality(PinPlaces(terms)) \in Nat
    BY <1>1, <1>3, <2>1, PlacesFinite
  <2>4. /\ Cardinality(Before(t)) <= Cardinality(PinPlaces(terms))
        /\ Cardinality(Before(t)) # Cardinality(PinPlaces(terms))
    BY <1>3, <2>1, <2>2, PlacesFinite
  <2>. QED BY <1>1, <2>3, <2>4
<1>5. ASSUME NEW t \in PinObjects(terms) PROVE PinInst(terms, t) \in PinNames(terms)
  <2>1. Cardinality(PinPlaces(terms)) \in Nat
    BY <1>1, <1>3, PlacesFinite
  <2>2. Cardinality(Before(t)) \in 0 .. Cardinality(PinPlaces(terms)) - 1
    BY <1>1, <1>4, <2>1
  <2>. QED BY <2>2 DEF PinInst, PinNames
<1>6. ASSUME NEW t \in PinObjects(terms), NEW u \in PinObjects(terms), Place(t) < Place(u)
      PROVE  Cardinality(Before(t)) # Cardinality(Before(u))
  <2>1. Before(t) \subseteq Before(u)
    BY <1>1, <1>2, <1>3, <1>6
  <2>2. Place(t) \in Before(u) /\ Place(t) \notin Before(t)
    BY <1>1, <1>2, <1>3, <1>6
  <2>3. Before(u) \subseteq DOMAIN NameOrder
    BY <1>3
  <2>. HIDE DEF Before
  <2>. QED BY <2>1, <2>2, <2>3, PlacesFinite
<1>7. ASSUME NEW t \in PinObjects(terms), NEW u \in PinObjects(terms),
             PinInst(terms, t) = PinInst(terms, u)
      PROVE  t = u
  <2>1. Cardinality(Before(t)) = Cardinality(Before(u))
    BY <1>4, <1>7, NamesAssumption DEF PinInst
  <2>2. Place(t) \in Int /\ Place(u) \in Int
    BY <1>1, <1>2, <1>3
  <2>3. Place(t) = Place(u)
    <3>. HIDE DEF Before
    <3>. QED BY <1>6, <2>1, <2>2
  <2>. QED BY <1>2, <2>3
<1>. QED BY <1>5, <1>7

\* A net that is not implicit stays as it is.
LEMMA NetsKept ==
  ASSUME NEW nets, NEW sigs, NEW n \in DOMAIN nets, ~nets[n].implicit
  PROVE  n \in DOMAIN NetsOf(nets, sigs) /\ NetsOf(nets, sigs)[n] = nets[n]
BY DEF NetsOf

IsDesign(d) ==
  d = [type |-> d.type, nets |-> d.nets, terms |-> d.terms, insts |-> d.insts, shapes |-> d.shapes,
       props |-> d.props, appDefs |-> d.appDefs]

\* A terminal with its one pin.
TermMade(terms, t) ==
  [net |-> t, ttype |-> terms[t].ttype, pins |-> <<<<PinFigure(terms, t)>>>>,
   displays |-> IF terms[t].fig = RectFig THEN 0 ELSE 1]

\* A design with the terminals, their nets and what is made for their pins.
HasTerms(d, terms) ==
  /\ d.terms = [t \in DOMAIN terms |-> TermMade(terms, t)]
  /\ \A t \in DOMAIN terms : t \in DOMAIN d.nets /\ ~d.nets[t].implicit /\ d.nets[t].sig = terms[t].stype
  /\ \A n \in PinNames(terms) : /\ n \in DOMAIN d.insts /\ d.insts[n].pin = TRUE
                                /\ d.insts[n].params = << >>
  /\ \A t \in PinObjects(terms) : d.insts[PinInst(terms, t)].master = terms[t].fig

LEMMA PinsMade ==
  ASSUME NEW terms, DOMAIN terms \subseteq ToSet(NameOrder), NEW type,
         NEW d, d = CreateTerminalPin(EmptyDesign(type), terms)
  PROVE  /\ IsDesign(d) /\ HasTerms(d, terms)
         /\ DOMAIN d.insts = PinNames(terms)
         /\ d.shapes = {PinShape(terms, t) : t \in DOMAIN terms}
<1>. DEFINE sigs == [t \in DOMAIN terms |-> terms[t].stype]
            nets == NetsOf(<< >>, sigs)
            ts == [t \in DOMAIN terms |-> TermMade(terms, t)]
            Of(n) == CHOOSE x \in PinObjects(terms) : PinInst(terms, x) = n
            is == [n \in PinNames(terms) |->
                     [master |-> terms[Of(n)].fig, conns |-> << >>, params |-> << >>, pin |-> TRUE]]
            ss == {PinShape(terms, t) : t \in DOMAIN terms}
<1>1. d = [type |-> type, nets |-> nets, terms |-> ts, insts |-> is, shapes |-> {} \cup ss,
           props |-> << >>, appDefs |-> << >>]
  BY DEF CreateTerminalPin, EmptyDesign, TermMade
<1>2. \A t \in DOMAIN terms :
        t \in DOMAIN nets /\ ~nets[t].implicit /\ nets[t].sig = terms[t].stype
  BY DEF NetsOf
<1>3. \A t \in PinObjects(terms) : is[PinInst(terms, t)].master = terms[t].fig
  <2>1. \A t \in PinObjects(terms) : Of(PinInst(terms, t)) = t
    BY PinInstFacts
  <2>. HIDE DEF Of
  <2>. QED BY <2>1, PinInstFacts
<1>4. DOMAIN is = PinNames(terms) /\ \A n \in DOMAIN is : is[n].pin = TRUE /\ is[n].params = << >>
  OBVIOUS
<1>. HIDE DEF nets, ts, is, ss
<1>5. /\ d.type = type /\ d.nets = nets /\ d.terms = ts /\ d.insts = is /\ d.shapes = ss
  BY <1>1
<1>6. IsDesign(d)
  BY <1>1, <1>5 DEF IsDesign
<1>. QED BY <1>2, <1>3, <1>4, <1>5, <1>6 DEF HasTerms, ts, ss

\* A symbol's shapes are added; the rest of the design stays, its nets included.
LEMMA ShapesMade ==
  ASSUME NEW c, IsDesign(c), NEW shapes, NEW d, d = MakeShapes(c, shapes)
  PROVE  /\ IsDesign(d) /\ d.type = c.type /\ d.terms = c.terms /\ d.insts = c.insts
         /\ d.shapes = c.shapes \cup {MakeShape(s) : s \in shapes}
         /\ \A n \in DOMAIN c.nets : ~c.nets[n].implicit => n \in DOMAIN d.nets /\ d.nets[n] = c.nets[n]
<1>. DEFINE nets == NetsFor(c.nets, {s.net : s \in shapes})
            ss == c.shapes \cup {MakeShape(s) : s \in shapes}
<1>1. \A n \in DOMAIN c.nets : ~c.nets[n].implicit => n \in DOMAIN nets /\ nets[n] = c.nets[n]
  BY NetsKept DEF NetsFor
<1>2. d = [c EXCEPT !.nets = nets, !.shapes = ss]
  BY DEF MakeShapes
<1>. HIDE DEF nets, ss
<1>3. d = [type |-> c.type, nets |-> nets, terms |-> c.terms, insts |-> c.insts, shapes |-> ss,
           props |-> c.props, appDefs |-> c.appDefs]
  BY <1>2 DEF IsDesign
<1>4. d.nets = nets /\ d.shapes = ss /\ d.type = c.type /\ d.terms = c.terms /\ d.insts = c.insts
  BY <1>3
<1>5. IsDesign(d)
  BY <1>3 DEF IsDesign
<1>. QED BY <1>1, <1>4, <1>5 DEF ss

\* The instances are added under names of their own.
LEMMA InstancesMade ==
  ASSUME NEW c, IsDesign(c), NEW cv, NEW masters, NEW lib, NEW renames,
         NamesFree(cv), DOMAIN c.insts = PinNames(cv.terms),
         NEW d, d = WriteInstances(c, masters, lib, renames, cv)
  PROVE  /\ IsDesign(d) /\ d.type = c.type /\ d.terms = c.terms
         /\ \A n \in DOMAIN c.nets : ~c.nets[n].implicit => n \in DOMAIN d.nets /\ d.nets[n] = c.nets[n]
         /\ DOMAIN d.insts = {NameUnit(i) : i \in DOMAIN cv.insts} \cup PinNames(cv.terms)
         /\ \A i \in DOMAIN cv.insts :
              d.insts[NameUnit(i)] = WriteInst(masters, lib, renames, cv.insts[i])
         /\ \A n \in PinNames(cv.terms) : d.insts[n] = c.insts[n]
         /\ \A s \in d.shapes : s \in c.shapes \/ s.type \in {"line", "text"}
         /\ c.shapes \subseteq d.shapes
         /\ DOMAIN cv.insts = {} => d.shapes = c.shapes
<1>. DEFINE Of(n) == CHOOSE i \in DOMAIN cv.insts : NameUnit(i) = n
            new == [n \in {NameUnit(i) : i \in DOMAIN cv.insts} |->
                      WriteInst(masters, lib, renames, cv.insts[Of(n)])]
            stubs == UNION {Stubs(n, new[n].conns) : n \in DOMAIN new}
            nets == NetsFor(c.nets, UNION {Range(new[n].conns) : n \in DOMAIN new})
<1>1. \A n \in DOMAIN c.nets : ~c.nets[n].implicit => n \in DOMAIN nets /\ nets[n] = c.nets[n]
  BY NetsKept DEF NetsFor
<1>2. \A i \in DOMAIN cv.insts : new[NameUnit(i)] = WriteInst(masters, lib, renames, cv.insts[i])
  <2>1. \A i \in DOMAIN cv.insts : Of(NameUnit(i)) = i
    BY DEF NamesFree
  <2>. HIDE DEF Of
  <2>. QED BY <2>1
<1>3. DOMAIN new = {NameUnit(i) : i \in DOMAIN cv.insts}
  OBVIOUS
<1>4. \A n \in PinNames(cv.terms) : n \notin DOMAIN new
  BY DEF NamesFree
<1>5. \A s \in stubs : s.type \in {"line", "text"}
  <2>1. ASSUME NEW s \in stubs PROVE s.type \in {"line", "text"}
    <3>1. PICK n \in DOMAIN new : s \in Stubs(n, new[n].conns)
      BY <2>1
    <3>. HIDE DEF new
    <3>. QED BY <3>1 DEF Stubs
  <2>. QED BY <2>1
<1>6. DOMAIN cv.insts = {} => stubs = {}
  OBVIOUS
<1>7. d = [c EXCEPT !.insts = Overlay(new, c.insts), !.nets = nets, !.shapes = c.shapes \cup stubs]
  BY DEF WriteInstances
<1>. HIDE DEF new, stubs, nets
<1>8. d = [type |-> c.type, nets |-> nets, terms |-> c.terms, insts |-> Overlay(new, c.insts),
           shapes |-> c.shapes \cup stubs, props |-> c.props, appDefs |-> c.appDefs]
  BY <1>7 DEF IsDesign
<1>9. /\ d.nets = nets /\ d.shapes = c.shapes \cup stubs /\ d.type = c.type /\ d.terms = c.terms
      /\ d.insts = Overlay(new, c.insts)
  BY <1>8
<1>10. IsDesign(d)
  BY <1>8 DEF IsDesign
<1>11. /\ DOMAIN d.insts = {NameUnit(i) : i \in DOMAIN cv.insts} \cup PinNames(cv.terms)
       /\ \A n \in DOMAIN new : d.insts[n] = new[n]
       /\ \A n \in PinNames(cv.terms) : d.insts[n] = c.insts[n]
  BY <1>3, <1>4, <1>9 DEF Overlay
<1>12. \A i \in DOMAIN cv.insts : NameUnit(i) \in DOMAIN new
  BY <1>3
<1>. QED BY <1>1, <1>2, <1>5, <1>6, <1>9, <1>10, <1>11, <1>12

IsProp(p) == p = [type |-> p.type, val |-> p.val]

\* A value is read from a property as it was written to it.
LEMMA PropRead ==
  ASSUME NEW v, IsValue(v)
  PROVE  /\ IsProp(MakeProp(v)) /\ MakeProp(v).type \in DOMAIN KindOfProp
         /\ ReadProp(MakeProp(v)) = v
<1>1. MakeProp(v) = [type |-> PropTypeOf[v.kind], val |-> v.val]
  BY DEF MakeProp
<1>2. PropTypeOf[v.kind] \in DOMAIN KindOfProp /\ KindOfProp[PropTypeOf[v.kind]] = v.kind
  BY DEF IsValue, PropTypeOf, KindOfProp
<1>3. v = [kind |-> v.kind, val |-> v.val]
  BY DEF IsValue
<1>. QED BY <1>1, <1>2, <1>3 DEF ReadProp, IsProp

\* Parameters are read as they were written.
LEMMA ParamsRead ==
  ASSUME NEW params, IsValues(params)
  PROVE  PropsReadable(MakeProps(params)) /\ ReadProps(MakeProps(params)) = params
<1>1. \A p \in DOMAIN params : IsValue(params[p])
  BY DEF IsValues
<1>2. MakeProps(params) = [p \in DOMAIN params |-> MakeProp(params[p])]
  BY DEF MakeProps
<1>3. \A p \in DOMAIN params : MakeProp(params[p]).type \in DOMAIN KindOfProp
                               /\ ReadProp(MakeProp(params[p])) = params[p]
  BY <1>1, PropRead
<1>4. ReadProps(MakeProps(params)) = [p \in DOMAIN params |-> params[p]]
  BY <1>2, <1>3 DEF ReadProps
<1>5. params = [p \in DOMAIN params |-> params[p]]
  BY DEF IsValues, IsDict
<1>. QED BY <1>2, <1>3, <1>4, <1>5 DEF PropsReadable

\* The properties and the application data are added.
LEMMA PropsMade ==
  ASSUME NEW c, IsDesign(c), NEW cv, IsValues(cv.props), IsValues(cv.appDefs), ~AppDefThrows(cv),
         NEW d, d = WriteAppDefs(WriteProps(c, cv), cv)
  PROVE  /\ IsDesign(d) /\ d.type = c.type /\ d.terms = c.terms /\ d.nets = c.nets
         /\ d.insts = c.insts /\ d.shapes = c.shapes
         /\ DOMAIN d.props = DOMAIN cv.props
         /\ \A p \in DOMAIN d.props : IsProp(d.props[p]) /\ d.props[p].type \in DOMAIN KindOfProp
         /\ \A p \in DOMAIN d.props \ {"portOrder"} : ReadProp(d.props[p]) = cv.props[p]
         /\ "portOrder" \in DOMAIN d.props => d.props["portOrder"].val = TermOrder(cv.terms)
         /\ DOMAIN d.appDefs = DOMAIN cv.appDefs
         /\ \A a \in DOMAIN d.appDefs : /\ d.appDefs[a] = SavedAppDef(cv.appDefs[a])
                                        /\ d.appDefs[a].kind \in {"int", "string"}
<1>. DEFINE Val(p) == IF p = "portOrder" THEN [kind |-> "binary", val |-> TermOrder(cv.terms)] ELSE cv.props[p]
            props == [p \in DOMAIN cv.props |-> MakeProp(Val(p))]
            defs == [a \in DOMAIN cv.appDefs |->
              IF cv.appDefs[a].kind = "bool" THEN [cv.appDefs[a] EXCEPT !.kind = "int"] ELSE cv.appDefs[a]]
<1>1. \A p \in DOMAIN cv.props : IsValue(Val(p))
  <2>1. \A t : IsValue([kind |-> "binary", val |-> t])
    BY DEF IsValue, PropTypeOf
  <2>. QED BY <2>1 DEF IsValues
<1>2. /\ DOMAIN props = DOMAIN cv.props
      /\ \A p \in DOMAIN props : IsProp(props[p]) /\ props[p].type \in DOMAIN KindOfProp
      /\ \A p \in DOMAIN props \ {"portOrder"} : ReadProp(props[p]) = cv.props[p]
      /\ "portOrder" \in DOMAIN props => props["portOrder"].val = TermOrder(cv.terms)
  <2>1. \A p \in DOMAIN cv.props \ {"portOrder"} : Val(p) = cv.props[p]
    OBVIOUS
  <2>2. \A t : MakeProp([kind |-> "binary", val |-> t]).val = t
    BY DEF MakeProp
  <2>3. Val("portOrder") = [kind |-> "binary", val |-> TermOrder(cv.terms)]
    OBVIOUS
  <2>. HIDE DEF Val
  <2>. QED BY <1>1, <2>1, <2>2, <2>3, PropRead
<1>3. /\ DOMAIN defs = DOMAIN cv.appDefs
      /\ \A a \in DOMAIN defs : /\ defs[a] = SavedAppDef(cv.appDefs[a])
                                /\ defs[a].kind \in {"int", "string"}
  <2>1. ASSUME NEW a \in DOMAIN cv.appDefs
        PROVE  defs[a] = SavedAppDef(cv.appDefs[a]) /\ defs[a].kind \in {"int", "string"}
    <3>. DEFINE v == cv.appDefs[a]
    <3>1. IsValue(v) /\ v.kind \notin {"double", "time", "binary"}
      BY DEF IsValues, AppDefThrows
    <3>2. v.kind \in {"int", "bool", "string"} /\ v = [kind |-> v.kind, val |-> v.val]
      BY <3>1 DEF IsValue, PropTypeOf
    <3>3. defs[a] = IF v.kind = "bool" THEN [v EXCEPT !.kind = "int"] ELSE v
      OBVIOUS
    <3>. HIDE DEF v, defs
    <3>4. CASE v.kind = "bool"
      BY <3>2, <3>3, <3>4 DEF SavedAppDef, v
    <3>5. CASE v.kind # "bool"
      <4>1. [v EXCEPT !.kind = v.kind] = v
        BY <3>2
      <4>2. SavedAppDef(v) = v
        BY <3>5, <4>1 DEF SavedAppDef
      <4>. QED BY <3>2, <3>3, <3>5, <4>2 DEF v
    <3>. QED BY <3>4, <3>5
  <2>. QED BY <2>1
<1>4. d = [[c EXCEPT !.props = props] EXCEPT !.appDefs = defs]
  BY DEF WriteAppDefs, WriteProps
<1>. HIDE DEF props, defs
<1>5. d = [type |-> c.type, nets |-> c.nets, terms |-> c.terms, insts |-> c.insts, shapes |-> c.shapes,
           props |-> props, appDefs |-> defs]
  BY <1>4 DEF IsDesign
<1>6. /\ d.props = props /\ d.appDefs = defs /\ d.type = c.type /\ d.terms = c.terms
      /\ d.nets = c.nets /\ d.insts = c.insts /\ d.shapes = c.shapes
  BY <1>5
<1>7. IsDesign(d)
  BY <1>5 DEF IsDesign
<1>. QED BY <1>2, <1>3, <1>6, <1>7

\* What there is in the design of a schematic or a symbol.
LEMMA SchWritten ==
  ASSUME NEW cv, IsSchCellview(cv), NEW masters, NEW lib, NEW renames, NEW type,
         Writable(masters, lib, renames, cv, type),
         NEW d, d = WriteSchCellview(masters, lib, renames, cv, type)
  PROVE  /\ IsDesign(d)
         /\ HasTerms(d, cv.terms)
         /\ DOMAIN d.insts = {NameUnit(i) : i \in DOMAIN cv.insts} \cup PinNames(cv.terms)
         /\ \A i \in DOMAIN cv.insts :
              d.insts[NameUnit(i)] = WriteInst(masters, lib, renames, cv.insts[i])
         /\ \A s \in d.shapes : IncludeShape(s) => s.type \in DrawnTypes
         /\ type = "symbol" /\ DOMAIN cv.insts = {} =>
              {s \in d.shapes : IncludeShape(s)} = {MakeShape(s) : s \in cv.shapes}
         /\ DOMAIN d.props = DOMAIN cv.props
         /\ \A p \in DOMAIN d.props : IsProp(d.props[p]) /\ d.props[p].type \in DOMAIN KindOfProp
         /\ \A p \in DOMAIN d.props \ {"portOrder"} : ReadProp(d.props[p]) = cv.props[p]
         /\ "portOrder" \in DOMAIN d.props => d.props["portOrder"].val = TermOrder(cv.terms)
         /\ DOMAIN d.appDefs = DOMAIN cv.appDefs
         /\ \A a \in DOMAIN d.appDefs : /\ d.appDefs[a] = SavedAppDef(cv.appDefs[a])
                                        /\ d.appDefs[a].kind \in {"int", "string"}
<1>. DEFINE d1 == CreateTerminalPin(EmptyDesign(type), cv.terms)
            d2 == IF type = "symbol" THEN MakeShapes(d1, cv.shapes) ELSE d1
            d3 == WriteInstances(d2, masters, lib, renames, cv)
<1>1. d = WriteAppDefs(WriteProps(d3, cv), cv)
  BY DEF WriteSchCellview
<1>2. /\ IsDict(cv.terms) /\ DOMAIN cv.terms \subseteq ToSet(NameOrder)
      /\ \A s \in cv.shapes : s.type \in DrawnTypes
      /\ IsValues(cv.props) /\ IsValues(cv.appDefs)
  BY DEF IsSchCellview
<1>3. NamesFree(cv) /\ ~AppDefThrows(cv)
  BY DEF Writable
<1>4. /\ IsDesign(d1) /\ HasTerms(d1, cv.terms) /\ DOMAIN d1.insts = PinNames(cv.terms)
      /\ d1.shapes = {PinShape(cv.terms, t) : t \in DOMAIN cv.terms}
  <2>1. d1 = CreateTerminalPin(EmptyDesign(type), cv.terms)
    OBVIOUS
  <2>. HIDE DEF d1
  <2>. QED BY <1>2, <2>1, PinsMade
<1>. HIDE DEF d1
<1>5. \A t \in DOMAIN cv.terms :
        t \in DOMAIN d1.nets /\ ~d1.nets[t].implicit /\ d1.nets[t].sig = cv.terms[t].stype
  BY <1>4 DEF HasTerms
<1>6. /\ IsDesign(d2) /\ d2.terms = d1.terms /\ d2.insts = d1.insts
      /\ d2.shapes = d1.shapes \cup (IF type = "symbol" THEN {MakeShape(s) : s \in cv.shapes} ELSE {})
      /\ \A n \in DOMAIN d1.nets : ~d1.nets[n].implicit => n \in DOMAIN d2.nets /\ d2.nets[n] = d1.nets[n]
  BY <1>4, ShapesMade
<1>. HIDE DEF d2
<1>7. /\ IsDesign(d3) /\ d3.terms = d1.terms
      /\ \A n \in DOMAIN d2.nets : ~d2.nets[n].implicit => n \in DOMAIN d3.nets /\ d3.nets[n] = d2.nets[n]
      /\ DOMAIN d3.insts = {NameUnit(i) : i \in DOMAIN cv.insts} \cup PinNames(cv.terms)
      /\ \A i \in DOMAIN cv.insts :
           d3.insts[NameUnit(i)] = WriteInst(masters, lib, renames, cv.insts[i])
      /\ \A n \in PinNames(cv.terms) : d3.insts[n] = d1.insts[n]
      /\ \A s \in d3.shapes : s \in d2.shapes \/ s.type \in {"line", "text"}
      /\ d2.shapes \subseteq d3.shapes
      /\ DOMAIN cv.insts = {} => d3.shapes = d2.shapes
  <2>1. DOMAIN d2.insts = PinNames(cv.terms)
    BY <1>4, <1>6
  <2>. HIDE DEF d3
  <2>. QED BY <1>3, <1>6, <2>1, InstancesMade DEF d3
<1>. HIDE DEF d3
<1>8. /\ IsDesign(d) /\ d.terms = d3.terms /\ d.nets = d3.nets /\ d.insts = d3.insts
      /\ d.shapes = d3.shapes
      /\ DOMAIN d.props = DOMAIN cv.props
      /\ \A p \in DOMAIN d.props : IsProp(d.props[p]) /\ d.props[p].type \in DOMAIN KindOfProp
      /\ \A p \in DOMAIN d.props \ {"portOrder"} : ReadProp(d.props[p]) = cv.props[p]
      /\ "portOrder" \in DOMAIN d.props => d.props["portOrder"].val = TermOrder(cv.terms)
      /\ DOMAIN d.appDefs = DOMAIN cv.appDefs
      /\ \A a \in DOMAIN d.appDefs : /\ d.appDefs[a] = SavedAppDef(cv.appDefs[a])
                                     /\ d.appDefs[a].kind \in {"int", "string"}
  BY <1>1, <1>2, <1>3, <1>7, PropsMade
<1>9. HasTerms(d, cv.terms)
  <2>1. d.terms = [t \in DOMAIN cv.terms |-> TermMade(cv.terms, t)]
    BY <1>4, <1>6, <1>7, <1>8 DEF HasTerms
  <2>2. ASSUME NEW t \in DOMAIN cv.terms
        PROVE  t \in DOMAIN d.nets /\ ~d.nets[t].implicit /\ d.nets[t].sig = cv.terms[t].stype
    <3>1. t \in DOMAIN d2.nets /\ d2.nets[t] = d1.nets[t]
      BY <1>5, <1>6
    <3>2. t \in DOMAIN d3.nets /\ d3.nets[t] = d1.nets[t]
      BY <1>5, <1>7, <3>1
    <3>. QED BY <1>5, <1>8, <3>2
  <2>3. \A n \in PinNames(cv.terms) : n \in DOMAIN d.insts /\ d.insts[n] = d1.insts[n]
    BY <1>7, <1>8
  <2>4. \A n \in PinNames(cv.terms) : /\ n \in DOMAIN d.insts /\ d.insts[n].pin = TRUE
                                     /\ d.insts[n].params = << >>
    BY <1>4, <2>3 DEF HasTerms
  <2>5. \A t \in PinObjects(cv.terms) : d.insts[PinInst(cv.terms, t)].master = cv.terms[t].fig
    BY <1>2, <1>4, <2>3, PinInstFacts DEF HasTerms
  <2>. QED BY <2>1, <2>2, <2>4, <2>5 DEF HasTerms
<1>10. \A s \in d1.shapes : ~IncludeShape(s)
  BY <1>4 DEF PinShape, IncludeShape
<1>11. \A s \in cv.shapes : IncludeShape(MakeShape(s)) /\ MakeShape(s).type \in DrawnTypes
  BY <1>2 DEF MakeShape, IncludeShape, DrawnTypes
<1>12. \A s \in d.shapes : IncludeShape(s) => s.type \in DrawnTypes
  <2>1. ASSUME NEW s \in d.shapes, IncludeShape(s) PROVE s.type \in DrawnTypes
    <3>1. CASE s.type \in {"line", "text"}
      BY <3>1 DEF DrawnTypes
    <3>2. CASE s \in d2.shapes
      BY <1>6, <1>10, <1>11, <2>1, <3>2
    <3>. QED BY <1>7, <1>8, <3>1, <3>2
  <2>. QED BY <2>1
<1>13. type = "symbol" /\ DOMAIN cv.insts = {} =>
         {s \in d.shapes : IncludeShape(s)} = {MakeShape(s) : s \in cv.shapes}
  BY <1>6, <1>7, <1>8, <1>10, <1>11
<1>. QED BY <1>7, <1>8, <1>9, <1>12, <1>13

-----------------------------------------------------------------------------
(***************************************************************************)
(* What is read from the design of a schematic or a symbol is what it was  *)
(* written from.                                                           *)
(***************************************************************************)

\* A design with the properties that read back, as it is when it is saved.
SavedWell(d, w, lib) ==
  /\ IsDesign(d) /\ \A p \in DOMAIN d.props : IsProp(d.props[p])
  /\ \A primitive \in SUBSET Libraries : ReadsBack(d, w, lib, primitive)

\* The parts of what is read from a design.
LEMMA ReadParts ==
  ASSUME NEW d, NEW primitive
  PROVE  LET r == ReadSchCellview(d, primitive)
         IN  /\ r.terms = [t \in DOMAIN d.terms |-> ReadPinFigure(d, d.terms[t])]
             /\ r.shapes = {ReadShape(s) : s \in {x \in d.shapes : IncludeShape(x)}}
             /\ DOMAIN r.insts = {m \in DOMAIN d.insts : ~d.insts[m].pin}
             /\ \A n \in DOMAIN r.insts : r.insts[n] = ReadInstance(d.insts[n], primitive)
             /\ r.props = ReadProps(d.props)
             /\ r.appDefs = Only(d.appDefs, SavedAppDefs)
BY DEF ReadSchCellview

\* The terminals are read as they were written.
LEMMA TermsRead ==
  ASSUME NEW cv, IsSchCellview(cv), NEW d, HasTerms(d, cv.terms)
  PROVE  /\ \A t \in DOMAIN d.terms : TermReadable(d.terms[t])
         /\ [t \in DOMAIN d.terms |-> ReadPinFigure(d, d.terms[t])] = cv.terms
<1>1. d.terms = [t \in DOMAIN cv.terms |-> TermMade(cv.terms, t)]
  BY DEF HasTerms
<1>2. ASSUME NEW t \in DOMAIN cv.terms
      PROVE  TermReadable(TermMade(cv.terms, t)) /\ ReadPinFigure(d, TermMade(cv.terms, t)) = cv.terms[t]
  <2>1. cv.terms[t] = [stype |-> cv.terms[t].stype, ttype |-> cv.terms[t].ttype, fig |-> cv.terms[t].fig]
    BY DEF IsSchCellview
  <2>2. d.nets[t].sig = cv.terms[t].stype
    BY DEF HasTerms
  <2>3. CASE cv.terms[t].fig = RectFig
    <3>1. TermMade(cv.terms, t) =
            [net |-> t, ttype |-> cv.terms[t].ttype, pins |-> <<<<[type |-> "rect", inst |-> PinName(0)]>>>>,
             displays |-> 0]
      BY <2>3 DEF TermMade, PinFigure
    <3>. QED BY <2>1, <2>2, <2>3, <3>1 DEF TermReadable, ReadPinFigure
  <2>4. CASE cv.terms[t].fig # RectFig
    <3>1. TermMade(cv.terms, t) =
            [net |-> t, ttype |-> cv.terms[t].ttype,
             pins |-> <<<<[type |-> "inst", inst |-> PinInst(cv.terms, t)]>>>>, displays |-> 1]
      BY <2>4 DEF TermMade, PinFigure
    <3>2. d.insts[PinInst(cv.terms, t)].master = cv.terms[t].fig
      BY <2>4 DEF HasTerms, PinObjects
    <3>. QED BY <2>1, <2>2, <3>1, <3>2 DEF TermReadable, ReadPinFigure
  <2>. QED BY <2>3, <2>4
<1>3. cv.terms = [t \in DOMAIN cv.terms |-> cv.terms[t]]
  BY DEF IsSchCellview, IsDict
<1>4. \A t \in DOMAIN d.terms : TermReadable(d.terms[t])
  BY <1>1, <1>2
<1>5. DOMAIN d.terms = DOMAIN cv.terms
      /\ \A t \in DOMAIN cv.terms : ReadPinFigure(d, d.terms[t]) = cv.terms[t]
  BY <1>1, <1>2
<1>. QED BY <1>3, <1>4, <1>5

\* A design that was written reads back.
LEMMA WritesSchematic ==
  ASSUME NEW w, NEW cv, CvOf(w) = cv, IsSchCellview(cv), NEW masters, NEW lib,
         Writable(masters, lib, w.renames, cv, w.type)
  PROVE  SavedWell(WriteSchCellview(masters, lib, w.renames, cv, w.type), w, lib)
<1>. DEFINE d == WriteSchCellview(masters, lib, w.renames, cv, w.type)
<1>1. /\ IsDesign(d) /\ HasTerms(d, cv.terms)
      /\ DOMAIN d.insts = {NameUnit(i) : i \in DOMAIN cv.insts} \cup PinNames(cv.terms)
      /\ \A i \in DOMAIN cv.insts :
           d.insts[NameUnit(i)] = WriteInst(masters, lib, w.renames, cv.insts[i])
      /\ \A s \in d.shapes : IncludeShape(s) => s.type \in DrawnTypes
      /\ w.type = "symbol" /\ DOMAIN cv.insts = {} =>
           {s \in d.shapes : IncludeShape(s)} = {MakeShape(s) : s \in cv.shapes}
      /\ DOMAIN d.props = DOMAIN cv.props
      /\ \A p \in DOMAIN d.props : IsProp(d.props[p]) /\ d.props[p].type \in DOMAIN KindOfProp
      /\ \A p \in DOMAIN d.props \ {"portOrder"} : ReadProp(d.props[p]) = cv.props[p]
      /\ DOMAIN d.appDefs = DOMAIN cv.appDefs
      /\ \A a \in DOMAIN d.appDefs : /\ d.appDefs[a] = SavedAppDef(cv.appDefs[a])
                                     /\ d.appDefs[a].kind \in {"int", "string"}
  BY SchWritten
<1>. HIDE DEF d
<1>2. \A n \in PinNames(cv.terms) : d.insts[n].pin = TRUE /\ d.insts[n].params = << >>
  BY <1>1 DEF HasTerms
<1>3. \A i \in DOMAIN cv.insts :
        /\ d.insts[NameUnit(i)].pin = FALSE
        /\ d.insts[NameUnit(i)].master = MasterOf(lib, w.renames, cv.insts[i])
        /\ d.insts[NameUnit(i)].conns =
             Only(cv.insts[i].conns, DOMAIN masters[MasterOf(lib, w.renames, cv.insts[i])].terms)
        /\ d.insts[NameUnit(i)].params = MakeProps(cv.insts[i].params)
  <2>1. ASSUME NEW i \in DOMAIN cv.insts
        PROVE  /\ d.insts[NameUnit(i)].pin = FALSE
               /\ d.insts[NameUnit(i)].master = MasterOf(lib, w.renames, cv.insts[i])
               /\ d.insts[NameUnit(i)].conns =
                    Only(cv.insts[i].conns, DOMAIN masters[MasterOf(lib, w.renames, cv.insts[i])].terms)
               /\ d.insts[NameUnit(i)].params = MakeProps(cv.insts[i].params)
    <3>1. d.insts[NameUnit(i)] = WriteInst(masters, lib, w.renames, cv.insts[i])
      BY <1>1
    <3>. QED BY <3>1 DEF WriteInst
  <2>. QED BY <2>1
<1>4. {m \in DOMAIN d.insts : ~d.insts[m].pin} = {NameUnit(i) : i \in DOMAIN cv.insts}
  BY <1>1, <1>2, <1>3
<1>5. \A i \in DOMAIN cv.insts : PropsReadable(MakeProps(cv.insts[i].params))
                                 /\ ReadProps(MakeProps(cv.insts[i].params)) = cv.insts[i].params
  BY ParamsRead DEF IsSchCellview, IsInstance
<1>6. Readable(d)
  <2>1. ASSUME NEW n \in DOMAIN d.insts
        PROVE  PropsReadable(d.insts[n].params)
    <3>1. CASE n \in PinNames(cv.terms)
      BY <1>2, <3>1 DEF PropsReadable
    <3>2. ASSUME NEW i \in DOMAIN cv.insts, n = NameUnit(i) PROVE PropsReadable(d.insts[n].params)
      BY <1>3, <1>5, <3>2
    <3>. QED BY <1>1, <3>1, <3>2
  <2>2. \A t \in DOMAIN d.terms : TermReadable(d.terms[t])
    BY <1>1, TermsRead
  <2>3. PropsReadable(d.props) /\ AppDefReadable(d)
    BY <1>1 DEF PropsReadable, AppDefReadable
  <2>. QED BY <1>1, <2>1, <2>2, <2>3 DEF Readable
<1>7. ASSUME NEW primitive PROVE ReadsBack(d, w, lib, primitive)
  <2>. DEFINE r == ReadSchCellview(d, primitive)
  <2>1. /\ r.terms = [t \in DOMAIN d.terms |-> ReadPinFigure(d, d.terms[t])]
        /\ r.shapes = {ReadShape(s) : s \in {x \in d.shapes : IncludeShape(x)}}
        /\ DOMAIN r.insts = {m \in DOMAIN d.insts : ~d.insts[m].pin}
        /\ \A n \in DOMAIN r.insts : r.insts[n] = ReadInstance(d.insts[n], primitive)
        /\ r.props = ReadProps(d.props)
        /\ r.appDefs = Only(d.appDefs, SavedAppDefs)
    BY ReadParts
  <2>. HIDE DEF r
  <2>2. r.terms = cv.terms
    BY <1>1, <2>1, TermsRead
  <2>3. DOMAIN r.insts = {NameUnit(i) : i \in DOMAIN cv.insts}
    BY <1>4, <2>1
  <2>4. ASSUME NEW i \in DOMAIN cv.insts
        PROVE  LET old == cv.insts[i]
                   new == r.insts[NameUnit(i)]
               IN  /\ <<new.lib, new.cell>> = NewCell(w, lib, old)
                   /\ new.view = old.view /\ new.params = old.params
                   /\ \A t \in DOMAIN new.conns : new.conns[t] = old.conns[t]
    <3>. DEFINE old == cv.insts[i]
                m == MasterOf(lib, w.renames, old)
                new == r.insts[NameUnit(i)]
    <3>1. new = ReadInstance(d.insts[NameUnit(i)], primitive)
      BY <2>1, <2>3
    <3>2. new = [lib |-> m[1], cell |-> m[2], view |-> m[3], prim |-> m[1] \in primitive,
                 conns |-> Only(old.conns, DOMAIN masters[m].terms), params |-> old.params]
      BY <1>3, <1>5, <3>1 DEF ReadInstance
    <3>3. m[3] = old.view /\ <<m[1], m[2]>> = NewCell(w, lib, old)
      BY DEF MasterOf, NewCell
    <3>. HIDE DEF new, m
    <3>4. \A t \in DOMAIN new.conns : new.conns[t] = old.conns[t]
      BY <3>2 DEF Only
    <3>. QED BY <3>2, <3>3, <3>4 DEF new
  <2>5. w.type = "symbol" /\ DOMAIN cv.insts = {} => r.shapes = cv.shapes
    <3>1. \A s \in cv.shapes : ReadShape(MakeShape(s)) = s
      BY DEF IsSchCellview, ReadShape, MakeShape
    <3>. QED BY <1>1, <2>1, <3>1
  <2>6. /\ DOMAIN r.appDefs = SavedAppDefs \cap DOMAIN cv.appDefs
        /\ \A a \in DOMAIN r.appDefs : r.appDefs[a] = SavedAppDef(cv.appDefs[a])
    BY <1>1, <2>1 DEF Only
  <2>7. /\ DOMAIN r.props = DOMAIN cv.props
        /\ \A p \in DOMAIN r.props \ (Timestamps \cup {"portOrder"}) : r.props[p] = cv.props[p]
    BY <1>1, <2>1 DEF ReadProps
  <2>. QED BY <1>6, <2>2, <2>3, <2>4, <2>5, <2>6, <2>7 DEF ReadsBack, r
<1>. QED BY <1>1, <1>7 DEF SavedWell, d

\* Stamping changes no property that is read back.
LEMMA StampReadsBack ==
  ASSUME NEW w, NEW lib, NEW d, SavedWell(d, w, lib)
  PROVE  SavedWell(Stamped(d), w, lib)
<1>. DEFINE e == Stamped(d)
            props == [p \in DOMAIN d.props |->
                        IF p \in Timestamps THEN [d.props[p] EXCEPT !.val = "updated"] ELSE d.props[p]]
<1>1. IsDesign(d) /\ \A p \in DOMAIN d.props : IsProp(d.props[p])
  BY DEF SavedWell
<1>2. /\ DOMAIN props = DOMAIN d.props
      /\ \A p \in DOMAIN props : IsProp(props[p]) /\ props[p].type = d.props[p].type
      /\ \A p \in DOMAIN props \ Timestamps : props[p] = d.props[p]
  <2>1. ASSUME NEW p \in DOMAIN d.props
        PROVE  IsProp(props[p]) /\ props[p].type = d.props[p].type
    <3>1. d.props[p] = [type |-> d.props[p].type, val |-> d.props[p].val]
      BY <1>1 DEF IsProp
    <3>2. [d.props[p] EXCEPT !.val = "updated"] = [type |-> d.props[p].type, val |-> "updated"]
      BY <3>1
    <3>3. props[p] = IF p \in Timestamps THEN [d.props[p] EXCEPT !.val = "updated"] ELSE d.props[p]
      OBVIOUS
    <3>. HIDE DEF props
    <3>. QED BY <1>1, <3>2, <3>3 DEF IsProp
  <2>. QED BY <2>1
<1>3. e = [d EXCEPT !.props = props]
  BY DEF Stamped
<1>. HIDE DEF e, props
<1>4. e = [type |-> d.type, nets |-> d.nets, terms |-> d.terms, insts |-> d.insts, shapes |-> d.shapes,
           props |-> props, appDefs |-> d.appDefs]
  BY <1>1, <1>3 DEF IsDesign
<1>5. /\ IsDesign(e) /\ e.props = props /\ e.nets = d.nets /\ e.terms = d.terms /\ e.insts = d.insts
      /\ e.shapes = d.shapes /\ e.appDefs = d.appDefs
  BY <1>4 DEF IsDesign
<1>6. ASSUME NEW primitive \in SUBSET Libraries PROVE ReadsBack(e, w, lib, primitive)
  <2>. DEFINE r == ReadSchCellview(d, primitive)
              q == ReadSchCellview(e, primitive)
  <2>1. ReadsBack(d, w, lib, primitive)
    BY DEF SavedWell
  <2>2. /\ q.terms = r.terms /\ q.shapes = r.shapes /\ q.insts = r.insts /\ q.appDefs = r.appDefs
        /\ q.props = ReadProps(props) /\ r.props = ReadProps(d.props)
    BY <1>5 DEF ReadSchCellview, ReadPinFigure
  <2>3. Readable(e)
    BY <1>2, <1>5, <2>1 DEF ReadsBack, Readable, PropsReadable, AppDefReadable
  <2>4. \A p \in DOMAIN d.props \ Timestamps : q.props[p] = r.props[p]
    BY <1>2, <2>2 DEF ReadProps
  <2>. HIDE DEF r, q
  <2>5. DOMAIN q.props = DOMAIN d.props /\ DOMAIN r.props = DOMAIN d.props
    BY <1>2, <2>2 DEF ReadProps
  <2>. QED BY <2>1, <2>2, <2>3, <2>4, <2>5 DEF ReadsBack, r, q
<1>. QED BY <1>2, <1>5, <1>6 DEF SavedWell, e

-----------------------------------------------------------------------------
(***************************************************************************)
(* The order of the terminals.                                             *)
(***************************************************************************)

\* The names of a set in their order: each once.
LEMMA OrderedFacts ==
  ASSUME NEW S, S \subseteq ToSet(NameOrder)
  PROVE  /\ Ordered(S) \in Seq(S) /\ ToSet(Ordered(S)) = S
         /\ IsFiniteSet(S) /\ Len(Ordered(S)) = Cardinality(S)
<1>. DEFINE n == Len(NameOrder)
            Def(w) == [i \in 0 .. n |->
                        IF i = 0 THEN << >>
                        ELSE IF NameOrder[i] \in S THEN Append(w[i - 1], NameOrder[i]) ELSE w[i - 1]]
            Upto(m, w) == /\ w[0] = << >>
                          /\ \A i \in 1 .. m : w[i] = IF NameOrder[i] \in S THEN Append(w[i - 1], NameOrder[i]) ELSE w[i - 1]
            P == {m \in Nat : \E w : Upto(m, w)}
<1>1. n \in Nat /\ DOMAIN NameOrder = 1 .. n /\ \A i, j \in 1 .. n : NameOrder[i] = NameOrder[j] => i = j
  BY NamesAssumption DEF IsInjective
<1>2. 0 \in P
  <2>1. Upto(0, [i \in 0 .. 0 |-> << >>])
    OBVIOUS
  <2>. QED BY <2>1
<1>3. ASSUME NEW m \in Nat, m \in P PROVE m + 1 \in P
  <2>1. PICK w : Upto(m, w)
    BY <1>3
  <2>. DEFINE last_ == IF NameOrder[m + 1] \in S THEN Append(w[m], NameOrder[m + 1]) ELSE w[m]
              v == [i \in 0 .. m + 1 |-> IF i <= m THEN w[i] ELSE last_]
  <2>2. v[0] = << >>
    BY <2>1
  <2>3. ASSUME NEW i \in 1 .. m + 1
        PROVE  v[i] = IF NameOrder[i] \in S THEN Append(v[i - 1], NameOrder[i]) ELSE v[i - 1]
    <3>1. CASE i <= m
      <4>1. v[i] = w[i] /\ v[i - 1] = w[i - 1]
        BY <3>1
      <4>. HIDE DEF v
      <4>. QED BY <2>1, <3>1, <4>1
    <3>2. CASE i = m + 1
      <4>1. v[i] = last_ /\ v[i - 1] = w[m]
        BY <3>2
      <4>. HIDE DEF v
      <4>. QED BY <3>2, <4>1
    <3>. QED BY <3>1, <3>2
  <2>. HIDE DEF v
  <2>4. Upto(m + 1, v)
    BY <2>2, <2>3
  <2>. QED BY <2>4
<1>4. n \in P
  <2>. HIDE DEF P, n
  <2>. QED BY <1>1, <1>2, <1>3, AllNumbers
<1>5. PICK u : Upto(n, u)
  BY <1>4
<1>. DEFINE w == [i \in 0 .. n |-> u[i]]
<1>6. w = Def(w)
  <2>1. \A i \in 0 .. n : w[i] = IF i = 0 THEN << >>
                                 ELSE IF NameOrder[i] \in S THEN Append(w[i - 1], NameOrder[i]) ELSE w[i - 1]
    <3>. SUFFICES ASSUME NEW i \in 0 .. n
                  PROVE  w[i] = IF i = 0 THEN << >>
                                ELSE IF NameOrder[i] \in S THEN Append(w[i - 1], NameOrder[i]) ELSE w[i - 1]
      OBVIOUS
    <3>1. CASE i = 0
      BY <1>1, <1>5, <3>1
    <3>2. CASE i \in 1 .. n
      <4>1. w[i] = u[i] /\ w[i - 1] = u[i - 1]
        BY <1>1, <3>2
      <4>. HIDE DEF w
      <4>. QED BY <1>5, <3>2, <4>1
    <3>. QED BY <1>1, <3>1, <3>2
  <2>2. w = [i \in 0 .. n |-> w[i]]
    OBVIOUS
  <2>. HIDE DEF w
  <2>. QED BY <2>1, <2>2
<1>7. Ordered(S) = (CHOOSE f : f = Def(f))[n]
  BY DEF Ordered
<1>. DEFINE f == CHOOSE g : g = Def(g)
<1>8. f = Def(f)
  <2>. HIDE DEF w
  <2>. QED BY <1>6
<1>. HIDE DEF f
<1>9. f[0] = << >> /\ \A i \in 1 .. n : f[i] = IF NameOrder[i] \in S THEN Append(f[i - 1], NameOrder[i]) ELSE f[i - 1]
  <2>1. PICK g : g = f
    OBVIOUS
  <2>2. g = [i \in 0 .. n |-> IF i = 0 THEN << >>
                              ELSE IF NameOrder[i] \in S THEN Append(g[i - 1], NameOrder[i]) ELSE g[i - 1]]
    BY <1>8, <2>1
  <2>3. \A i \in 0 .. n : g[i] = IF i = 0 THEN << >>
                                 ELSE IF NameOrder[i] \in S THEN Append(g[i - 1], NameOrder[i]) ELSE g[i - 1]
    BY <2>2
  <2>4. 0 \in 0 .. n /\ \A i \in 1 .. n : i \in 0 .. n /\ i # 0
    BY <1>1
  <2>. QED BY <2>1, <2>3, <2>4
<1>. DEFINE First(m) == {x \in S : \E i \in 1 .. m : x = NameOrder[i]}
            Good(m) == /\ f[m] \in Seq(S) /\ ToSet(f[m]) = First(m)
                       /\ IsFiniteSet(First(m)) /\ Len(f[m]) = Cardinality(First(m))
            Q == {m \in Nat : m <= n => Good(m)}
<1>10. 0 \in Q
  <2>1. First(0) = {}
    OBVIOUS
  <2>. HIDE DEF First
  <2>2. << >> \in Seq(S) /\ ToSet(<< >>) = {} /\ Len(<< >>) = 0
    BY DEF ToSet
  <2>3. Good(0)
    BY <1>9, <2>1, <2>2, FS_EmptySet
  <2>. QED BY <2>3
<1>11. ASSUME NEW m \in Nat, m \in Q PROVE m + 1 \in Q
  <2>. SUFFICES ASSUME m + 1 <= n PROVE Good(m + 1)
    OBVIOUS
  <2>1. Good(m) /\ m + 1 \in 1 .. n /\ m + 1 - 1 = m
    BY <1>1, <1>11
  <2>. DEFINE x == NameOrder[m + 1]
  <2>2. f[m + 1] = IF x \in S THEN Append(f[m], x) ELSE f[m]
    BY <1>9, <2>1
  <2>3. CASE x \in S
    <3>1. First(m + 1) = First(m) \cup {x} /\ x \notin First(m)
      BY <1>1, <2>1, <2>3
    <3>. HIDE DEF First, x
    <3>2. f[m + 1] \in Seq(S) /\ Len(f[m + 1]) = Len(f[m]) + 1 /\ ToSet(f[m + 1]) = ToSet(f[m]) \cup {x}
      <4>1. f[m + 1] = Append(f[m], x) /\ f[m] \in Seq(S)
        BY <2>1, <2>2, <2>3
      <4>2. /\ f[m + 1] \in Seq(S) /\ Len(f[m + 1]) = Len(f[m]) + 1
            /\ \A i \in 1 .. Len(f[m]) : f[m + 1][i] = f[m][i]
            /\ f[m + 1][Len(f[m]) + 1] = x
        BY <2>3, <4>1, AppendProperties
      <4>3. /\ Len(f[m]) \in Nat /\ DOMAIN f[m] = 1 .. Len(f[m])
            /\ DOMAIN f[m + 1] = 1 .. Len(f[m]) + 1
        BY <4>1, <4>2
      <4>4. ToSet(f[m + 1]) = ToSet(f[m]) \cup {x}
        <5>. DEFINE s == f[m]
                    t == f[m + 1]
                    len == Len(s)
        <5>1. /\ len \in Nat /\ DOMAIN s = 1 .. len /\ DOMAIN t = 1 .. len + 1
              /\ \A i \in 1 .. len : t[i] = s[i]
              /\ t[len + 1] = x
          BY <4>2, <4>3
        <5>. HIDE DEF s, t, len
        <5>2. ToSet(s) = {s[i] : i \in 1 .. len} /\ ToSet(t) = {t[i] : i \in 1 .. len + 1}
          BY <5>1 DEF ToSet
        <5>3. \A i \in 1 .. len + 1 : i \in 1 .. len \/ i = len + 1
          BY <5>1
        <5>4. ASSUME NEW y \in ToSet(t) PROVE y \in ToSet(s) \cup {x}
          BY <5>1, <5>2, <5>3
        <5>5. ASSUME NEW y \in ToSet(s) \cup {x} PROVE y \in ToSet(t)
          BY <5>1, <5>2
        <5>. QED BY <5>4, <5>5 DEF s, t
      <4>. QED BY <4>2, <4>4
    <3>. QED BY <2>1, <3>1, <3>2, FS_AddElement
  <2>4. CASE x \notin S
    <3>1. First(m + 1) = First(m)
      BY <1>1, <2>1, <2>4
    <3>. HIDE DEF First, x
    <3>. QED BY <2>1, <2>2, <2>4, <3>1
  <2>. QED BY <2>3, <2>4
<1>12. Good(n)
  <2>1. n \in Q
    <3>. HIDE DEF Q, n
    <3>. QED BY <1>1, <1>10, <1>11, AllNumbers
  <2>. HIDE DEF Good
  <2>. QED BY <1>1, <2>1
<1>13. First(n) = S
  BY <1>1 DEF ToSet
<1>. HIDE DEF First, n
<1>. QED BY <1>7, <1>12, <1>13 DEF f

\* The terminals in the order that is kept with the cell: each once, inputs, outputs, others.
LEMMA TermOrderGood ==
  ASSUME NEW terms, DOMAIN terms \subseteq ToSet(NameOrder)
  PROVE  GoodOrder(TermOrder(terms), terms)
<1>. DEFINE Ins == {t \in DOMAIN terms : terms[t].ttype = "input"}
            Outs == {t \in DOMAIN terms : terms[t].ttype = "output"}
            Others == {t \in DOMAIN terms : terms[t].ttype \notin {"input", "output"}}
            a == Ordered(Ins)
            b == Ordered(Outs)
            c == Ordered(Others)
            s == (a \o b) \o c
<1>1. TermOrder(terms) = s
  BY DEF TermOrder
<1>2. /\ a \in Seq(Ins) /\ ToSet(a) = Ins /\ IsFiniteSet(Ins) /\ Len(a) = Cardinality(Ins)
      /\ b \in Seq(Outs) /\ ToSet(b) = Outs /\ IsFiniteSet(Outs) /\ Len(b) = Cardinality(Outs)
      /\ c \in Seq(Others) /\ ToSet(c) = Others /\ IsFiniteSet(Others) /\ Len(c) = Cardinality(Others)
  <2>1. Ins \subseteq ToSet(NameOrder) /\ Outs \subseteq ToSet(NameOrder) /\ Others \subseteq ToSet(NameOrder)
    OBVIOUS
  <2>. HIDE DEF Ins, Outs, Others
  <2>. QED BY <2>1, OrderedFacts
<1>3. /\ DOMAIN terms = (Ins \cup Outs) \cup Others
      /\ Ins \cap Outs = {} /\ (Ins \cup Outs) \cap Others = {}
      /\ \A t \in Ins : terms[t].ttype = "input"
      /\ \A t \in Outs : terms[t].ttype = "output"
      /\ \A t \in Others : terms[t].ttype \notin {"input", "output"}
  OBVIOUS
<1>4. /\ Ins \subseteq DOMAIN terms /\ Outs \subseteq DOMAIN terms /\ Others \subseteq DOMAIN terms
  OBVIOUS
<1>. DEFINE la == Len(a)
            lb == Len(b)
            lc == Len(c)
<1>. HIDE DEF Ins, Outs, Others, a, b, c
<1>5. /\ la \in Nat /\ lb \in Nat /\ lc \in Nat
      /\ DOMAIN a = 1 .. la /\ DOMAIN b = 1 .. lb /\ DOMAIN c = 1 .. lc
  BY <1>2
<1>6. /\ s \in Seq(DOMAIN terms) /\ Len(s) = la + lb + lc
      /\ \A i \in 1 .. la : s[i] = a[i]
      /\ \A i \in la + 1 .. la + lb : s[i] = b[i - la]
      /\ \A i \in la + lb + 1 .. la + lb + lc : s[i] = c[i - (la + lb)]
  <2>1. a \in Seq(DOMAIN terms) /\ b \in Seq(DOMAIN terms) /\ c \in Seq(DOMAIN terms)
    BY <1>2, <1>4
  <2>. DEFINE ab == a \o b
  <2>2. /\ ab \in Seq(DOMAIN terms) /\ Len(ab) = la + lb
        /\ \A i \in 1 .. la + lb : ab[i] = IF i <= la THEN a[i] ELSE b[i - la]
    BY <2>1, ConcatProperties
  <2>. HIDE DEF ab
  <2>3. /\ ab \o c \in Seq(DOMAIN terms) /\ Len(ab \o c) = la + lb + lc
        /\ \A i \in 1 .. la + lb + lc : (ab \o c)[i] = IF i <= la + lb THEN ab[i] ELSE c[i - (la + lb)]
    <3>1. /\ ab \o c \in Seq(DOMAIN terms) /\ Len(ab \o c) = Len(ab) + lc
          /\ \A i \in 1 .. Len(ab) + lc : (ab \o c)[i] = IF i <= Len(ab) THEN ab[i] ELSE c[i - Len(ab)]
      <4>1. ab \in Seq(DOMAIN terms) /\ c \in Seq(DOMAIN terms)
        BY <2>1, <2>2
      <4>. QED BY <4>1, ConcatProperties
    <3>. HIDE DEF la, lb, lc
    <3>. QED BY <2>2, <3>1
  <2>4. s = ab \o c
    BY DEF ab
  <2>. HIDE DEF s, la, lb, lc
  <2>. QED BY <1>5, <2>2, <2>3, <2>4
<1>. HIDE DEF s, la, lb, lc
<1>7. DOMAIN s = 1 .. la + lb + lc
  BY <1>5, <1>6
<1>8. /\ \A i \in 1 .. la : s[i] \in Ins
      /\ \A i \in la + 1 .. la + lb : s[i] \in Outs
      /\ \A i \in la + lb + 1 .. la + lb + lc : s[i] \in Others
  <2>1. /\ \A i \in 1 .. la : a[i] \in Ins
        /\ \A i \in 1 .. lb : b[i] \in Outs
        /\ \A i \in 1 .. lc : c[i] \in Others
    BY <1>2, <1>5
  <2>2. /\ \A i \in la + 1 .. la + lb : i - la \in 1 .. lb
        /\ \A i \in la + lb + 1 .. la + lb + lc : i - (la + lb) \in 1 .. lc
    BY <1>5
  <2>. QED BY <1>6, <2>1, <2>2
<1>9. ToSet(s) = DOMAIN terms
  <2>1. ToSet(s) \subseteq DOMAIN terms
    BY <1>6, <1>7 DEF ToSet
  <2>2. ASSUME NEW t \in Ins PROVE t \in ToSet(s)
    <3>1. PICK i \in 1 .. la : t = a[i]
      BY <1>2, <1>5 DEF ToSet
    <3>2. i \in DOMAIN s /\ s[i] = t
      BY <1>5, <1>6, <1>7, <3>1
    <3>. QED BY <3>2 DEF ToSet
  <2>3. ASSUME NEW t \in Outs PROVE t \in ToSet(s)
    <3>1. PICK i \in 1 .. lb : t = b[i]
      BY <1>2, <1>5 DEF ToSet
    <3>2. la + i \in la + 1 .. la + lb /\ la + i - la = i
      BY <1>5
    <3>3. la + i \in DOMAIN s /\ s[la + i] = t
      BY <1>5, <1>6, <1>7, <3>1, <3>2
    <3>. QED BY <3>3 DEF ToSet
  <2>4. ASSUME NEW t \in Others PROVE t \in ToSet(s)
    <3>1. PICK i \in 1 .. lc : t = c[i]
      BY <1>2, <1>5 DEF ToSet
    <3>2. la + lb + i \in la + lb + 1 .. la + lb + lc /\ la + lb + i - (la + lb) = i
      BY <1>5
    <3>3. la + lb + i \in DOMAIN s /\ s[la + lb + i] = t
      BY <1>5, <1>6, <1>7, <3>1, <3>2
    <3>. QED BY <3>3 DEF ToSet
  <2>. QED BY <1>3, <2>1, <2>2, <2>3, <2>4
<1>10. Len(s) = Cardinality(DOMAIN terms)
  <2>1. /\ IsFiniteSet(Ins \cup Outs)
        /\ Cardinality(Ins \cup Outs) = Cardinality(Ins) + Cardinality(Outs)
    <3>1. Cardinality(Ins \cap Outs) = 0
      BY <1>3, FS_EmptySet
    <3>2. Cardinality(Ins) \in Nat /\ Cardinality(Outs) \in Nat
      BY <1>2, <1>5 DEF la, lb
    <3>3. /\ IsFiniteSet(Ins \cup Outs)
          /\ Cardinality(Ins \cup Outs) = Cardinality(Ins) + Cardinality(Outs) - Cardinality(Ins \cap Outs)
      BY <1>2, FS_Union
    <3>. QED BY <3>1, <3>2, <3>3
  <2>2. Cardinality(DOMAIN terms) = Cardinality(Ins \cup Outs) + Cardinality(Others)
    <3>1. Cardinality((Ins \cup Outs) \cap Others) = 0
      BY <1>3, FS_EmptySet
    <3>2. Cardinality(Ins \cup Outs) \in Nat /\ Cardinality(Others) \in Nat
      BY <1>2, <1>5, <2>1 DEF la, lb, lc
    <3>3. Cardinality((Ins \cup Outs) \cup Others) = Cardinality(Ins \cup Outs) + Cardinality(Others)
      <4>1. Cardinality((Ins \cup Outs) \cup Others) =
              Cardinality(Ins \cup Outs) + Cardinality(Others) - Cardinality((Ins \cup Outs) \cap Others)
        BY <1>2, <2>1, FS_Union
      <4>. QED BY <3>1, <3>2, <4>1
    <3>. QED BY <1>3, <3>3
  <2>. QED BY <1>2, <1>6, <2>1, <2>2 DEF la, lb, lc
<1>11. ASSUME NEW i \in DOMAIN s, NEW j \in DOMAIN s, i < j
       PROVE  /\ terms[s[j]].ttype = "input" => terms[s[i]].ttype = "input"
              /\ terms[s[j]].ttype = "output" => terms[s[i]].ttype \in {"input", "output"}
  <2>1. CASE j \in 1 .. la
    BY <1>3, <1>5, <1>7, <1>8, <1>11, <2>1
  <2>2. CASE j \in la + 1 .. la + lb
    <3>1. i \in 1 .. la \/ i \in la + 1 .. la + lb
      BY <1>5, <1>7, <1>11, <2>2
    <3>2. terms[s[j]].ttype = "output" /\ terms[s[i]].ttype \in {"input", "output"}
      BY <1>3, <1>8, <2>2, <3>1
    <3>. QED BY <3>2
  <2>3. CASE j \in la + lb + 1 .. la + lb + lc
    BY <1>3, <1>8, <2>3
  <2>4. j \in 1 .. la \/ j \in la + 1 .. la + lb \/ j \in la + lb + 1 .. la + lb + lc
    BY <1>5, <1>7
  <2>. QED BY <2>1, <2>2, <2>3, <2>4
<1>. QED BY <1>1, <1>9, <1>10, <1>11 DEF GoodOrder

-----------------------------------------------------------------------------
(***************************************************************************)
(* What a layout is written as.                                            *)
(***************************************************************************)

\* The polygons that were recorded after each of them was handed over.
LEMMA HandedOver ==
  ASSUME NEW polys, polys \in Seq(ToSet(polys))
  PROVE  \E w : /\ w[0] = [last |-> NoPolygon, out |-> {}]
                /\ \A i \in 1 .. Len(polys) : w[i] = PushBack(w[i - 1], polys[i])
                /\ Handed(polys) = w[Len(polys)]
<1>. DEFINE n == Len(polys)
            first == [last |-> NoPolygon, out |-> {}]
            Def(w) == [i \in 0 .. n |-> IF i = 0 THEN first ELSE PushBack(w[i - 1], polys[i])]
            Upto(m, w) == /\ w[0] = first
                          /\ \A i \in 1 .. m : w[i] = PushBack(w[i - 1], polys[i])
            P == {m \in Nat : \E w : Upto(m, w)}
<1>1. n \in Nat
  OBVIOUS
<1>2. 0 \in P
  <2>1. Upto(0, [i \in 0 .. 0 |-> first])
    OBVIOUS
  <2>. QED BY <2>1
<1>3. ASSUME NEW m \in Nat, m \in P PROVE m + 1 \in P
  <2>1. PICK w : Upto(m, w)
    BY <1>3
  <2>. DEFINE v == [i \in 0 .. m + 1 |-> IF i <= m THEN w[i] ELSE PushBack(w[m], polys[i])]
  <2>2. v[0] = first
    BY <2>1
  <2>3. ASSUME NEW i \in 1 .. m + 1 PROVE v[i] = PushBack(v[i - 1], polys[i])
    <3>1. CASE i <= m
      <4>1. v[i] = w[i] /\ v[i - 1] = w[i - 1]
        BY <3>1
      <4>. HIDE DEF v
      <4>. QED BY <2>1, <3>1, <4>1
    <3>2. CASE i = m + 1
      <4>1. v[i] = PushBack(w[m], polys[i]) /\ v[i - 1] = w[m]
        BY <3>2
      <4>. HIDE DEF v
      <4>. QED BY <4>1
    <3>. QED BY <3>1, <3>2
  <2>. HIDE DEF v
  <2>4. Upto(m + 1, v)
    BY <2>2, <2>3
  <2>. QED BY <2>4
<1>4. n \in P
  <2>. HIDE DEF P, n
  <2>. QED BY <1>1, <1>2, <1>3, AllNumbers
<1>5. PICK u : Upto(n, u)
  BY <1>4
<1>. DEFINE w == [i \in 0 .. n |-> u[i]]
<1>6. w = Def(w)
  <2>1. \A i \in 0 .. n : w[i] = IF i = 0 THEN first ELSE PushBack(w[i - 1], polys[i])
    <3>. SUFFICES ASSUME NEW i \in 0 .. n
                  PROVE  w[i] = IF i = 0 THEN first ELSE PushBack(w[i - 1], polys[i])
      OBVIOUS
    <3>1. CASE i = 0
      BY <1>1, <1>5, <3>1
    <3>2. CASE i \in 1 .. n
      <4>1. w[i] = u[i] /\ w[i - 1] = u[i - 1]
        BY <1>1, <3>2
      <4>. HIDE DEF w
      <4>. QED BY <1>5, <3>2, <4>1
    <3>. QED BY <1>1, <3>1, <3>2
  <2>2. w = [i \in 0 .. n |-> w[i]]
    OBVIOUS
  <2>. HIDE DEF w
  <2>. QED BY <2>1, <2>2
<1>7. Handed(polys) = (CHOOSE f : f = Def(f))[n]
  BY DEF Handed
<1>. DEFINE f == CHOOSE g : g = Def(g)
<1>8. f = Def(f)
  <2>. HIDE DEF w
  <2>. QED BY <1>6
<1>. HIDE DEF f
<1>9. f[0] = first /\ \A i \in 1 .. n : f[i] = PushBack(f[i - 1], polys[i])
  <2>1. PICK g : g = f
    OBVIOUS
  <2>2. g = [i \in 0 .. n |-> IF i = 0 THEN first ELSE PushBack(g[i - 1], polys[i])]
    BY <1>8, <2>1
  <2>3. \A i \in 0 .. n : g[i] = IF i = 0 THEN first ELSE PushBack(g[i - 1], polys[i])
    BY <2>2
  <2>4. 0 \in 0 .. n /\ \A i \in 1 .. n : i \in 0 .. n /\ i # 0
    BY <1>1
  <2>. QED BY <2>1, <2>3, <2>4
<1>. QED BY <1>7, <1>9 DEF f

\* Every polygon that has points is recorded.
LEMMA AllRecorded ==
  ASSUME NEW polys, polys \in Seq(ToSet(polys)), \A p \in ToSet(polys) : p.points # 0
  PROVE  \A p \in ToSet(polys) :
           [type |-> IF p.rect THEN "rect" ELSE "polygon", id |-> p.id] \in Polygons(polys)
<1>. DEFINE n == Len(polys)
            Rec(i) == [type |-> IF polys[i].rect THEN "rect" ELSE "polygon", id |-> polys[i].id]
<1>1. n \in Nat /\ DOMAIN polys = 1 .. n /\ ToSet(polys) = {polys[i] : i \in 1 .. n}
  BY DEF ToSet
<1>2. PICK w : /\ w[0] = [last |-> NoPolygon, out |-> {}]
               /\ \A i \in 1 .. n : w[i] = PushBack(w[i - 1], polys[i])
               /\ Handed(polys) = w[n]
  BY HandedOver
<1>. DEFINE P == {m \in Nat : m <= n =>
                   /\ m > 0 => w[m].last = polys[m]
                   /\ \A i \in 1 .. m - 1 : Rec(i) \in w[m].out}
<1>3. 0 \in P
  OBVIOUS
<1>4. ASSUME NEW m \in Nat, m \in P PROVE m + 1 \in P
  <2>. SUFFICES ASSUME m + 1 <= n
                PROVE  /\ w[m + 1].last = polys[m + 1]
                       /\ \A i \in 1 .. m : Rec(i) \in w[m + 1].out
    OBVIOUS
  <2>1. w[m + 1] = PushBack(w[m], polys[m + 1])
    <3>1. m + 1 \in 1 .. n /\ m + 1 - 1 = m
      BY <1>1
    <3>. QED BY <1>2, <3>1
  <2>2. w[m + 1].last = polys[m + 1] /\ w[m + 1].out = RecordLast(w[m])
    BY <2>1 DEF PushBack
  <2>3. ASSUME NEW i \in 1 .. m PROVE Rec(i) \in RecordLast(w[m])
    <3>1. m > 0 /\ m \in 1 .. n /\ polys[m].points # 0
      BY <1>1
    <3>2. w[m].last = polys[m] /\ \A j \in 1 .. m - 1 : Rec(j) \in w[m].out
      BY <1>4, <3>1
    <3>3. RecordLast(w[m]) = w[m].out \cup {Rec(m)}
      BY <3>1, <3>2 DEF RecordLast
    <3>. HIDE DEF Rec
    <3>. QED BY <3>2, <3>3
  <2>. QED BY <2>2, <2>3
<1>5. n \in P
  <2>. HIDE DEF P, n
  <2>. QED BY <1>1, <1>3, <1>4, AllNumbers
<1>6. ASSUME NEW i \in 1 .. n PROVE Rec(i) \in Polygons(polys)
  <2>1. n > 0 /\ n \in 1 .. n /\ polys[n].points # 0
    BY <1>1
  <2>2. w[n].last = polys[n] /\ \A j \in 1 .. n - 1 : Rec(j) \in w[n].out
    BY <1>1, <1>5, <2>1
  <2>3. RecordLast(w[n]) = w[n].out \cup {Rec(n)}
    BY <2>1, <2>2 DEF RecordLast
  <2>4. Polygons(polys) = RecordLast(w[n])
    BY <1>2 DEF Polygons
  <2>. HIDE DEF Rec, P, n
  <2>. QED BY <1>1, <2>2, <2>3, <2>4
<1>. QED BY <1>1, <1>6

\* The layer and the colour of a shape that is drawn.
LEMMA ColoredShape ==
  ASSUME NEW type, NEW layer, NEW purp, NEW id
  PROVE  LET s == Colored(OnLayer(type, layer, purp, id))
         IN  /\ s.type = type /\ s.id = id /\ s.purp = purp /\ s.term = NoTerm
             /\ s = [type |-> type, layer |-> s.layer, purp |-> purp, color |-> s.color,
                     term |-> NoTerm, id |-> id]
             /\ layer \in DOMAIN ColorMap => <<s.layer, s.color>> = ColorMap[layer]
             /\ layer \notin DOMAIN ColorMap => s.layer = layer
<1>. DEFINE s == Colored(OnLayer(type, layer, purp, id))
<1>1. CASE layer \in DOMAIN ColorMap
  <2>1. s = [type |-> type, layer |-> ColorMap[layer][1], purp |-> purp,
             color |-> ColorMap[layer][2], term |-> NoTerm, id |-> id]
    BY <1>1 DEF Colored, OnLayer
  <2>2. ColorMap[layer] = <<ColorMap[layer][1], ColorMap[layer][2]>>
    BY <1>1, ColorAssumption
  <2>. QED BY <1>1, <2>1, <2>2
<1>2. CASE layer \notin DOMAIN ColorMap
  BY <1>2 DEF Colored, OnLayer
<1>. QED BY <1>1, <1>2

\* What write_lay_cellview makes of a cellview has all of it.
LEMMA WritesLayout ==
  ASSUME NEW cv, NEW lib, NEW w, IsLayCellview(cv), CvOf(w) = cv
  PROVE  LayoutWritten(WriteLayCellview(cv, lib, LayView, w.renames), w, lib)
<1>. DEFINE d == WriteLayCellview(cv, lib, LayView, w.renames)
<1>1. /\ d.shapes = (UNION {CreateLayGeometry(geo) : geo \in cv.geos}) \cup CreateLayPins(cv.pins)
                      \cup {CreateLayLabel(lab) : lab \in cv.labels}
      /\ d.terms = PinTerms(cv.pins) /\ d.vias = CreateLayVias(cv.vias)
      /\ d.insts = [n \in DOMAIN cv.insts |-> CreateLayInst(cv.insts[n], lib, LayView, w.renames)]
  BY DEF WriteLayCellview
<1>. HIDE DEF d
<1>7. /\ \A geo \in cv.geos : CreateLayGeometry(geo) \subseteq d.shapes
      /\ CreateLayPins(cv.pins) \subseteq d.shapes
      /\ \A s \in d.shapes : \/ \E geo \in cv.geos : s \in CreateLayGeometry(geo)
                             \/ s \in CreateLayPins(cv.pins)
                             \/ \E lab \in cv.labels : s = CreateLayLabel(lab)
  <2>. DEFINE geos == {CreateLayGeometry(geo) : geo \in cv.geos}
              labels == {CreateLayLabel(lab) : lab \in cv.labels}
  <2>1. d.shapes = (UNION geos) \cup CreateLayPins(cv.pins) \cup labels
    BY <1>1
  <2>2. /\ \A geo \in cv.geos : CreateLayGeometry(geo) \in geos
        /\ \A g \in geos : \E geo \in cv.geos : g = CreateLayGeometry(geo)
        /\ \A s \in labels : \E lab \in cv.labels : s = CreateLayLabel(lab)
    OBVIOUS
  <2>. HIDE DEF geos, labels
  <2>3. \A geo \in cv.geos : CreateLayGeometry(geo) \subseteq d.shapes
    BY <2>1, <2>2
  <2>4. ASSUME NEW s \in d.shapes
        PROVE  \/ \E geo \in cv.geos : s \in CreateLayGeometry(geo)
               \/ s \in CreateLayPins(cv.pins)
               \/ \E lab \in cv.labels : s = CreateLayLabel(lab)
    BY <2>1, <2>2
  <2>5. CreateLayPins(cv.pins) \subseteq d.shapes
    BY <2>1
  <2>. QED BY <2>3, <2>4, <2>5
<1>2. ASSUME NEW geo \in cv.geos, NEW p \in ToSet(geo.polys)
      PROVE  \E s \in d.shapes : /\ s.id = p.id /\ s.purp = geo.purp
                                 /\ geo.layer \in DOMAIN ColorMap => <<s.layer, s.color>> = ColorMap[geo.layer]
                                 /\ geo.layer \notin DOMAIN ColorMap => s.layer = geo.layer
  <2>1. PICK q \in Polygons(geo.polys) : q.id = p.id
    BY AllRecorded DEF IsLayCellview
  <2>. DEFINE s == Colored(OnLayer(q.type, geo.layer, geo.purp, q.id))
  <2>2. s \in CreateLayGeometry(geo)
    BY <2>1 DEF CreateLayGeometry
  <2>. HIDE DEF s
  <2>3. s \in d.shapes
    BY <1>7, <2>2
  <2>. QED BY <2>1, <2>3, ColoredShape DEF s
<1>3. ASSUME NEW p \in cv.pins, p.physical, MakePin
      PROVE  p.net \in d.terms /\ \E s \in d.shapes : s.id = p.id /\ s.type = "rect" /\ s.term = p.net
  <2>1. p \in Physical(cv.pins) /\ p.net \in d.terms
    BY <1>1, <1>3 DEF Physical, PinTerms
  <2>. DEFINE c == Colored(OnLayer("rect", p.layer, PinPurpose, p.id))
              s == [c EXCEPT !.term = p.net]
  <2>2. s \in d.shapes
    <3>1. s \in PinRects(cv.pins)
      BY <2>1 DEF PinRects
    <3>. HIDE DEF s
    <3>. QED BY <1>3, <1>7, <3>1 DEF CreateLayPins
  <2>3. c.id = p.id /\ c.type = "rect" /\ c = [type |-> "rect", layer |-> c.layer, purp |-> PinPurpose,
             color |-> c.color, term |-> NoTerm, id |-> p.id]
    BY ColoredShape
  <2>. HIDE DEF c
  <2>4. s.id = p.id /\ s.type = "rect" /\ s.term = p.net
    BY <2>3
  <2>. QED BY <2>1, <2>2, <2>4
<1>4. ASSUME NEW s \in d.shapes, s.term # NoTerm
      PROVE  s.term \in d.terms
  <2>1. ASSUME NEW geo \in cv.geos, s \in CreateLayGeometry(geo) PROVE FALSE
    BY <1>4, <2>1, ColoredShape DEF CreateLayGeometry
  <2>2. s \notin PinTexts(cv.pins)
    <3>1. ASSUME NEW p \in Physical(cv.pins),
                 s = [Colored(OnLayer("text", p.layer, PinPurpose, p.label)) EXCEPT !.color = NoColor]
          PROVE  FALSE
      <4>. DEFINE c == Colored(OnLayer("text", p.layer, PinPurpose, p.label))
      <4>1. c = [type |-> "text", layer |-> c.layer, purp |-> PinPurpose, color |-> c.color,
                 term |-> NoTerm, id |-> p.label]
        BY ColoredShape
      <4>2. s = [c EXCEPT !.color = NoColor]
        BY <3>1
      <4>. HIDE DEF c
      <4>. QED BY <1>4, <4>1, <4>2
    <3>. QED BY <3>1 DEF PinTexts
  <2>3. s \notin {CreateLayLabel(lab) : lab \in cv.labels}
    BY <1>4 DEF CreateLayLabel, OnLayer
  <2>4. MakePin /\ s \in PinRects(cv.pins)
    <3>1. s \in CreateLayPins(cv.pins)
      BY <1>7, <2>1, <2>3
    <3>. QED BY <2>2, <3>1 DEF CreateLayPins
  <2>5. PICK p \in Physical(cv.pins) :
          s = [Colored(OnLayer("rect", p.layer, PinPurpose, p.id)) EXCEPT !.term = p.net]
    BY <2>4 DEF PinRects
  <2>. DEFINE c == Colored(OnLayer("rect", p.layer, PinPurpose, p.id))
  <2>6. c = [type |-> "rect", layer |-> c.layer, purp |-> PinPurpose, color |-> c.color,
             term |-> NoTerm, id |-> p.id]
    BY ColoredShape
  <2>7. s = [c EXCEPT !.term = p.net]
    BY <2>5
  <2>. HIDE DEF c
  <2>8. s.term = p.net
    BY <2>6, <2>7
  <2>. QED BY <1>1, <2>4, <2>8 DEF PinTerms
<1>5. \A v \in cv.vias : v \in d.vias <=> v \in ViaDefs
  BY <1>1 DEF CreateLayVias
<1>6. \A i \in DOMAIN cv.insts : ~cv.insts[i].reference /\ cv.insts[i].cell \in DOMAIN w.renames =>
        d.insts[i].master = <<lib, w.renames[cv.insts[i].cell], LayView>>
  <2>1. ASSUME NEW i \in DOMAIN cv.insts
        PROVE  d.insts[i].master = InstMaster(cv.insts[i], lib, LayView, w.renames)
    <3>1. d.insts[i] = CreateLayInst(cv.insts[i], lib, LayView, w.renames)
      BY <1>1, <2>1
    <3>. HIDE DEF d
    <3>. QED BY <3>1 DEF CreateLayInst
  <2>. HIDE DEF d
  <2>2. ASSUME NEW i \in DOMAIN cv.insts, ~cv.insts[i].reference, cv.insts[i].cell \in DOMAIN w.renames
        PROVE  InstMaster(cv.insts[i], lib, LayView, w.renames) = <<lib, w.renames[cv.insts[i].cell], LayView>>
    BY <2>2 DEF InstMaster
  <2>. QED BY <2>1, <2>2
<1>. QED BY <1>2, <1>3, <1>4, <1>5, <1>6 DEF LayoutWritten, d

-----------------------------------------------------------------------------
(***************************************************************************)
(* Every design that is saved was written in full from its cellview.       *)
(***************************************************************************)

\* A design has what it was written from.
WrittenFrom(d, w, lib) ==
  IF w.type = "layout" THEN LayoutWritten(d, w, lib) ELSE SavedWell(d, w, lib)

\* The cells that a list of layouts gave new names are in the library.
RenamesSaved(saved, lib, renames) == \A c \in DOMAIN renames : <<lib, renames[c], LayView>> \in saved

\* What is saved stays as it was written; the entry under way has been written to its
\* design before that is saved, and a symbol is written of a schematic that has one.
Saved ==
  /\ \A k \in DOMAIN written :
       /\ WrittenFrom(disk[k], written[k], k[1])
       /\ written[k].type = "layout" => RenamesSaved(DOMAIN disk, k[1], written[k].renames)
  /\ call.op = "lay" => RenamesSaved(DOMAIN disk, List.lib, call.renames)
  /\ call.op = "sch" /\ ~call.isSch => call.k <= Len(List.entries) /\ Entry.cv.sym # NoSym
  /\ AtEntry /\ call.at # "build" => WrittenFrom(open[EntryKey], Source, List.lib)
  /\ AtEntry /\ call.at \notin {"build", "save"} =>
       EntryKey \in DOMAIN written /\ written[EntryKey] = Source

\* The designs that are saved, when nothing is saved.
LEMMA KeepsSaved ==
  ASSUME Saved, UNCHANGED <<disk, written>>
  PROVE  (\A k \in DOMAIN written :
           /\ WrittenFrom(disk[k], written[k], k[1])
           /\ written[k].type = "layout" => RenamesSaved(DOMAIN disk, k[1], written[k].renames))'
BY DEF Saved, RenamesSaved

LEMMA QuietSaved ==
  ASSUME Saved, UNCHANGED <<disk, written>>, ~Writing'
  PROVE  Saved'
<1>1. (call.op \notin {"lay", "sch"} /\ ~AtEntry)'
  BY DEF Writing, AtEntry
<1>. QED BY <1>1, KeepsSaved DEF Saved

LEMMA InitSaved == Init => Saved
BY DEF Init, Saved, Idle, AtEntry, Writing

LEMMA ImplementSaved ==
  ASSUME Saved, \/ \E l \in DOMAIN SchLists : ImplementSchList(l)
                \/ \E l \in DOMAIN LayLists : ImplementLayList(l)
  PROVE  Saved'
<1>1. UNCHANGED <<disk, written>>
  BY DEF ImplementSchList, ImplementLayList, Begin, stored
<1>2. (call.renames = << >> /\ (call.op = "sch" => call.isSch) /\ ~AtEntry)'
  BY DEF ImplementSchList, ImplementLayList, AtEntry
<1>. QED BY <1>1, <1>2, KeepsSaved DEF Saved, RenamesSaved

\* The entry that is written is a cellview of the list.
LEMMA EntryCellview ==
  ASSUME IInv, Saved, AtEntry
  PROVE  /\ CvOf(Source) = EntryCv
         /\ Source.type = EntryType /\ Source.renames = call.renames
         /\ call.op = "lay" => EntryType = "layout" /\ IsLayCellview(EntryCv)
         /\ call.op = "sch" => EntryType # "layout" /\ IsSchCellview(EntryCv)
<1>1. /\ call.op \in {"sch", "lay"}
      /\ call.list \in DOMAIN (IF call.op = "lay" THEN LayLists ELSE SchLists)
      /\ call.k \in 1 .. Len(List.entries)
  BY WritingFacts DEF AtEntry, IInv, AtList
<1>2. call.k \in DOMAIN List.entries /\ Entry \in ToSet(List.entries)
  BY <1>1, ListFacts DEF List, Entry, ToSet
<1>3. CvOf(Source) = EntryCv
  BY <1>1 DEF CvOf, Source, EntryCv, Entry, List
<1>4. CASE call.op = "lay"
  <2>1. List \in Range(LayLists)
    BY <1>1, <1>4 DEF List, ListOf, Range
  <2>. QED BY <1>2, <1>3, <1>4, <2>1, CellviewsAssumption DEF EntryType, EntryCv, Source
<1>5. CASE call.op = "sch"
  <2>1. List \in Range(SchLists)
    BY <1>1, <1>5 DEF List, ListOf, Range
  <2>2. IsSchCellview(Entry.cv) /\ (Entry.cv.sym # NoSym => IsSchCellview(Entry.cv.sym))
    BY <1>2, <2>1, CellviewsAssumption
  <2>3. ~call.isSch => Entry.cv.sym # NoSym
    BY <1>5 DEF Saved
  <2>. QED BY <1>3, <1>5, <2>2, <2>3 DEF EntryType, EntryCv, Source
<1>. QED BY <1>1, <1>4, <1>5

\* A step within the entry leaves what the call is about as it is.
LEMMA SameEntry ==
  ASSUME IInv, Writing, NEW at, call' = [call EXCEPT !.at = at]
  PROVE  /\ call'.at = at /\ call'.op = call.op /\ call'.renames = call.renames
         /\ call'.isSch = call.isSch /\ call'.k = call.k
         /\ EntryKey' = EntryKey /\ List' = List /\ Source' = Source /\ Entry' = Entry
<1>1. call' = [op |-> call.op, at |-> at, list |-> call.list, k |-> call.k,
               isSch |-> call.isSch, renames |-> call.renames]
  BY WritingFacts
<1>. QED BY <1>1 DEF EntryKey, Entry, EntryView, List, ListOf, Source, EntryType

\* A step of a list that saves nothing and, when it is past the building of the entry,
\* leaves its design as it was written.
LEMMA StepSaved ==
  ASSUME IInv, Saved, Writing, NEW at, call' = [call EXCEPT !.at = at],
         UNCHANGED <<disk, written>>,
         at \notin {"tech", "open", "build"} => WrittenFrom(open'[EntryKey], Source, List.lib),
         at \notin {"tech", "open", "build", "save"} => AtEntry /\ call.at \notin {"build", "save"}
  PROVE  Saved'
<1>1. (call.op = "lay" => RenamesSaved(DOMAIN disk, List.lib, call.renames))'
  BY SameEntry DEF Saved, RenamesSaved
<1>2. (call.op = "sch" /\ ~call.isSch => call.k <= Len(List.entries) /\ Entry.cv.sym # NoSym)'
  BY SameEntry DEF Saved
<1>3. (AtEntry /\ call.at # "build" => WrittenFrom(open[EntryKey], Source, List.lib))'
  BY SameEntry DEF AtEntry
<1>4. (AtEntry /\ call.at \notin {"build", "save"} =>
         EntryKey \in DOMAIN written /\ written[EntryKey] = Source)'
  BY SameEntry DEF AtEntry, Saved
<1>. QED BY <1>1, <1>2, <1>3, <1>4, KeepsSaved DEF Saved

LEMMA FailSaved ==
  ASSUME Saved, NEW c, Fail(c)
  PROVE  Saved'
BY QuietSaved DEF Fail, stored, Idle, Writing

LEMMA EndsSaved ==
  ASSUME Saved, ProcessEnds
  PROVE  Saved'
BY QuietSaved DEF ProcessEnds, stored, Idle, Writing

LEMMA OpenSaved ==
  ASSUME IInv, Saved, ReadTech \/ OpenDesign
  PROVE  Saved'
<1>1. CASE Fail(call)
  BY <1>1, FailSaved
<1>2. CASE ~Fail(call)
  <2>1. Writing /\ UNCHANGED <<disk, written>>
    BY <1>2 DEF ReadTech, OpenDesign, At, Writing
  <2>2. \E at \in {"open", "build"} : call' = [call EXCEPT !.at = at]
    BY <1>2 DEF ReadTech, OpenDesign, WriteStep
  <2>. QED BY <2>1, <2>2, StepSaved
<1>. QED BY <1>1, <1>2

LEMMA BuildSchSaved ==
  ASSUME IInv, Saved, BuildSch
  PROVE  Saved'
<1>1. CASE Fail(call)
  BY <1>1, FailSaved
<1>2. CASE ~Fail(call)
  <2>1. call.op = "sch" /\ Writing /\ AtEntry
    BY DEF BuildSch, At, Writing, AtEntry
  <2>2. /\ Writable(Masters, List.lib, call.renames, EntryCv, EntryType)
        /\ open' = [open EXCEPT ![EntryKey] =
                      WriteSchCellview(Masters, List.lib, call.renames, EntryCv, EntryType)]
        /\ call' = [call EXCEPT !.at = "save"] /\ UNCHANGED <<disk, written>>
    BY <1>2 DEF BuildSch, WriteStep
  <2>3. open'[EntryKey] = WriteSchCellview(Masters, List.lib, call.renames, EntryCv, EntryType)
    BY <2>1, <2>2 DEF IInv, AtList
  <2>4. SavedWell(open'[EntryKey], Source, List.lib)
    BY <2>1, <2>2, <2>3, EntryCellview, WritesSchematic
  <2>5. WrittenFrom(open'[EntryKey], Source, List.lib)
    BY <2>1, <2>4, EntryCellview DEF WrittenFrom
  <2>. QED BY <2>1, <2>2, <2>5, StepSaved
<1>. QED BY <1>1, <1>2

LEMMA BuildLaySaved ==
  ASSUME IInv, Saved, BuildLay
  PROVE  Saved'
<1>1. call.op = "lay" /\ Writing /\ AtEntry
  BY DEF BuildLay, At, Writing, AtEntry
<1>2. /\ open' = [open EXCEPT ![EntryKey] = WriteLayCellview(EntryCv, List.lib, LayView, call.renames)]
      /\ call' = [call EXCEPT !.at = "save"] /\ UNCHANGED <<disk, written>>
  BY DEF BuildLay, WriteStep
<1>3. open'[EntryKey] = WriteLayCellview(EntryCv, List.lib, LayView, call.renames)
  BY <1>1, <1>2 DEF IInv, AtList
<1>4. WrittenFrom(open'[EntryKey], Source, List.lib)
  BY <1>1, <1>3, EntryCellview, WritesLayout DEF WrittenFrom
<1>. QED BY <1>1, <1>2, <1>4, StepSaved

LEMMA SaveSaved ==
  ASSUME IInv, Saved, Save
  PROVE  Saved'
<1>1. Writing /\ AtEntry /\ call.at = "save"
  BY DEF Save, AtEntry
<1>2. PICK at \in {"cellData", "close"} : call' = [call EXCEPT !.at = at]
  BY DEF Save, WriteStep
<1>3. /\ disk' = InsertOrAssign(disk, EntryKey, open[EntryKey])
      /\ written' = InsertOrAssign(written, EntryKey, Source) /\ open' = open
  BY DEF Save
<1>4. WrittenFrom(open[EntryKey], Source, List.lib)
  BY <1>1 DEF Saved
<1>5. /\ DOMAIN disk \subseteq DOMAIN disk' /\ disk'[EntryKey] = open[EntryKey]
      /\ \A k \in DOMAIN disk \ {EntryKey} : disk'[k] = disk[k]
      /\ DOMAIN written' = DOMAIN written \cup {EntryKey} /\ written'[EntryKey] = Source
      /\ \A k \in DOMAIN written \ {EntryKey} : written'[k] = written[k]
  BY <1>3 DEF InsertOrAssign
<1>6. ASSUME NEW lib, NEW renames, RenamesSaved(DOMAIN disk, lib, renames)
      PROVE  RenamesSaved(DOMAIN disk', lib, renames)
  BY <1>5, <1>6 DEF RenamesSaved
<1>7. EntryKey[1] = List.lib
  BY DEF EntryKey
<1>8. (\A k \in DOMAIN written :
         /\ WrittenFrom(disk[k], written[k], k[1])
         /\ written[k].type = "layout" => RenamesSaved(DOMAIN disk, k[1], written[k].renames))'
  <2>. SUFFICES ASSUME NEW k \in DOMAIN written'
                PROVE  /\ WrittenFrom(disk'[k], written'[k], k[1])
                       /\ written'[k].type = "layout" => RenamesSaved(DOMAIN disk', k[1], written'[k].renames)
    BY DEF WrittenFrom
  <2>1. CASE k = EntryKey
    <3>1. Source.type = "layout" => RenamesSaved(DOMAIN disk, List.lib, Source.renames)
      BY <1>1, EntryCellview, WritingFacts DEF Saved
    <3>. QED BY <1>4, <1>5, <1>6, <1>7, <2>1, <3>1
  <2>2. CASE k # EntryKey
    <3>1. k \in DOMAIN written /\ k \in DOMAIN disk
      BY <1>5, <2>2 DEF IInv, Keys
    <3>2. disk'[k] = disk[k] /\ written'[k] = written[k]
      BY <1>5, <2>2, <3>1
    <3>. QED BY <1>6, <3>1, <3>2 DEF Saved
  <2>. QED BY <2>1, <2>2
<1>9. (call.op = "lay" => RenamesSaved(DOMAIN disk, List.lib, call.renames))'
  BY <1>1, <1>2, <1>6, SameEntry DEF Saved
<1>10. (call.op = "sch" /\ ~call.isSch => call.k <= Len(List.entries) /\ Entry.cv.sym # NoSym)'
  BY <1>1, <1>2, SameEntry DEF Saved
<1>11. /\ WrittenFrom(open[EntryKey], Source, List.lib)'
       /\ (EntryKey \in DOMAIN written /\ written[EntryKey] = Source)'
  BY <1>1, <1>2, <1>3, <1>4, <1>5, SameEntry
<1>. QED BY <1>8, <1>9, <1>10, <1>11 DEF Saved

LEMMA DataSaved ==
  ASSUME IInv, Saved, WriteCellData \/ WriteCellViewData
  PROVE  Saved'
<1>1. Writing /\ AtEntry /\ call.at \notin {"build", "save"} /\ UNCHANGED <<disk, written, open>>
  BY DEF WriteCellData, WriteCellViewData, At, Writing, AtEntry
<1>2. PICK at \in {"viewData", "stamp"} : call' = [call EXCEPT !.at = at]
  BY DEF WriteCellData, WriteCellViewData, WriteStep
<1>3. WrittenFrom(open'[EntryKey], Source, List.lib)
  BY <1>1 DEF Saved
<1>. QED BY <1>1, <1>2, <1>3, StepSaved

LEMMA StampSaved ==
  ASSUME IInv, Saved, Stamp
  PROVE  Saved'
<1>1. /\ call.op = "sch" /\ Writing /\ AtEntry /\ call.at \notin {"build", "save"}
      /\ UNCHANGED <<disk, written>>
      /\ open' = [open EXCEPT ![EntryKey] = Stamped(@)] /\ call' = [call EXCEPT !.at = "close"]
  BY DEF Stamp, At, Writing, AtEntry, WriteStep
<1>2. open'[EntryKey] = Stamped(open[EntryKey])
  BY <1>1 DEF IInv, AtList
<1>3. SavedWell(open[EntryKey], Source, List.lib) /\ Source.type # "layout"
  BY <1>1, EntryCellview DEF Saved, WrittenFrom
<1>4. WrittenFrom(open'[EntryKey], Source, List.lib)
  BY <1>2, <1>3, StampReadsBack DEF WrittenFrom
<1>. QED BY <1>1, <1>4, StepSaved

LEMMA CloseSaved ==
  ASSUME IInv, Saved, Close
  PROVE  Saved'
<1>1. Writing /\ AtEntry /\ call.at = "close"
  BY DEF Close, AtEntry
<1>2. /\ WrittenFrom(open[EntryKey], Source, List.lib)
      /\ EntryKey \in DOMAIN written /\ EntryKey \in DOMAIN disk /\ written[EntryKey] = Source
  BY <1>1 DEF Saved, IInv, Keys
<1>3. /\ DOMAIN disk' = DOMAIN disk /\ disk'[EntryKey] = open[EntryKey]
      /\ \A k \in DOMAIN disk \ {EntryKey} : disk'[k] = disk[k]
      /\ written' = written
  BY <1>2 DEF Close
<1>4. EntryKey[1] = List.lib
  BY DEF EntryKey
<1>6. (\A k \in DOMAIN written :
         /\ WrittenFrom(disk[k], written[k], k[1])
         /\ written[k].type = "layout" => RenamesSaved(DOMAIN disk, k[1], written[k].renames))'
  <2>. SUFFICES ASSUME NEW k \in DOMAIN written
                PROVE  /\ WrittenFrom(disk'[k], written[k], k[1])
                       /\ written[k].type = "layout" => RenamesSaved(DOMAIN disk', k[1], written[k].renames)
    BY <1>3 DEF WrittenFrom
  <2>1. k \in DOMAIN disk
    BY DEF IInv, Keys
  <2>. QED BY <1>2, <1>3, <1>4, <2>1 DEF Saved
<1>7. /\ call'.at = "open" /\ call'.op = call.op /\ List' = List
      /\ SymbolNext => call'.isSch = FALSE /\ call'.k = call.k /\ call'.renames = call.renames
      /\ ~SymbolNext => /\ call'.isSch = TRUE
                        /\ call'.renames = InsertOrAssign(call.renames, Entry.cv.cell, Entry.name)
  <2>1. CASE SymbolNext
    <3>1. call' = [op |-> call.op, at |-> "open", list |-> call.list, k |-> call.k,
                    isSch |-> FALSE, renames |-> call.renames]
      BY <1>1, <2>1, WritingFacts DEF Close, Advanced
    <3>. QED BY <2>1, <3>1 DEF List, ListOf
  <2>2. CASE ~SymbolNext
    <3>1. call' = [op |-> call.op, at |-> "open", list |-> call.list, k |-> call.k + 1,
                   isSch |-> TRUE, renames |-> InsertOrAssign(call.renames, Entry.cv.cell, Entry.name)]
      BY <1>1, <2>2, WritingFacts DEF Close, Advanced
    <3>. QED BY <2>2, <3>1 DEF List, ListOf
  <2>. QED BY <2>1, <2>2
<1>8. (call.op = "lay" => RenamesSaved(DOMAIN disk, List.lib, call.renames))'
  <2>. SUFFICES ASSUME call.op = "lay" PROVE RenamesSaved(DOMAIN disk', List.lib, call'.renames)
    BY <1>7
  <2>1. ~SymbolNext /\ EntryKey = <<List.lib, Entry.name, LayView>>
    BY DEF SymbolNext, EntryType, EntryKey, EntryView
  <2>2. RenamesSaved(DOMAIN disk, List.lib, call.renames)
    BY DEF Saved
  <2>. QED BY <1>2, <1>3, <1>7, <2>1, <2>2 DEF RenamesSaved, InsertOrAssign
<1>9. (call.op = "sch" /\ ~call.isSch => call.k <= Len(List.entries) /\ Entry.cv.sym # NoSym)'
  <2>. SUFFICES ASSUME SymbolNext PROVE call'.k <= Len(List.entries) /\ (Entry.cv.sym # NoSym)'
    BY <1>7
  <2>. QED BY <1>1, <1>7 DEF SymbolNext, Entry, IInv, AtList
<1>10. ~AtEntry'
  BY <1>7 DEF AtEntry
<1>. QED BY <1>6, <1>8, <1>9, <1>10 DEF Saved

LEMMA UndefinedSaved ==
  ASSUME Saved, BuildUndefined \/ StampUndefined
  PROVE  Saved'
BY FailSaved, EndsSaved DEF BuildUndefined, StampUndefined

\* The steps of the other calls, and those that end one.
LEMMA OtherSaved ==
  ASSUME IInv, Saved,
         \/ AttachTech \/ AppendDefine \/ ListDone
         \/ ReadSchematic \/ ReadSymbol \/ FinishCell \/ VisitMaster \/ CellDone \/ NextCell \/ LibraryDone
         \/ OaThrows
  PROVE  Saved'
<1>1. UNCHANGED <<disk, written>>
  BY DEF AttachTech, AppendDefine, ListDone, ReadSchematic, ReadSymbol, FinishCell, VisitMaster, CellDone,
     NextCell, LibraryDone, OaThrows, Fail, ReadStep, ReadFails, stored
<1>2. CASE call' = Idle
  BY <1>1, <1>2, QuietSaved DEF Idle, Writing
<1>3. CASE call' # Idle
  <2>1. call.op \in {"lib", "recursive", "library"} /\ call'.op = call.op
    <3>1. CASE AttachTech
      <4>1. call.op = "lib" /\ call' = [call EXCEPT !.at = "define"]
        BY <1>3, <3>1 DEF AttachTech, At, Fail
      <4>2. call = [op |-> "lib", at |-> call.at, lib |-> call.lib, tech |-> call.tech]
        BY <4>1 DEF IInv, CallShape
      <4>. QED BY <4>1, <4>2
    <3>2. CASE ReadOp
      <4>1. call.op \in {"recursive", "library"} /\
            call = [op |-> call.op, root |-> call.root, stack |-> call.stack, out |-> call.out,
                    seen |-> call.seen, left |-> call.left]
        BY <3>2 DEF ReadOp, IInv, CallShape
      <4>2. ~Writing /\ call.op # "lib"
        BY <4>1 DEF Writing
      <4>3. call'.op = call.op
        BY <1>3, <4>1, <4>2 DEF AttachTech, AppendDefine, ListDone, At, ReadSchematic, ReadSymbol, FinishCell,
           VisitMaster, CellDone, NextCell, LibraryDone, OaThrows, Fail, ReadStep, ReadFails, Return
      <4>. QED BY <4>1, <4>3
    <3>. QED BY <1>3, <3>1, <3>2 DEF AppendDefine, ListDone, ReadSchematic, ReadSymbol, FinishCell,
           VisitMaster, CellDone, NextCell, LibraryDone, OaThrows, Return, Reading, ReadOp
  <2>. QED BY <1>1, <2>1, QuietSaved DEF Writing
<1>. QED BY <1>2, <1>3

LEMMA RequestSaved ==
  ASSUME IInv, Saved,
         \/ \E c \in Roots : ReadSchRecursive(c)
         \/ \E l \in Libraries : ReadLibrary(l)
         \/ \E l \in YamlLibs : AddYamlPath(l)
         \/ \E l \in PrimLibs : AddPrimitiveLib(l)
         \/ \E l \in NewLibs, tech \in Libraries : CreateLib(l, tech)
         \/ Destroy
  PROVE  Saved'
<1>1. UNCHANGED <<disk, written>>
  BY DEF ReadSchRecursive, ReadLibrary, AddYamlPath, AddPrimitiveLib, CreateLib, Destroy, Begin, stored
<1>2. ~Writing'
  BY DEF ReadSchRecursive, ReadLibrary, AddYamlPath, AddPrimitiveLib, CreateLib, Destroy, Begin, Return,
     Idle, Writing
<1>. QED BY <1>1, <1>2, QuietSaved

LEMMA NextSaved == IInv /\ Saved /\ [Next]_vars => Saved'
<1>. SUFFICES ASSUME IInv, Saved, [Next]_vars PROVE Saved'
  OBVIOUS
<1>1. CASE Request
  BY <1>1, ImplementSaved, RequestSaved DEF Request
<1>2. CASE Step
  BY <1>2, OpenSaved, BuildSchSaved, BuildLaySaved, SaveSaved, DataSaved, StampSaved, CloseSaved,
     UndefinedSaved, OtherSaved DEF Step
<1>3. CASE OaThrows
  BY <1>3, OtherSaved
<1>4. CASE Crash
  BY <1>4, EndsSaved DEF Crash
<1>5. CASE Destroy
  BY <1>5, RequestSaved
<1>6. CASE UNCHANGED vars
  BY <1>6 DEF vars, Saved, RenamesSaved, Writing, AtEntry, List, ListOf, Entry, EntryKey, EntryView, Source,
     EntryType
<1>. QED BY <1>1, <1>2, <1>3, <1>4, <1>5, <1>6 DEF Next

LEMMA AlwaysSaved == Spec => []Saved
<1>1. Init => Saved
  BY InitSaved
<1>. QED BY <1>1, NextSaved, Invariant, PTL DEF Spec

\* Every schematic and symbol that was ever saved reads back as what it was written from.
THEOREM AlwaysReadBack == Spec => []ReadBack
<1>1. IInv /\ Saved => ReadBack
  <2>. SUFFICES ASSUME IInv, Saved, NEW k \in DOMAIN written, written[k].type # "layout"
                PROVE  ReadsBack(disk[k], written[k], k[1], prims)
    BY DEF ReadBack
  <2>1. prims \in SUBSET Libraries
    BY DEF IInv, Keys
  <2>. QED BY <2>1 DEF Saved, WrittenFrom, SavedWell
<1>. QED BY <1>1, Invariant, AlwaysSaved, PTL

\* Every layout that was saved is written in full.
THEOREM AlwaysLayoutSaved == Spec => []LayoutSaved
<1>1. Saved => LayoutSaved
  BY DEF Saved, LayoutSaved, WrittenFrom, RenamesSaved
<1>. QED BY <1>1, AlwaysSaved, PTL

-----------------------------------------------------------------------------
(***************************************************************************)
(* The entries of a list of schematics, up to the current one, are         *)
(* complete.                                                               *)
(***************************************************************************)

\* The schematic that is being written, from the step that saves it to the one that closes it.
EntryComplete ==
  LET k == EntryKey
      e == <<List.lib, Entry.name>>
  IN /\ call.at # "build" =>
          /\ Connected(open[k], List, call.k)
          /\ "portOrder" \in DOMAIN EntryCv.props => open[k].props["portOrder"].val = TermOrder(EntryCv.terms)
     /\ call.at \notin {"build", "save", "cellData"} =>
          e \in DOMAIN cells /\ cells[e] = TermOrder(EntryCv.terms)
     /\ call.at \notin {"build", "save", "cellData", "viewData"} => k \in DOMAIN views
     /\ call.at \notin {"build", "save", "cellData", "viewData", "stamp"} =>
          \A p \in Timestamps : open[k].props[p].val = "updated"

\* The entries before the current one are complete, and the current one is as far as it
\* has come; no call that is under way has a predecessor that counts.
Progress ==
  /\ call # Idle => last = NoCall
  /\ call.op = "sch" =>
       /\ \A n \in DOMAIN List.entries :
            /\ n < call.k => SchComplete(List, n) /\ SymComplete(List, n)
            /\ n = call.k /\ ~call.isSch => SchComplete(List, n)
       /\ call.at \in {"cellData", "viewData", "stamp"} => call.isSch
       /\ AtEntry /\ call.isSch => EntryComplete
  /\ ListComplete

\* What another entry writes: its own design, and its own cell's data.
WritesEntry ==
  /\ \A x : x # EntryKey => /\ x \in DOMAIN open' <=> x \in DOMAIN open
                            /\ x \in DOMAIN open => open'[x] = open[x]
                            /\ x \in DOMAIN disk' <=> x \in DOMAIN disk
                            /\ x \in DOMAIN disk => disk'[x] = disk[x]
  /\ DOMAIN disk \subseteq DOMAIN disk' /\ DOMAIN views \subseteq DOMAIN views' /\ clean' = clean
  /\ \A x \in DOMAIN cells : (x # <<List.lib, Entry.name>> \/ ~call.isSch) =>
                              x \in DOMAIN cells' /\ cells'[x] = cells[x]

\* Connections to masters that are not written later stay.
LEMMA StaysConnected ==
  ASSUME IInv, WritesEntry, call.op = "sch", call.k \in DOMAIN List.entries,
         NEW list, list = List, NEW n \in DOMAIN list.entries, n <= call.k,
         NEW d, Connected(d, list, n)
  PROVE  Connected(d, list, n)'
<1>1. ASSUME NEW m, ~Replaced(list, n, m),
             m \in DOMAIN (IF clean THEN disk ELSE Masters)
      PROVE  m \in (DOMAIN (IF clean THEN disk ELSE Masters))' /\ Masters'[m] = Masters[m]
  <2>1. m # EntryKey
    <3>1. EntryKey[1] = list.lib /\ EntryKey[2] = list.entries[call.k].name
      BY DEF EntryKey, Entry
    <3>. QED BY <1>1, <3>1 DEF Replaced
  <2>2. m \in DOMAIN disk \cup DOMAIN open
    BY <1>1 DEF Masters
  <2>3. /\ m \in DOMAIN open' <=> m \in DOMAIN open
        /\ m \in DOMAIN open => open'[m] = open[m]
        /\ m \in DOMAIN disk => disk'[m] = disk[m]
        /\ m \in DOMAIN disk' <=> m \in DOMAIN disk
        /\ clean' = clean
    BY <2>1 DEF WritesEntry
  <2>4. Current(m)' = Current(m)
    BY <2>2, <2>3 DEF Current
  <2>5. Masters[m] = Current(m)
    BY <2>2 DEF Masters
  <2>6. m \in DOMAIN disk' \cup DOMAIN open'
    BY <2>2, <2>3
  <2>7. Masters'[m] = Current(m)'
    BY <2>6 DEF Masters
  <2>8. m \in (DOMAIN (IF clean THEN disk ELSE Masters))'
    <3>1. CASE clean
      BY <1>1, <2>3, <3>1
    <3>2. CASE ~clean
      BY <2>3, <2>6, <3>2 DEF Masters
    <3>. QED BY <3>1, <3>2
  <2>. QED BY <2>4, <2>5, <2>7, <2>8
<1>. SUFFICES ASSUME NEW i \in {x \in DOMAIN d.insts : ~d.insts[x].pin}, ~Replaced(list, n, d.insts[i].master)
              PROVE  /\ d.insts[i].master \in (DOMAIN (IF clean THEN disk ELSE Masters))'
                     /\ DOMAIN d.insts[i].conns = DOMAIN Masters'[d.insts[i].master].terms
  BY DEF Connected
<1>. DEFINE m == d.insts[i].master
<1>2. m \in DOMAIN (IF clean THEN disk ELSE Masters) /\ DOMAIN d.insts[i].conns = DOMAIN Masters[m].terms
  BY DEF Connected
<1>. QED BY <1>1, <1>2

\* The key of another schematic of the list.
LEMMA OtherKey ==
  ASSUME IInv, call.op = "sch", call.k \in DOMAIN List.entries,
         NEW n \in DOMAIN List.entries, n < call.k \/ (n = call.k /\ ~call.isSch)
  PROVE  /\ <<List.lib, List.entries[n].name, SchView>> # EntryKey
         /\ <<List.lib, List.entries[n].name>> # <<List.lib, Entry.name>> \/ ~call.isSch
<1>1. List \in Range(SchLists)
  BY WritingFacts DEF List, ListOf, Range, Writing
<1>2. List.entries[n].name = List.entries[call.k].name => n = call.k
  BY <1>1, OaAssumption
<1>3. call.k \in Nat
  BY WritingFacts DEF Writing
<1>4. CASE n < call.k
  <2>1. n # call.k
    <3>1. DOMAIN List.entries = 1 .. Len(List.entries) /\ Len(List.entries) \in Nat
      BY WritingFacts, ListFacts DEF List, Writing
    <3>. QED BY <1>3, <1>4, <3>1
  <2>. QED BY <1>2, <2>1 DEF EntryKey, Entry
<1>5. CASE n = call.k /\ ~call.isSch
  BY <1>5, OaAssumption DEF EntryKey, EntryView
<1>. QED BY <1>4, <1>5

LEMMA StaysComplete ==
  ASSUME IInv, WritesEntry, call.op = "sch", call.k \in DOMAIN List.entries,
         NEW list, list = List, NEW n \in DOMAIN list.entries,
         n < call.k \/ (n = call.k /\ ~call.isSch),
         SchComplete(list, n)
  PROVE  SchComplete(list, n)'
<1>. DEFINE e == list.entries[n]
            k == <<list.lib, e.name, SchView>>
            c == <<list.lib, e.name>>
<1>1. k # EntryKey /\ (c # <<List.lib, Entry.name>> \/ ~call.isSch)
  BY OtherKey
<1>2. /\ k \in DOMAIN disk /\ k \in DOMAIN views /\ k \notin DOMAIN open
      /\ c \in DOMAIN cells /\ GoodOrder(cells[c], e.cv.terms)
      /\ "portOrder" \in DOMAIN e.cv.props => disk[k].props["portOrder"].val = cells[c]
      /\ \A p \in Timestamps : disk[k].props[p].val = "updated"
      /\ Connected(disk[k], list, n)
  BY DEF SchComplete
<1>. HIDE DEF k, c
<1>3. /\ disk'[k] = disk[k] /\ k \in DOMAIN disk' /\ k \in DOMAIN views' /\ k \notin DOMAIN open'
      /\ c \in DOMAIN cells' /\ cells'[c] = cells[c]
  BY <1>1, <1>2 DEF WritesEntry
<1>4. n <= call.k
  <2>1. DOMAIN List.entries = 1 .. Len(List.entries) /\ Len(List.entries) \in Nat /\ call.k \in Nat
    BY WritingFacts, ListFacts DEF List, Writing
  <2>. QED BY <2>1
<1>5. ASSUME NEW d, d = disk[k] PROVE Connected(d, list, n)'
  BY <1>2, <1>4, <1>5, StaysConnected
<1>6. Connected(disk[k], list, n)'
  <2>1. PICK d : d = disk[k]
    OBVIOUS
  <2>2. Connected(d, list, n)' /\ disk'[k] = d
    BY <1>3, <1>5, <2>1
  <2>. QED BY <2>2 DEF Connected
<1>. QED BY <1>2, <1>3, <1>6 DEF SchComplete, k, c

LEMMA InitProgress == Init => Progress
BY DEF Init, Progress, ListComplete, Idle, NoCall

\* A step to a call that writes no schematics.
LEMMA QuietProgress ==
  ASSUME Progress, call'.op # "sch", call' # Idle => last' = NoCall,
         \/ last'.op # "sch" \/ last'.ok = FALSE
         \/ UNCHANGED <<disk, cells, views, open, clean, last>>
  PROVE  Progress'
<1>1. ListComplete'
  <2>1. CASE last'.op # "sch" \/ last'.ok = FALSE
    BY <2>1 DEF ListComplete
  <2>2. CASE UNCHANGED <<disk, cells, views, open, clean, last>>
    <3>1. Masters' = Masters
      BY <2>2 DEF Masters, Current
    <3>2. \A d, list, n : Connected(d, list, n) => Connected(d, list, n)'
      BY <2>2, <3>1 DEF Connected
    <3>3. ASSUME NEW list, NEW n, SchComplete(list, n) PROVE SchComplete(list, n)'
      BY <2>2, <3>2, <3>3 DEF SchComplete
    <3>4. ListComplete
      BY DEF Progress
    <3>. QED BY <2>2, <3>3, <3>4 DEF ListComplete, SymComplete
  <2>. QED BY <2>1, <2>2
<1>. QED BY <1>1 DEF Progress

\* A step of the entry that is under way.
LEMMA StepProgress ==
  ASSUME IInv, Progress, call.op = "sch", call.k \in DOMAIN List.entries, WritesEntry,
         NEW at, call' = [call EXCEPT !.at = at], last' = last,
         at \in {"cellData", "viewData", "stamp"} => call.isSch,
         call.isSch => EntryComplete'
  PROVE  Progress'
<1>1. Writing /\ call # Idle
  BY DEF Writing, Idle
<1>2. /\ call'.at = at /\ call'.op = "sch" /\ call'.isSch = call.isSch /\ call'.k = call.k
      /\ List' = List
  BY <1>1, SameEntry
<1>3. last' = NoCall
  BY <1>1 DEF Progress
<1>4. ListComplete'
  BY <1>3 DEF ListComplete, NoCall
<1>5. ASSUME NEW n \in DOMAIN List.entries
      PROVE  /\ n < call.k => SchComplete(List, n)' /\ SymComplete(List, n)'
             /\ n = call.k /\ ~call.isSch => SchComplete(List, n)'
  <2>1. PICK list : list = List
    OBVIOUS
  <2>2. ASSUME n < call.k \/ (n = call.k /\ ~call.isSch) PROVE SchComplete(list, n)'
    <3>1. SchComplete(list, n)
      BY <2>1, <2>2 DEF Progress
    <3>. QED BY <2>1, <2>2, <3>1, StaysComplete
  <2>3. ASSUME n < call.k PROVE SymComplete(list, n)'
    BY <2>1, <2>3 DEF Progress, SymComplete, WritesEntry
  <2>4. list = List'
    BY <1>2, <2>1
  <2>5. SchComplete(list, n)' => SchComplete(List, n)'
    BY <2>4 DEF SchComplete, Connected
  <2>6. SymComplete(list, n)' => SymComplete(List, n)'
    BY <2>4 DEF SymComplete
  <2>. QED BY <2>2, <2>3, <2>5, <2>6
<1>. QED BY <1>2, <1>3, <1>4, <1>5 DEF Progress

\* Another design in memory and another saved one, under the key of the entry.
LEMMA WritesDesign ==
  ASSUME NEW d, \/ open' = open \/ open' = InsertOrAssign(open, EntryKey, d)
                \/ open' = [open EXCEPT ![EntryKey] = d] \/ open' = Erase(open, EntryKey),
         NEW e, \/ disk' = disk \/ disk' = InsertOrAssign(disk, EntryKey, e)
                \/ disk' = [disk EXCEPT ![EntryKey] = e],
         NEW o, cells' = cells \/ (cells' = InsertOrAssign(cells, <<List.lib, Entry.name>>, o) /\ call.isSch),
         NEW v, views' = views \/ views' = InsertOrAssign(views, EntryKey, v),
         clean' = clean
  PROVE  WritesEntry
BY DEF WritesEntry, InsertOrAssign, Erase

LEMMA FailProgress ==
  ASSUME Progress, Fail(call)
  PROVE  Progress'
BY QuietProgress DEF Fail, Idle

LEMMA EndsProgress ==
  ASSUME Progress, ProcessEnds
  PROVE  Progress'
BY QuietProgress DEF ProcessEnds, Idle, NoCall

LEMMA ImplementProgress ==
  ASSUME Progress, \/ \E l \in DOMAIN SchLists : ImplementSchList(l)
                   \/ \E l \in DOMAIN LayLists : ImplementLayList(l)
  PROVE  Progress'
<1>1. last' = NoCall
  BY DEF ImplementSchList, ImplementLayList, Begin
<1>2. ListComplete'
  BY <1>1 DEF ListComplete, NoCall
<1>3. CASE \E l \in DOMAIN LayLists : ImplementLayList(l)
  BY <1>1, <1>2, <1>3 DEF ImplementLayList, Progress
<1>4. CASE \E l \in DOMAIN SchLists : ImplementSchList(l)
  <2>1. PICK l \in DOMAIN SchLists : call' = [op |-> "sch", at |-> "open", list |-> l, k |-> 1,
                                              isSch |-> TRUE, renames |-> << >>]
    BY <1>4 DEF ImplementSchList
  <2>2. List' = ListOf("sch", l)
    BY <2>1 DEF List
  <2>3. \A n \in DOMAIN List'.entries : ~(n < 1)
    BY <2>1, <2>2, ListFacts
  <2>4. ~AtEntry'
    BY <2>1 DEF AtEntry
  <2>. QED BY <1>1, <1>2, <2>1, <2>3, <2>4 DEF Progress
<1>. QED BY <1>3, <1>4

LEMMA OpenProgress ==
  ASSUME IInv, Progress, ReadTech \/ OpenDesign
  PROVE  Progress'
<1>1. CASE Fail(call)
  BY <1>1, FailProgress
<1>2. CASE ReadTech /\ ~Fail(call)
  <2>1. call.op = "lay" /\ call' = [call EXCEPT !.at = "open"] /\ last' = last
    BY <1>2 DEF ReadTech, WriteStep, At
  <2>2. call'.op = "lay"
    BY <2>1, SameEntry DEF Writing
  <2>3. last' = NoCall
    BY <2>1 DEF Progress, Idle
  <2>. QED BY <2>2, <2>3, QuietProgress DEF NoCall
<1>3. CASE OpenDesign /\ ~Fail(call)
  <2>. DEFINE d == IF EntryType = "layout" THEN EmptyLayout ELSE EmptyDesign(EntryType)
  <2>1. /\ Writing /\ call.k <= Len(List.entries) /\ call' = [call EXCEPT !.at = "build"]
        /\ open' = InsertOrAssign(open, EntryKey, d) /\ last' = last
        /\ UNCHANGED <<disk, cells, views, clean>>
    BY <1>3 DEF OpenDesign, WriteStep
  <2>2. CASE call.op = "lay"
    <3>1. call'.op = "lay" /\ last' = NoCall
      BY <2>1, <2>2, SameEntry DEF Progress, Idle
    <3>. QED BY <3>1, QuietProgress DEF NoCall
  <2>3. CASE call.op = "sch"
    <3>1. call.k \in DOMAIN List.entries
      BY <2>1, WritingFacts, ListFacts DEF List
    <3>2. WritesEntry
      BY <2>1, WritesDesign
    <3>3. EntryComplete'
      BY <2>1, SameEntry DEF EntryComplete
    <3>. QED BY <2>1, <2>3, <3>1, <3>2, <3>3, StepProgress
  <2>. QED BY <2>1, <2>2, <2>3 DEF Writing
<1>. QED BY <1>1, <1>2, <1>3

LEMMA BuildLayProgress ==
  ASSUME IInv, Progress, Writing, call.op = "lay", NEW at, call' = [call EXCEPT !.at = at], last' = last
  PROVE  Progress'
<1>1. call'.op = "lay" /\ last' = NoCall
  BY SameEntry DEF Progress, Idle
<1>. QED BY <1>1, QuietProgress DEF NoCall

\* What the entry's cellview and position are.
LEMMA AtEntryFacts ==
  ASSUME IInv, Saved, Progress, AtEntry, call.op = "sch"
  PROVE  /\ Writing /\ call.k \in DOMAIN List.entries /\ EntryKey \in DOMAIN open
         /\ IsSchCellview(EntryCv)
         /\ call.isSch => EntryType = "schematic" /\ EntryCv = Entry.cv /\ EntryComplete
         /\ ~call.isSch => EntryType = "symbol"
<1>1. /\ Writing /\ call.list \in DOMAIN SchLists /\ call.k \in Nat \ {0}
      /\ call.k <= Len(List.entries) /\ EntryKey \in DOMAIN open
  BY WritingFacts DEF AtEntry, IInv, AtList
<1>2. call.k \in DOMAIN List.entries
  BY <1>1, ListFacts DEF List
<1>3. IsSchCellview(EntryCv)
  BY EntryCellview
<1>4. call.isSch => EntryComplete
  BY DEF Progress
<1>. QED BY <1>1, <1>2, <1>3, <1>4 DEF EntryType, EntryCv

\* A design that was built connects its instances to the masters.
LEMMA BuiltConnected ==
  ASSUME IInv, AtEntry, call.op = "sch", call.k \in DOMAIN List.entries,
         NEW cv, IsSchCellview(cv), NEW type,
         Writable(Masters, List.lib, call.renames, cv, type),
         NEW d, d = WriteSchCellview(Masters, List.lib, call.renames, cv, type)
  PROVE  Connected(d, List, call.k)
<1>. SUFFICES ASSUME NEW i \in {x \in DOMAIN d.insts : ~d.insts[x].pin}, ~Replaced(List, call.k, d.insts[i].master)
              PROVE  /\ d.insts[i].master \in DOMAIN (IF clean THEN disk ELSE Masters)
                     /\ DOMAIN d.insts[i].conns = DOMAIN Masters[d.insts[i].master].terms
  BY DEF Connected
<1>1. /\ DOMAIN d.insts = {NameUnit(x) : x \in DOMAIN cv.insts} \cup PinNames(cv.terms)
      /\ \A x \in DOMAIN cv.insts :
           d.insts[NameUnit(x)] = WriteInst(Masters, List.lib, call.renames, cv.insts[x])
      /\ HasTerms(d, cv.terms)
  BY SchWritten
<1>2. PICK x \in DOMAIN cv.insts : i = NameUnit(x)
  BY <1>1 DEF HasTerms
<1>. DEFINE m == MasterOf(List.lib, call.renames, cv.insts[x])
<1>3. /\ d.insts[i].master = m
      /\ d.insts[i].conns = Only(cv.insts[x].conns, DOMAIN Masters[m].terms)
  <2>1. d.insts[i] = WriteInst(Masters, List.lib, call.renames, cv.insts[x])
    BY <1>1, <1>2
  <2>. QED BY <2>1 DEF WriteInst
<1>4. m \in DOMAIN Masters /\ DOMAIN Masters[m].terms \subseteq DOMAIN cv.insts[x].conns
  BY DEF Writable, Connectable
<1>5. DOMAIN d.insts[i].conns = DOMAIN Masters[m].terms
  BY <1>3, <1>4 DEF Only
<1>6. m \in DOMAIN (IF clean THEN disk ELSE Masters)
  <2>1. m # EntryKey
    <3>1. EntryKey[1] = List.lib /\ EntryKey[2] = List.entries[call.k].name
      BY DEF EntryKey, Entry
    <3>2. call.k >= call.k
      BY WritingFacts DEF AtEntry
    <3>. QED BY <1>3, <3>1, <3>2 DEF Replaced
  <2>2. clean => DOMAIN open \subseteq {EntryKey}
    BY DEF IInv, OpenOK
  <2>. QED BY <1>4, <2>1, <2>2 DEF Masters
<1>. QED BY <1>3, <1>5, <1>6

LEMMA BuildSchProgress ==
  ASSUME IInv, Saved, Progress, BuildSch
  PROVE  Progress'
<1>1. CASE Fail(call)
  BY <1>1, FailProgress
<1>2. CASE ~Fail(call)
  <2>. DEFINE d == WriteSchCellview(Masters, List.lib, call.renames, EntryCv, EntryType)
  <2>1. call.op = "sch" /\ AtEntry
    BY DEF BuildSch, At, AtEntry, Writing
  <2>2. /\ Writable(Masters, List.lib, call.renames, EntryCv, EntryType)
        /\ open' = [open EXCEPT ![EntryKey] = d] /\ call' = [call EXCEPT !.at = "save"]
        /\ last' = last /\ UNCHANGED <<disk, cells, views, clean>>
    BY <1>2 DEF BuildSch, WriteStep
  <2>. HIDE DEF d
  <2>3. WritesEntry
    BY <2>2, WritesDesign
  <2>4. open'[EntryKey] = d
    BY <2>1, <2>2, AtEntryFacts
  <2>5. ASSUME call.isSch PROVE EntryComplete'
    <3>1. ASSUME NEW c, c = d PROVE Connected(c, List, call.k)
      BY <2>1, <2>2, <3>1, AtEntryFacts, BuiltConnected DEF d
    <3>2. "portOrder" \in DOMAIN EntryCv.props => d.props["portOrder"].val = TermOrder(EntryCv.terms)
      BY <2>1, <2>2, AtEntryFacts, SchWritten DEF d
    <3>3. PICK c : c = d
      OBVIOUS
    <3>4. PICK list : list = List
      OBVIOUS
    <3>5. PICK n : n = call.k
      OBVIOUS
    <3>6. n \in DOMAIN list.entries /\ n <= call.k
      <4>1. n \in Nat
        BY <2>1, <3>5, WritingFacts DEF AtEntry
      <4>. QED BY <2>1, <3>4, <3>5, <4>1, AtEntryFacts
    <3>7. Connected(c, list, n)'
      BY <2>1, <2>3, <3>1, <3>3, <3>4, <3>5, <3>6, AtEntryFacts, StaysConnected
    <3>8. /\ call'.at = "save" /\ call'.k = n /\ List' = list /\ EntryKey' = EntryKey
          /\ EntryCv' = EntryCv /\ open'[EntryKey'] = c
      BY <2>1, <2>2, <2>4, <3>3, <3>4, <3>5, SameEntry, AtEntryFacts DEF EntryCv, EntryType
    <3>9. Connected(open[EntryKey], List, call.k)'
      BY <3>7, <3>8 DEF Connected
    <3>. QED BY <3>2, <3>3, <3>8, <3>9 DEF EntryComplete
  <2>. QED BY <2>1, <2>2, <2>3, <2>5, StepProgress, AtEntryFacts
<1>. QED BY <1>1, <1>2

\* The connections of the design of the entry stay in steps that leave it its instances.
LEMMA StaysBuilt ==
  ASSUME IInv, Saved, Progress, AtEntry, call.op = "sch", call.isSch, call.at # "build",
         WritesEntry, NEW at, call' = [call EXCEPT !.at = at],
         open'[EntryKey].insts = open[EntryKey].insts
  PROVE  /\ Connected(open[EntryKey], List, call.k)'
         /\ EntryKey' = EntryKey /\ EntryCv' = EntryCv /\ call'.at = at
         /\ List' = List /\ Entry' = Entry
<1>1. /\ call'.k = call.k /\ List' = List /\ EntryKey' = EntryKey /\ EntryCv' = EntryCv /\ call'.at = at
      /\ Entry' = Entry
  BY SameEntry, AtEntryFacts DEF EntryCv, EntryType
<1>2. PICK d, list, n : d = open[EntryKey] /\ list = List /\ n = call.k
  OBVIOUS
<1>3. Connected(d, list, n)
  BY <1>2, AtEntryFacts DEF EntryComplete
<1>4. n \in DOMAIN list.entries /\ n <= call.k
  <2>1. n \in Nat
    BY <1>2, WritingFacts DEF AtEntry
  <2>. QED BY <1>2, <2>1, AtEntryFacts
<1>5. Connected(d, list, n)'
  BY <1>2, <1>3, <1>4, AtEntryFacts, StaysConnected
<1>6. Connected(open[EntryKey], List, call.k)'
  BY <1>1, <1>2, <1>5 DEF Connected
<1>. QED BY <1>1, <1>6

LEMMA SaveProgress ==
  ASSUME IInv, Saved, Progress, Save, call.op = "sch"
  PROVE  Progress'
<1>1. /\ AtEntry /\ call.at = "save" /\ open' = open /\ last' = last
      /\ disk' = InsertOrAssign(disk, EntryKey, open[EntryKey]) /\ UNCHANGED <<cells, views, clean>>
  BY DEF Save, AtEntry, WriteStep
<1>2. PICK at : /\ call' = [call EXCEPT !.at = at]
                /\ at = IF EntryType = "schematic" THEN "cellData" ELSE "close"
  BY DEF Save, WriteStep
<1>3. WritesEntry
  BY <1>1, WritesDesign
<1>4. ASSUME call.isSch PROVE EntryComplete'
  BY <1>1, <1>2, <1>3, <1>4, StaysBuilt, AtEntryFacts DEF EntryComplete
<1>. QED BY <1>1, <1>2, <1>3, <1>4, StepProgress, AtEntryFacts

LEMMA CellDataProgress ==
  ASSUME IInv, Saved, Progress, WriteCellData
  PROVE  Progress'
<1>1. /\ call.op = "sch" /\ AtEntry /\ call.at = "cellData" /\ call.isSch
      /\ open' = open /\ last' = last
      /\ cells' = InsertOrAssign(cells, <<List.lib, Entry.name>>, TermOrder(EntryCv.terms))
      /\ UNCHANGED <<disk, views, clean>> /\ call' = [call EXCEPT !.at = "viewData"]
  BY DEF WriteCellData, At, AtEntry, Writing, WriteStep, Progress
<1>2. WritesEntry
  BY <1>1, WritesDesign
<1>3. EntryComplete'
  <2>1. /\ <<List.lib, Entry.name>> \in DOMAIN cells'
        /\ cells'[<<List.lib, Entry.name>>] = TermOrder(EntryCv.terms)
    BY <1>1 DEF InsertOrAssign
  <2>. QED BY <1>1, <1>2, <2>1, StaysBuilt, AtEntryFacts DEF EntryComplete
<1>. QED BY <1>1, <1>2, <1>3, StepProgress, AtEntryFacts

LEMMA ViewDataProgress ==
  ASSUME IInv, Saved, Progress, WriteCellViewData
  PROVE  Progress'
<1>1. /\ call.op = "sch" /\ AtEntry /\ call.at = "viewData" /\ call.isSch
      /\ open' = open /\ last' = last
      /\ views' = InsertOrAssign(views, EntryKey, Dependencies(EntryCv))
      /\ UNCHANGED <<disk, cells, clean>> /\ call' = [call EXCEPT !.at = "stamp"]
  BY DEF WriteCellViewData, At, AtEntry, Writing, WriteStep, Progress
<1>2. WritesEntry
  BY <1>1, WritesDesign
<1>3. EntryComplete'
  <2>1. EntryKey \in DOMAIN views'
    BY <1>1 DEF InsertOrAssign
  <2>. QED BY <1>1, <1>2, <2>1, StaysBuilt, AtEntryFacts DEF EntryComplete
<1>. QED BY <1>1, <1>2, <1>3, StepProgress, AtEntryFacts

LEMMA StampProgress ==
  ASSUME IInv, Saved, Progress, Stamp
  PROVE  Progress'
<1>1. /\ call.op = "sch" /\ AtEntry /\ call.at = "stamp" /\ call.isSch
      /\ open' = [open EXCEPT ![EntryKey] = Stamped(@)] /\ last' = last
      /\ UNCHANGED <<disk, cells, views, clean>> /\ call' = [call EXCEPT !.at = "close"]
      /\ ~StampMissing(open[EntryKey])
  BY DEF Stamp, At, AtEntry, Writing, WriteStep, Progress
<1>2. WritesEntry
  BY <1>1, WritesDesign
<1>3. IsDesign(open[EntryKey]) /\ \A p \in DOMAIN open[EntryKey].props : IsProp(open[EntryKey].props[p])
  BY <1>1, EntryCellview DEF Saved, WrittenFrom, SavedWell
<1>. DEFINE d == open[EntryKey]
            props == [p \in DOMAIN d.props |->
                        IF p \in Timestamps THEN [d.props[p] EXCEPT !.val = "updated"] ELSE d.props[p]]
<1>4. open'[EntryKey] = [d EXCEPT !.props = props]
  BY <1>1, AtEntryFacts DEF Stamped
<1>5. \A p \in Timestamps : p \in DOMAIN d.props /\ props[p].val = "updated"
  BY <1>1, <1>3 DEF StampMissing, IsProp
<1>6. "portOrder" \notin Timestamps
  BY DEF Timestamps
<1>7. "portOrder" \in DOMAIN d.props => props["portOrder"] = d.props["portOrder"]
  BY <1>6
<1>. HIDE DEF props
<1>8. open'[EntryKey].props = props /\ open'[EntryKey].insts = d.insts
  BY <1>3, <1>4 DEF IsDesign
<1>9. "portOrder" \in DOMAIN EntryCv.props => "portOrder" \in DOMAIN d.props
  <2>1. SavedWell(d, Source, List.lib) /\ CvOf(Source) = EntryCv
    BY <1>1, EntryCellview DEF Saved, WrittenFrom
  <2>2. {} \in SUBSET Libraries
    OBVIOUS
  <2>3. ReadsBack(d, Source, List.lib, {})
    BY <2>1, <2>2 DEF SavedWell
  <2>4. DOMAIN ReadSchCellview(d, {}).props = DOMAIN EntryCv.props
    BY <2>1, <2>3 DEF ReadsBack
  <2>5. ReadSchCellview(d, {}).props = ReadProps(d.props)
    BY ReadParts
  <2>6. DOMAIN ReadProps(d.props) = DOMAIN d.props
    BY DEF ReadProps
  <2>. QED BY <2>4, <2>5, <2>6
<1>10. EntryComplete'
  <2>1. /\ Connected(open[EntryKey], List, call.k)'
        /\ EntryKey' = EntryKey /\ EntryCv' = EntryCv /\ call'.at = "close"
        /\ List' = List /\ Entry' = Entry
    BY <1>1, <1>2, <1>8, StaysBuilt
  <2>2. EntryComplete
    BY <1>1, AtEntryFacts
  <2>. QED BY <1>1, <1>5, <1>7, <1>8, <1>9, <2>1, <2>2 DEF EntryComplete
<1>. QED BY <1>1, <1>2, <1>10, StepProgress, AtEntryFacts

LEMMA CloseProgress ==
  ASSUME IInv, Saved, Progress, Close, call.op = "sch"
  PROVE  Progress'
<1>1. /\ AtEntry /\ Writing /\ call.at = "close" /\ last' = last
      /\ disk' = [disk EXCEPT ![EntryKey] = open[EntryKey]] /\ open' = Erase(open, EntryKey)
      /\ call' = Advanced /\ UNCHANGED <<cells, views, clean>>
  BY DEF Close, AtEntry
<1>2. WritesEntry
  BY <1>1, WritesDesign
<1>3. /\ call.k \in DOMAIN List.entries /\ EntryKey \in DOMAIN open /\ IsSchCellview(EntryCv)
      /\ call.isSch => EntryType = "schematic" /\ EntryCv = Entry.cv /\ EntryComplete
      /\ ~call.isSch => EntryType = "symbol"
  BY <1>1, AtEntryFacts
<1>4. EntryKey \in DOMAIN written /\ EntryKey \in DOMAIN disk
  BY <1>1 DEF Saved, IInv, Keys
<1>5. /\ EntryKey \in DOMAIN disk' /\ disk'[EntryKey] = open[EntryKey]
      /\ EntryKey \notin DOMAIN open' /\ DOMAIN disk' = DOMAIN disk
  BY <1>1, <1>4 DEF Erase
<1>6. DOMAIN List.entries = 1 .. Len(List.entries) /\ Len(List.entries) \in Nat /\ call.k \in Nat
  BY <1>1, WritingFacts, ListFacts DEF List
\* The call afterwards.
<1>7. /\ call'.op = "sch" /\ call'.at = "open" /\ List' = List
      /\ SymbolNext => call'.isSch = FALSE /\ call'.k = call.k
      /\ ~SymbolNext => call'.isSch = TRUE /\ call'.k = call.k + 1
  <2>1. call = [op |-> "sch", at |-> call.at, list |-> call.list, k |-> call.k,
                isSch |-> call.isSch, renames |-> call.renames]
    BY <1>1, WritingFacts
  <2>2. CASE SymbolNext
    <3>1. call' = [op |-> "sch", at |-> "open", list |-> call.list, k |-> call.k,
                   isSch |-> FALSE, renames |-> call.renames]
      BY <1>1, <2>1, <2>2 DEF Advanced
    <3>. QED BY <2>2, <3>1 DEF List, ListOf
  <2>3. CASE ~SymbolNext
    <3>1. call' = [op |-> "sch", at |-> "open", list |-> call.list, k |-> call.k + 1,
                   isSch |-> TRUE, renames |-> InsertOrAssign(call.renames, Entry.cv.cell, Entry.name)]
      BY <1>1, <2>1, <2>3 DEF Advanced
    <3>. QED BY <2>3, <3>1 DEF List, ListOf
  <2>. QED BY <2>2, <2>3
<1>8. ~AtEntry' /\ ListComplete'
  <2>1. last' = NoCall
    BY <1>1 DEF Progress, Writing, Idle
  <2>. QED BY <1>7, <2>1 DEF AtEntry, ListComplete, NoCall
<1>9. PICK list, n, d : list = List /\ n = call.k /\ d = open[EntryKey]
  OBVIOUS
\* The entry itself.
<1>10. ASSUME call.isSch PROVE SchComplete(list, n)'
  <2>. DEFINE c == <<list.lib, list.entries[n].name>>
              k == <<list.lib, list.entries[n].name, SchView>>
  <2>1. c = <<List.lib, Entry.name>> /\ k = EntryKey /\ list.entries[n].cv = EntryCv
    BY <1>1, <1>3, <1>9, <1>10, WritingFacts DEF EntryKey, EntryView, Entry
  <2>2. /\ c \in DOMAIN cells /\ cells[c] = TermOrder(EntryCv.terms) /\ k \in DOMAIN views
        /\ Connected(d, list, n)
        /\ "portOrder" \in DOMAIN EntryCv.props => d.props["portOrder"].val = TermOrder(EntryCv.terms)
        /\ \A p \in Timestamps : d.props[p].val = "updated"
    BY <1>1, <1>3, <1>9, <1>10, <2>1 DEF EntryComplete
  <2>3. GoodOrder(cells[c], EntryCv.terms)
    BY <1>3, <2>2, TermOrderGood DEF IsSchCellview, IsDict
  <2>4. Connected(d, list, n)'
    BY <1>2, <1>3, <1>6, <1>9, <2>2, StaysConnected
  <2>5. disk'[k] = d /\ k \in DOMAIN disk' /\ k \notin DOMAIN open'
    BY <1>5, <1>9, <2>1
  <2>. HIDE DEF c, k
  <2>6. Connected(disk[k], list, n)'
    BY <2>4, <2>5 DEF Connected
  <2>. QED BY <1>1, <2>1, <2>2, <2>3, <2>5, <2>6 DEF SchComplete, c, k
\* The symbol of an entry that is done.
<1>11. ASSUME ~SymbolNext PROVE SymComplete(list, n)'
  <2>1. CASE call.isSch
    BY <1>3, <1>9, <1>11, <2>1 DEF SymbolNext, SymComplete, Entry
  <2>2. CASE ~call.isSch
    <3>1. EntryKey = <<list.lib, list.entries[n].name, SymView>>
      BY <1>1, <1>9, <2>2, <1>3 DEF EntryKey, EntryView, Entry, EntryType
    <3>. QED BY <1>5, <3>1 DEF SymComplete
  <2>. QED BY <2>1, <2>2
<1>12. ASSUME NEW m \in DOMAIN list.entries, m < n \/ (m = n /\ ~call.isSch)
       PROVE  SchComplete(list, m)'
  <2>1. SchComplete(list, m)
    BY <1>7, <1>9, <1>12 DEF Progress
  <2>. QED BY <1>2, <1>3, <1>9, <1>12, <2>1, StaysComplete
<1>13. ASSUME NEW m \in DOMAIN list.entries, m < n
       PROVE  SymComplete(list, m)'
  BY <1>2, <1>9, <1>13 DEF Progress, SymComplete, WritesEntry
<1>14. SymbolNext => call.isSch
  BY <1>3 DEF SymbolNext
<1>15. \A m \in DOMAIN list.entries :
         /\ m < call'.k => SchComplete(list, m)' /\ SymComplete(list, m)'
         /\ m = call'.k /\ ~call'.isSch => SchComplete(list, m)'
  <2>. SUFFICES ASSUME NEW m \in DOMAIN list.entries
                PROVE  /\ m < call'.k => SchComplete(list, m)' /\ SymComplete(list, m)'
                       /\ m = call'.k /\ ~call'.isSch => SchComplete(list, m)'
    OBVIOUS
  <2>1. m \in Nat /\ n \in Nat
    BY <1>6, <1>9
  <2>2. CASE SymbolNext
    BY <1>7, <1>9, <1>10, <1>12, <1>13, <1>14, <2>1, <2>2
  <2>3. CASE ~SymbolNext
    <3>1. m < call'.k => m < n \/ m = n
      BY <1>7, <1>9, <2>1, <2>3
    <3>. QED BY <1>7, <1>10, <1>11, <1>12, <1>13, <2>3, <3>1
  <2>. QED BY <2>2, <2>3
<1>16. list = List'
  BY <1>7, <1>9
<1>17. \A m \in DOMAIN list.entries :
         /\ SchComplete(list, m)' => SchComplete(List, m)'
         /\ SymComplete(list, m)' => SymComplete(List, m)'
  BY <1>16 DEF SchComplete, SymComplete, Connected
<1>18. \A m \in DOMAIN List'.entries :
         /\ m < call'.k => SchComplete(List, m)' /\ SymComplete(List, m)'
         /\ m = call'.k /\ ~call'.isSch => SchComplete(List, m)'
  BY <1>15, <1>16, <1>17
<1>19. call'.at \notin {"cellData", "viewData", "stamp"} /\ call' # Idle => last' = NoCall
  BY <1>1, <1>7 DEF Progress, Writing, Idle
<1>. QED BY <1>1, <1>7, <1>8, <1>18, <1>19 DEF Progress, Writing, Idle

\* The end of a list: all its entries are before the current one.
LEMMA ListDoneProgress ==
  ASSUME IInv, Progress, ListDone
  PROVE  Progress'
<1>1. /\ Writing /\ call.k > Len(List.entries) /\ call' = Idle
      /\ last' = [op |-> call.op, ok |-> TRUE, list |-> call.list]
      /\ UNCHANGED <<disk, cells, views, open, clean>>
  BY DEF ListDone, Return, stored
<1>2. CASE call.op # "sch"
  BY <1>1, <1>2, QuietProgress DEF Idle
<1>3. CASE call.op = "sch"
  <2>1. last'.list = call.list /\ List = SchLists[call.list]
    BY <1>1, <1>3 DEF List, ListOf
  <2>2. \A n \in DOMAIN List.entries : n < call.k
    <3>1. DOMAIN List.entries = 1 .. Len(List.entries) /\ Len(List.entries) \in Nat /\ call.k \in Nat
      BY <1>1, WritingFacts, ListFacts DEF List
    <3>. QED BY <1>1, <3>1
  <2>3. Masters' = Masters
    BY <1>1 DEF Masters, Current
  <2>4. \A d, list, n : Connected(d, list, n) => Connected(d, list, n)'
    BY <1>1, <2>3 DEF Connected
  <2>5. ASSUME NEW list, NEW n, SchComplete(list, n) PROVE SchComplete(list, n)'
    BY <1>1, <2>4, <2>5 DEF SchComplete
  <2>6. \A n \in DOMAIN List.entries : SchComplete(List, n) /\ SymComplete(List, n)
    BY <1>3, <2>2 DEF Progress
  <2>7. ListComplete'
    BY <1>1, <2>1, <2>5, <2>6 DEF ListComplete, SymComplete
  <2>. QED BY <1>1, <2>7 DEF Progress, Idle, AtEntry, Writing
<1>. QED BY <1>2, <1>3

LEMMA LayProgress ==
  ASSUME IInv, Progress, BuildLay \/ Save \/ Close, call.op = "lay"
  PROVE  Progress'
<1>1. Writing /\ last' = last
  BY DEF Writing, BuildLay, Save, Close, WriteStep
<1>2. CASE BuildLay \/ Save
  <2>1. PICK at : call' = [call EXCEPT !.at = at]
    BY <1>2 DEF BuildLay, Save, WriteStep
  <2>. QED BY <1>1, <2>1, BuildLayProgress
<1>3. CASE Close
  <2>1. call'.op = "lay"
    BY <1>1, <1>3, WritingFacts DEF Close, Advanced
  <2>2. last' = NoCall
    BY <1>1 DEF Progress, Writing, Idle
  <2>. QED BY <2>1, <2>2, QuietProgress DEF NoCall
<1>. QED BY <1>2, <1>3

LEMMA UndefinedProgress ==
  ASSUME Progress, BuildUndefined \/ StampUndefined
  PROVE  Progress'
BY FailProgress, EndsProgress DEF BuildUndefined, StampUndefined

LEMMA RequestProgress ==
  ASSUME IInv, Progress,
         \/ \E c \in Roots : ReadSchRecursive(c)
         \/ \E l \in Libraries : ReadLibrary(l)
         \/ \E l \in YamlLibs : AddYamlPath(l)
         \/ \E l \in PrimLibs : AddPrimitiveLib(l)
         \/ \E l \in NewLibs, tech \in Libraries : CreateLib(l, tech)
         \/ Destroy
  PROVE  Progress'
<1>1. /\ call'.op # "sch" /\ (call' # Idle => last' = NoCall)
      /\ \/ last'.op # "sch"
         \/ UNCHANGED <<disk, cells, views, open, clean, last>>
  BY DEF ReadSchRecursive, ReadLibrary, AddYamlPath, AddPrimitiveLib, CreateLib, Destroy, Begin, Return,
     Idle, NoCall, stored
<1>. QED BY <1>1, QuietProgress

LEMMA OtherProgress ==
  ASSUME IInv, Progress,
         \/ AttachTech \/ AppendDefine
         \/ ReadSchematic \/ ReadSymbol \/ FinishCell \/ VisitMaster \/ CellDone \/ NextCell \/ LibraryDone
         \/ OaThrows
  PROVE  Progress'
<1>1. CASE Fail(call) \/ OaThrows
  <2>1. call' = Idle /\ last'.ok = FALSE
    BY <1>1 DEF Fail, OaThrows
  <2>2. call'.op # "sch"
    BY <2>1 DEF Idle
  <2>. QED BY <2>1, <2>2, QuietProgress
<1>2. CASE AttachTech /\ ~Fail(call)
  <2>1. call.op = "lib" /\ call' = [call EXCEPT !.at = "define"] /\ last' = last
    BY <1>2 DEF AttachTech, At
  <2>2. call = [op |-> "lib", at |-> call.at, lib |-> call.lib, tech |-> call.tech]
    BY <2>1 DEF IInv, CallShape
  <2>3. call'.op = "lib" /\ last' = NoCall
    BY <2>1, <2>2 DEF Progress, Idle
  <2>. QED BY <2>3, QuietProgress DEF NoCall
<1>3. CASE AppendDefine
  <2>1. call' = Idle /\ last'.op = "lib"
    BY <1>3 DEF AppendDefine, Return
  <2>. QED BY <2>1, QuietProgress DEF Idle
<1>4. CASE ReadOp /\ ~Fail(call) /\ ~OaThrows
  <2>1. /\ call.op \in {"recursive", "library"}
        /\ call = [op |-> call.op, root |-> call.root, stack |-> call.stack, out |-> call.out,
                   seen |-> call.seen, left |-> call.left]
    BY <1>4 DEF ReadOp, IInv, CallShape
  <2>2. last = NoCall
    BY <2>1 DEF Progress, Idle
  <2>3. (call'.op = call.op /\ last' = last) \/ (call' = Idle /\ last'.op = call.op)
    <3>1. CASE ReadSchematic \/ ReadSymbol
      <4>1. call'.op = call.op /\ last' = last
        BY <1>4, <2>1, <3>1 DEF ReadSchematic, ReadSymbol, ReadStep, ReadFails
      <4>. QED BY <4>1
    <3>2. CASE FinishCell \/ VisitMaster \/ NextCell
      <4>1. call'.op = call.op /\ last' = last
        BY <2>1, <3>2 DEF FinishCell, VisitMaster, NextCell
      <4>. QED BY <4>1
    <3>3. CASE CellDone
      BY <2>1, <3>3 DEF CellDone, Return, Finished
    <3>4. CASE LibraryDone
      BY <2>1, <3>4 DEF LibraryDone, Return, Finished
    <3>5. ~AttachTech /\ ~AppendDefine
      BY <2>1 DEF AttachTech, AppendDefine, At
    <3>. QED BY <1>4, <3>1, <3>2, <3>3, <3>4, <3>5
  <2>4. call'.op # "sch" /\ (call' # Idle => last' = NoCall) /\ last'.op # "sch"
    BY <2>1, <2>2, <2>3 DEF NoCall, Idle
  <2>. QED BY <2>4, QuietProgress
<1>5. ReadOp \/ AttachTech \/ AppendDefine \/ OaThrows
  BY DEF ReadSchematic, ReadSymbol, FinishCell, VisitMaster, CellDone, NextCell, LibraryDone, Reading, ReadOp
<1>. QED BY <1>1, <1>2, <1>3, <1>4, <1>5

LEMMA NextProgress == IInv /\ Saved /\ Progress /\ [Next]_vars => Progress'
<1>. SUFFICES ASSUME IInv, Saved, Progress, [Next]_vars PROVE Progress'
  OBVIOUS
<1>1. CASE Request
  BY <1>1, ImplementProgress, RequestProgress DEF Request
<1>2. CASE Step
  <2>1. Save \/ Close => call.op \in {"sch", "lay"}
    BY DEF Save, Close, Writing
  <2>2. BuildLay => call.op = "lay"
    BY DEF BuildLay, At
  <2>. QED BY <1>2, <2>1, <2>2, OpenProgress, BuildSchProgress, LayProgress, SaveProgress, CellDataProgress,
         ViewDataProgress, StampProgress, CloseProgress, ListDoneProgress, UndefinedProgress, OtherProgress
         DEF Step
<1>3. CASE OaThrows
  BY <1>3, OtherProgress
<1>4. CASE Crash
  BY <1>4, EndsProgress DEF Crash
<1>5. CASE Destroy
  BY <1>5, RequestProgress
<1>6. CASE UNCHANGED vars
  <2>1. /\ List' = List /\ Entry' = Entry /\ EntryKey' = EntryKey /\ EntryCv' = EntryCv /\ AtEntry' = AtEntry
        /\ Masters' = Masters
    BY <1>6 DEF vars, List, ListOf, Entry, EntryKey, EntryView, EntryCv, EntryType, AtEntry, Writing, Masters,
       Current
  <2>2. UNCHANGED <<disk, cells, views, open, clean, last, call>>
    BY <1>6 DEF vars
  <2>3. \A d, list, n : Connected(d, list, n)' = Connected(d, list, n)
    BY <2>1, <2>2 DEF Connected
  <2>4. ASSUME NEW list, NEW n PROVE SchComplete(list, n)' = SchComplete(list, n)
    BY <2>2, <2>3 DEF SchComplete
  <2>5. ASSUME NEW list, NEW n PROVE SymComplete(list, n)' = SymComplete(list, n)
    BY <2>2 DEF SymComplete
  <2>6. EntryComplete' = EntryComplete
    BY <2>1, <2>2, <2>3 DEF EntryComplete, Connected
  <2>7. ListComplete' = ListComplete
    BY <2>2, <2>4, <2>5 DEF ListComplete
  <2>8. \A n : SchComplete(List, n)' = SchComplete(List, n) /\ SymComplete(List, n)' = SymComplete(List, n)
    BY <2>1, <2>2, <2>3 DEF SchComplete, SymComplete, Connected
  <2>. QED BY <2>1, <2>2, <2>6, <2>7, <2>8 DEF Progress
<1>. QED BY <1>1, <1>2, <1>3, <1>4, <1>5, <1>6 DEF Next

\* After a list of schematics was written without an exception, each is complete.
THEOREM AlwaysListComplete == Spec => []ListComplete
<1>1. Init => Progress
  BY InitProgress
<1>2. Progress => ListComplete
  BY DEF Progress
<1>. QED BY <1>1, <1>2, NextProgress, Invariant, AlwaysSaved, PTL DEF Spec

-----------------------------------------------------------------------------
(***************************************************************************)
(* What the recursive readers have read: the cells that were seen, those   *)
(* that wait on the stack, and that nothing below the root is missed.      *)
(***************************************************************************)

\* The keys whose designs can be read and are in the YAML files as they are in the database.
ReadKeys ==
  {k \in DOMAIN Masters : Readable(Current(k)) /\ k \in DOMAIN yaml
                           /\ yaml[k] = ReadSchCellview(Current(k), prims)}

Pair(c) == c = <<c[1], c[2]>>
SchKey(c) == <<c[1], c[2], SchView>>
SymKeys(c) == {k \in DOMAIN disk : <<k[1], k[2]>> = c /\ Current(k).type = "symbol"}

\* The cells that a reading call starts from, and those that it must reach from them.
Starts(op, root) == IF op = "recursive" THEN {root} ELSE {c \in CellKeys : c[1] = root}
Closed(S) == \A x \in S : MastersOf(x) \subseteq S
Reached(op, root, c) ==
  \E r \in Starts(op, root) : \A S \in SUBSET NamedCells : r \in S /\ Closed(S) => c \in S

\* A frame of the stack: its cell is below a root; its symbols are read or will be; its
\* masters that are left are those of the cell.
FrameHier(R, op, root, f, seen) ==
  /\ Pair(f.cell) /\ Reached(op, root, f.cell)
  /\ f.at = "symbols" =>
       SchKey(f.cell) \in R /\ SymKeys(f.cell) \subseteq R \cup f.syms /\ f.syms \subseteq DOMAIN disk
  /\ f.at = "masters" => \A m \in f.todo : Pair(m) /\ (m[1] \notin prims => m \in MastersOf(f.cell))
  /\ op = "recursive" /\ f.at # "masters" => f.cell \notin seen

\* A master that is left to be visited, or is being read.
Waits(stack, c, m) ==
  \E i \in DOMAIN stack : /\ stack[i].cell = c /\ stack[i].at = "masters"
                          /\ m \in stack[i].todo \/ (i > 1 /\ stack[i - 1].cell = m)

\* The cells that were seen are read, are listed, are below a root, and have masters that
\* were seen or wait; the roots were seen, or are to come.
Hier(R, op, root, stack, out, seen, left) ==
  /\ out \in Seq(seen) /\ ToSet(out) = seen /\ (op = "recursive" => IsInjective(out))
  /\ \A c \in seen : Pair(c) /\ Reached(op, root, c) /\ SchKey(c) \in R /\ SymKeys(c) \subseteq R
  /\ \A i \in DOMAIN stack : FrameHier(R, op, root, stack[i], seen)
  /\ \A c \in seen : \A m \in MastersOf(c) : m \in seen \/ Waits(stack, c, m)
  /\ op = "recursive" => stack # << >> /\ stack[Len(stack)].cell = root
  /\ op = "library" =>
       /\ left \subseteq Starts(op, root)
       /\ \A c \in Starts(op, root) :
            c \in seen \cup left \/ (stack # << >> /\ stack[Len(stack)].cell = c)

Hierarchy ==
  /\ \A k \in DOMAIN disk : k = <<k[1], k[2], k[3]>>
  /\ ReadOp => Hier(ReadKeys, call.op, call.root, call.stack, call.out, call.seen, call.left)
  /\ ReadReachable

\* A step that writes no design and declares no library primitive.
LEMMA SameWorld ==
  ASSUME UNCHANGED <<disk, open, prims>>
  PROVE  /\ Masters' = Masters /\ CellKeys' = CellKeys /\ NamedCells' = NamedCells
         /\ \A k : Current(k)' = Current(k)
         /\ \A c : MastersOf(c)' = MastersOf(c) /\ SymKeys(c)' = SymKeys(c) /\ Below(c)' = Below(c)
         /\ \A op, root, c : Reached(op, root, c)' = Reached(op, root, c)
         /\ \A op, root : Starts(op, root)' = Starts(op, root)
<1>1. \A k : Current(k)' = Current(k)
  BY DEF Current
<1>2. Masters' = Masters /\ CellKeys' = CellKeys
  BY <1>1 DEF Masters, CellKeys
<1>3. \A c : MastersOf(c)' = MastersOf(c)
  BY <1>1, <1>2 DEF MastersOf
<1>4. NamedCells' = NamedCells
  BY <1>2, <1>3 DEF NamedCells
<1>5. \A c : SymKeys(c)' = SymKeys(c)
  BY <1>1 DEF SymKeys
<1>6. \A c : Below(c)' = Below(c)
  BY <1>3, <1>4 DEF Below
<1>7. \A op, root : Starts(op, root)' = Starts(op, root)
  BY <1>2 DEF Starts
<1>8. \A S : Closed(S)' = Closed(S)
  BY <1>3 DEF Closed
<1>9. \A op, root, c : Reached(op, root, c)' = Reached(op, root, c)
  BY <1>4, <1>7, <1>8 DEF Reached
<1>. QED BY <1>1, <1>2, <1>3, <1>4, <1>5, <1>6, <1>7, <1>9

LEMMA SameHier ==
  ASSUME UNCHANGED <<disk, open, prims>>,
         NEW R, NEW op, NEW root, NEW stack, NEW out, NEW seen, NEW left,
         Hier(R, op, root, stack, out, seen, left)
  PROVE  Hier(R, op, root, stack, out, seen, left)'
<1>1. \A f : FrameHier(R, op, root, f, seen)' = FrameHier(R, op, root, f, seen)
  BY SameWorld DEF FrameHier, Pair, SchKey
<1>2. \A c, m : Waits(stack, c, m)' = Waits(stack, c, m)
  BY DEF Waits
<1>. QED BY <1>1, <1>2, SameWorld DEF Hier, Pair, SchKey

\* The cells below one.
LEMMA BelowIs ==
  ASSUME NEW c
  PROVE  Below(c) = {x \in NamedCells : \A S \in SUBSET NamedCells : c \in S /\ Closed(S) => x \in S}
<1>. DEFINE masters == [x \in NamedCells |-> MastersOf(x)]
            closed == {S \in SUBSET NamedCells : c \in S /\ \A x \in S : masters[x] \subseteq S}
<1>1. closed = {S \in SUBSET NamedCells : c \in S /\ Closed(S)}
  BY DEF Closed
<1>2. Below(c) = {x \in NamedCells : \A S \in closed : x \in S}
  BY DEF Below
<1>. HIDE DEF closed
<1>. QED BY <1>1, <1>2

LEMMA MastersAre ==
  ASSUME NEW c
  PROVE  \A m \in MastersOf(c) : Pair(m) /\ m[1] \notin prims
BY DEF MastersOf, Pair

\* The masters of a cell whose schematic is there.
LEMMA MastersFacts ==
  ASSUME NEW c, Pair(c), SchKey(c) \in DOMAIN Masters
  PROVE  c \in NamedCells /\ MastersOf(c) \subseteq NamedCells
<1>1. c \in {<<k[1], k[2]>> : k \in DOMAIN Masters}
  BY DEF Pair, SchKey
<1>2. c \in NamedCells /\ MastersOf(c) \subseteq NamedCells
  BY <1>1 DEF NamedCells
<1>. QED BY <1>2

LEMMA ReachesOn ==
  ASSUME NEW op, NEW root, NEW c, Reached(op, root, c), NEW m \in MastersOf(c)
  PROVE  Reached(op, root, m)
BY DEF Reached, Closed

LEMMA ReachesStart ==
  ASSUME NEW op, NEW root, NEW c \in Starts(op, root)
  PROVE  Reached(op, root, c)
BY DEF Reached

\* What was seen, when nothing waits, is all that is below the roots.
LEMMA SeenIsBelow ==
  ASSUME NEW op, NEW root, NEW out, NEW seen, NEW left, NEW R, R \subseteq DOMAIN Masters,
         NEW stack, Hier(R, op, root, stack, out, seen, left),
         \A c \in seen : MastersOf(c) \subseteq seen,
         Starts(op, root) \subseteq seen
  PROVE  seen = UNION {Below(c) : c \in Starts(op, root)}
<1>1. \A c \in seen : c \in NamedCells /\ Reached(op, root, c)
  BY MastersFacts DEF Hier
<1>2. seen \in SUBSET NamedCells /\ Closed(seen)
  BY <1>1 DEF Closed
<1>3. ASSUME NEW c \in Starts(op, root) PROVE Below(c) \subseteq seen
  BY <1>2, <1>3, BelowIs
<1>4. ASSUME NEW x \in seen PROVE \E c \in Starts(op, root) : x \in Below(c)
  BY <1>1, <1>4, BelowIs DEF Reached
<1>. QED BY <1>3, <1>4

-----------------------------------------------------------------------------
\* A design that is read for the YAML files.
LEMMA ReadsKey ==
  ASSUME UNCHANGED <<disk, open, prims>>, NEW k, ReadInto(k), k \in DOMAIN Masters, Readable(Current(k))
  PROVE  ReadKeys \cup {k} \subseteq ReadKeys'
<1>1. Masters' = Masters /\ \A x : Current(x)' = Current(x)
  BY SameWorld
<1>2. /\ DOMAIN yaml' = DOMAIN yaml \cup {k} /\ yaml'[k] = ReadSchCellview(Current(k), prims)
      /\ \A x \in DOMAIN yaml : x # k => yaml'[x] = yaml[x]
  BY DEF ReadInto, InsertOrAssign
<1>3. ASSUME NEW x \in ReadKeys \cup {k} PROVE x \in ReadKeys'
  <2>1. x \in DOMAIN Masters /\ Readable(Current(x)) /\ x \in DOMAIN yaml'
    BY <1>2, <1>3 DEF ReadKeys
  <2>2. yaml'[x] = ReadSchCellview(Current(x), prims)
    BY <1>2, <1>3 DEF ReadKeys
  <2>. QED BY <1>1, <2>1, <2>2 DEF ReadKeys
<1>. QED BY <1>3

LEMMA SameReads ==
  ASSUME UNCHANGED <<disk, open, prims, yaml>>
  PROVE  ReadKeys' = ReadKeys
BY SameWorld DEF ReadKeys

\* The stack with another frame at the top, of the same cell.
LEMMA TopFrame ==
  ASSUME NEW stack, NEW seen, StackOK(stack, seen), stack # << >>,
         NEW f, f.cell = stack[1].cell, NEW s, s = [stack EXCEPT ![1] = f]
  PROVE  /\ DOMAIN s = DOMAIN stack /\ 1 \in DOMAIN stack /\ s[1] = f /\ s # << >> /\ Len(s) = Len(stack)
         /\ \A i \in DOMAIN s : s[i].cell = stack[i].cell
         /\ \A i \in DOMAIN s : i # 1 => s[i] = stack[i]
         /\ s[Len(s)].cell = stack[Len(stack)].cell
         /\ \A i \in DOMAIN s : i \in Nat /\ (i = 1 \/ (i > 1 /\ i - 1 \in DOMAIN s))
<1>1. stack \in Seq(Range(stack)) /\ Len(stack) \in Nat \ {0} /\ DOMAIN stack = 1 .. Len(stack)
  BY DEF StackOK
<1>2. /\ DOMAIN s = DOMAIN stack /\ s[1] = f /\ \A i \in DOMAIN s : i # 1 => s[i] = stack[i]
  BY <1>1
<1>3. Len(s) = Len(stack) /\ s # << >>
  <2>1. s \in [1 .. Len(stack) -> Range(stack) \cup {f}]
    BY <1>1 DEF Range
  <2>2. s \in Seq(Range(stack) \cup {f})
    BY <1>1, <2>1
  <2>. HIDE DEF StackOK
  <2>. QED BY <1>1, <1>2, <2>2
<1>4. \A i \in DOMAIN s : s[i].cell = stack[i].cell
  BY <1>2
<1>. QED BY <1>1, <1>2, <1>3, <1>4

\* Another frame at the top, which waits for what the old one waited for, or is the first
\* to wait for the masters of its cell.
LEMMA TopHier ==
  ASSUME NEW R, NEW R2, R \subseteq R2, NEW op, NEW root, NEW stack, NEW out, NEW seen, NEW left,
         Hier(R, op, root, stack, out, seen, left), StackOK(stack, seen), stack # << >>,
         NEW f, f.cell = stack[1].cell, NEW seen2, seen \subseteq seen2,
         FrameHier(R2, op, root, f, seen2), \A i \in DOMAIN stack : i # 1 => stack[i].at = "masters",
         NEW out2, out2 \in Seq(seen2), ToSet(out2) = seen2, op = "recursive" => IsInjective(out2),
         \A c \in seen2 \ seen : /\ Pair(c) /\ Reached(op, root, c) /\ SchKey(c) \in R2 /\ SymKeys(c) \subseteq R2
                                /\ c = f.cell /\ f.at = "masters" /\ MastersOf(c) \subseteq f.todo,
         stack[1].at = "masters" => f.at = "masters" /\ stack[1].todo \cap MastersOf(f.cell) \subseteq f.todo \cup seen2
  PROVE  Hier(R2, op, root, [stack EXCEPT ![1] = f], out2, seen2, left)
<1>. DEFINE s == [stack EXCEPT ![1] = f]
<1>1. /\ DOMAIN s = DOMAIN stack /\ 1 \in DOMAIN stack /\ s[1] = f /\ s # << >> /\ Len(s) = Len(stack)
      /\ \A i \in DOMAIN s : s[i].cell = stack[i].cell
      /\ \A i \in DOMAIN s : i # 1 => s[i] = stack[i]
      /\ s[Len(s)].cell = stack[Len(stack)].cell
      /\ \A i \in DOMAIN s : i \in Nat /\ (i = 1 \/ (i > 1 /\ i - 1 \in DOMAIN s))
  BY TopFrame
<1>. HIDE DEF s
<1>2. \A c \in seen2 : Pair(c) /\ Reached(op, root, c) /\ SchKey(c) \in R2 /\ SymKeys(c) \subseteq R2
  BY DEF Hier
<1>3. \A i \in DOMAIN s : FrameHier(R2, op, root, s[i], seen2)
  <2>1. ASSUME NEW i \in DOMAIN s, i # 1 PROVE FrameHier(R2, op, root, s[i], seen2)
    <3>1. FrameHier(R, op, root, stack[i], seen) /\ s[i] = stack[i] /\ stack[i].at = "masters"
      BY <1>1, <2>1 DEF Hier
    <3>. QED BY <3>1 DEF FrameHier
  <2>. QED BY <1>1, <2>1
<1>4. ASSUME NEW c \in seen2, NEW m \in MastersOf(c), m \notin seen2 PROVE Waits(s, c, m)
  <2>1. CASE c = f.cell /\ f.at = "masters" /\ m \in f.todo
    BY <1>1, <2>1 DEF Waits
  <2>2. CASE c \in seen /\ ~(stack[1].at = "masters" /\ c = f.cell /\ m \in stack[1].todo)
    <3>1. Waits(stack, c, m)
      BY <1>4, <2>2 DEF Hier
    <3>2. PICK i \in DOMAIN stack : /\ stack[i].cell = c /\ stack[i].at = "masters"
                                    /\ m \in stack[i].todo \/ (i > 1 /\ stack[i - 1].cell = m)
      BY <3>1 DEF Waits
    <3>3. i # 1
      BY <1>1, <2>2, <3>2
    <3>4. s[i] = stack[i] /\ i - 1 \in DOMAIN s /\ s[i - 1].cell = stack[i - 1].cell
      BY <1>1, <3>3
    <3>. QED BY <1>1, <3>2, <3>4 DEF Waits
  <2>. QED BY <1>4, <2>1, <2>2
<1>5. /\ op = "recursive" => s # << >> /\ s[Len(s)].cell = root
      /\ op = "library" =>
           /\ left \subseteq Starts(op, root)
           /\ \A c \in Starts(op, root) : c \in seen2 \cup left \/ (s # << >> /\ s[Len(s)].cell = c)
  BY <1>1 DEF Hier
<1>. QED BY <1>2, <1>3, <1>4, <1>5 DEF Hier, s

LEMMA PushFacts ==
  ASSUME NEW T, NEW st, st \in Seq(T), NEW g, g \in T, NEW s, s = Push(st, g), st # << >>
  PROVE  /\ Len(s) = Len(st) + 1 /\ DOMAIN s = 1 .. Len(st) + 1 /\ s # << >> /\ s[1] = g
         /\ \A i \in 1 .. Len(st) : s[i + 1] = st[i]
         /\ s[Len(s)] = st[Len(st)]
<1>1. s = <<g>> \o st /\ <<g>> \in Seq(T) /\ Len(<<g>>) = 1 /\ Len(st) \in Nat
  BY DEF Push
<1>2. /\ s \in Seq(T) /\ Len(s) = Len(st) + 1 /\ DOMAIN s = 1 .. Len(s) /\ s[1] = g
      /\ \A i \in 1 .. Len(st) : s[i + 1] = st[i]
  BY <1>1
<1>3. Len(st) \in 1 .. Len(st)
  <2>1. Len(st) # 0
    BY EmptySeq
  <2>. QED BY <1>1, <2>1
<1>. QED BY <1>1, <1>2, <1>3

\* A master is read before the cell at the top goes on.
LEMMA PushHier ==
  ASSUME NEW R, NEW op, NEW root, NEW stack, NEW out, NEW seen, NEW left,
         Hier(R, op, root, stack, out, seen, left), StackOK(stack, seen), stack # << >>,
         stack[1].at = "masters", NEW m \in stack[1].todo, m \notin seen, m[1] \notin prims,
         NEW f, f.cell = stack[1].cell, f.at = "masters", f.todo = stack[1].todo \ {m},
         NEW s, s = Push([stack EXCEPT ![1] = f], Frame(m))
  PROVE  Hier(R, op, root, s, out, seen, left)
<1>. DEFINE s1 == [stack EXCEPT ![1] = f]
<1>1. /\ DOMAIN s1 = DOMAIN stack /\ 1 \in DOMAIN stack /\ s1[1] = f /\ s1 # << >> /\ Len(s1) = Len(stack)
      /\ \A i \in DOMAIN s1 : s1[i].cell = stack[i].cell
      /\ \A i \in DOMAIN s1 : i # 1 => s1[i] = stack[i]
      /\ s1[Len(s1)].cell = stack[Len(stack)].cell
  BY TopFrame
<1>2. /\ stack \in Seq(Range(stack)) /\ Len(stack) \in Nat \ {0} /\ DOMAIN stack = 1 .. Len(stack)
  BY DEF StackOK
<1>3. /\ DOMAIN s = 1 .. Len(stack) + 1 /\ Len(s) = Len(stack) + 1 /\ s # << >> /\ s[1] = Frame(m)
      /\ \A i \in 1 .. Len(stack) : s[i + 1] = s1[i]
      /\ s[Len(s)].cell = stack[Len(stack)].cell
  <2>1. s1 \in [1 .. Len(stack) -> Range(stack) \cup {f}]
    BY <1>2 DEF Range
  <2>. HIDE DEF s1
  <2>3. PICK T, g, st : T = Range(stack) \cup {f, g} /\ g = Frame(m) /\ st = s1
    OBVIOUS
  <2>4. st \in Seq(T) /\ g \in T /\ s = Push(st, g) /\ st # << >> /\ Len(st) = Len(stack)
    <3>1. s1 \in [1 .. Len(stack) -> T]
      BY <2>1, <2>3
    <3>2. s1 \in Seq(T)
      BY <1>2, <3>1
    <3>. QED BY <1>1, <2>3, <3>2 DEF s1
  <2>5. /\ Len(s) = Len(st) + 1 /\ DOMAIN s = 1 .. Len(st) + 1 /\ s # << >> /\ s[1] = g
        /\ \A i \in 1 .. Len(st) : s[i + 1] = st[i]
        /\ s[Len(s)] = st[Len(st)]
    BY ONLY <2>4, PushFacts
  <2>. QED BY <1>1, <2>3, <2>4, <2>5
<1>. HIDE DEF s1
<1>4. FrameHier(R, op, root, stack[1], seen)
  BY <1>1 DEF Hier
<1>5. Pair(m) /\ m \in MastersOf(stack[1].cell)
  BY <1>4 DEF FrameHier
<1>6. FrameHier(R, op, root, Frame(m), seen)
  <2>1. Reached(op, root, m)
    BY <1>4, <1>5, ReachesOn DEF FrameHier
  <2>. QED BY <1>5, <2>1 DEF FrameHier, Frame
<1>7. FrameHier(R, op, root, f, seen)
  BY <1>4 DEF FrameHier
<1>8. \A i \in DOMAIN s : i = 1 \/ (i > 1 /\ i - 1 \in DOMAIN stack /\ s[i] = s1[i - 1])
  <2>1. ASSUME NEW i \in DOMAIN s, i # 1 PROVE i > 1 /\ i - 1 \in DOMAIN stack /\ s[i] = s1[i - 1]
    <3>1. i > 1 /\ i - 1 \in 1 .. Len(stack) /\ (i - 1) + 1 = i
      BY <1>2, <1>3, <2>1
    <3>2. s[(i - 1) + 1] = s1[i - 1]
      BY <1>3, <3>1
    <3>. QED BY <1>2, <3>1, <3>2
  <2>. QED BY <2>1
<1>9. \A i \in DOMAIN s : FrameHier(R, op, root, s[i], seen)
  <2>1. \A i \in DOMAIN s1 : FrameHier(R, op, root, s1[i], seen)
    BY <1>1, <1>7 DEF Hier
  <2>2. ASSUME NEW i \in DOMAIN s PROVE FrameHier(R, op, root, s[i], seen)
    <3>1. CASE i = 1
      BY <1>3, <1>6, <3>1
    <3>2. CASE i # 1
      <4>1. i - 1 \in DOMAIN stack /\ s[i] = s1[i - 1]
        BY ONLY <1>8, <2>2, <3>2
      <4>2. DOMAIN s1 = DOMAIN stack
        BY DEF s1
      <4>3. FrameHier(R, op, root, s1[i - 1], seen)
        BY ONLY <2>1, <4>1, <4>2
      <4>. QED BY ONLY <4>1, <4>3
    <3>. QED BY <3>1, <3>2
  <2>. QED BY <2>2
<1>10. ASSUME NEW c \in seen, NEW x \in MastersOf(c), x \notin seen PROVE Waits(s, c, x)
  <2>1. PICK i \in DOMAIN stack : /\ stack[i].cell = c /\ stack[i].at = "masters"
                                  /\ x \in stack[i].todo \/ (i > 1 /\ stack[i - 1].cell = x)
    BY <1>10 DEF Hier, Waits
  <2>2. /\ i + 1 \in DOMAIN s /\ s[i + 1] = s1[i] /\ i + 1 > 1 /\ i + 1 - 1 = i
        /\ s1[i].cell = c /\ s1[i].at = "masters" /\ i \in Nat
    <3>1. i \in 1 .. Len(stack)
      BY <1>2, <2>1
    <3>2. s1[i].cell = c /\ s1[i].at = "masters"
      BY <1>1, <2>1
    <3>3. i + 1 \in DOMAIN s /\ i + 1 > 1 /\ i + 1 - 1 = i /\ i \in Nat
      BY <1>2, <1>3, <3>1
    <3>. QED BY <1>3, <3>1, <3>2, <3>3
  <2>3. CASE i = 1 /\ x = m
    <3>1. s[i + 1 - 1].cell = x
      BY <1>3, <2>2, <2>3 DEF Frame
    <3>. QED BY <2>2, <3>1 DEF Waits
  <2>4. CASE i = 1 /\ x # m
    <3>1. x \in s1[i].todo
      BY <1>1, <2>1, <2>4
    <3>. QED BY <2>2, <3>1 DEF Waits
  <2>5. CASE i # 1
    <3>1. s1[i] = stack[i]
      BY <1>1, <2>1, <2>5
    <3>2. CASE x \in stack[i].todo
      BY <2>2, <3>1, <3>2 DEF Waits
    <3>3. CASE i > 1 /\ stack[i - 1].cell = x
      <4>1. i - 1 \in DOMAIN stack /\ i - 1 \in 1 .. Len(stack) /\ (i - 1) + 1 = i
        BY <1>2, <2>1, <3>3
      <4>2. s[i] = s1[i - 1]
        BY <1>3, <4>1
      <4>3. s[i + 1 - 1].cell = x
        BY <1>1, <2>2, <3>3, <4>1, <4>2
      <4>. QED BY <2>2, <4>3 DEF Waits
    <3>. QED BY <2>1, <3>2, <3>3
  <2>. QED BY <2>3, <2>4, <2>5
<1>11. /\ op = "recursive" => s # << >> /\ s[Len(s)].cell = root
       /\ op = "library" =>
            /\ left \subseteq Starts(op, root)
            /\ \A c \in Starts(op, root) : c \in seen \cup left \/ (s # << >> /\ s[Len(s)].cell = c)
  BY <1>3 DEF Hier
<1>. QED BY <1>9, <1>10, <1>11 DEF Hier

\* The cell at the top is done.
LEMMA PopHier ==
  ASSUME NEW R, NEW op, NEW root, NEW stack, NEW out, NEW seen, NEW left,
         Hier(R, op, root, stack, out, seen, left), StackOK(stack, seen), stack # << >>,
         stack[1].at = "masters", stack[1].todo = {}
  PROVE  /\ op # "recursive" \/ Len(stack) # 1 => Hier(R, op, root, Tail(stack), out, seen, left)
         /\ Len(stack) = 1 => \A c \in seen : MastersOf(c) \subseteq seen
         /\ op = "recursive" /\ Len(stack) = 1 => root \in seen
<1>. DEFINE s == Tail(stack)
<1>1. stack \in Seq(Range(stack)) /\ Len(stack) \in Nat \ {0} /\ DOMAIN stack = 1 .. Len(stack)
  BY DEF StackOK
<1>2. /\ DOMAIN s = 1 .. Len(stack) - 1 /\ Len(s) = Len(stack) - 1 /\ s \in Seq(Range(stack))
      /\ \A i \in DOMAIN s : s[i] = stack[i + 1]
  BY <1>1
<1>3. Len(stack) > 1 => s # << >> /\ s[Len(s)] = stack[Len(stack)]
  <2>. SUFFICES ASSUME Len(stack) > 1 PROVE s # << >> /\ s[Len(s)] = stack[Len(stack)]
    OBVIOUS
  <2>. HIDE DEF s
  <2>1. Len(s) \in DOMAIN s /\ Len(s) + 1 = Len(stack)
    BY <1>1, <1>2
  <2>2. s[Len(s)] = stack[Len(s) + 1]
    BY <1>2, <2>1
  <2>3. s # << >>
    BY <1>1, <1>2, EmptySeq
  <2>. QED BY <2>1, <2>2, <2>3
<1>. HIDE DEF s
<1>4. stack[1].cell \in seen /\ 1 \in DOMAIN stack
  BY <1>1 DEF StackOK
<1>5. \A i \in DOMAIN s : FrameHier(R, op, root, s[i], seen)
  <2>1. \A i \in DOMAIN s : i + 1 \in DOMAIN stack
    BY <1>1, <1>2
  <2>. QED BY <1>2, <2>1 DEF Hier
<1>6. ASSUME NEW c \in seen, NEW m \in MastersOf(c), m \notin seen PROVE Waits(s, c, m) /\ Len(stack) > 1
  <2>1. PICK i \in DOMAIN stack : /\ stack[i].cell = c /\ stack[i].at = "masters"
                                  /\ m \in stack[i].todo \/ (i > 1 /\ stack[i - 1].cell = m)
    BY <1>6 DEF Hier, Waits
  <2>2. i > 1 /\ i - 1 \in DOMAIN s /\ s[i - 1] = stack[i] /\ i \in Nat /\ Len(stack) > 1
    <3>1. i # 1
      BY <2>1
    <3>2. i > 1 /\ i - 1 \in DOMAIN s /\ (i - 1) + 1 = i
      BY <1>1, <1>2, <2>1, <3>1
    <3>3. s[i - 1] = stack[(i - 1) + 1]
      BY <1>2, <3>2
    <3>. QED BY <1>1, <2>1, <3>2, <3>3
  <2>3. CASE m \in stack[i].todo
    BY <2>1, <2>2, <2>3 DEF Waits
  <2>4. CASE stack[i - 1].cell = m
    <3>1. i # 2
      BY <1>4, <1>6, <2>4
    <3>2. i - 2 \in DOMAIN s /\ (i - 2) + 1 = i - 1 /\ (i - 1) - 1 = i - 2 /\ i - 1 > 1
      BY <1>1, <1>2, <2>1, <2>2, <3>1
    <3>3. s[i - 2] = stack[(i - 2) + 1]
      BY <1>2, <3>2
    <3>4. s[(i - 1) - 1].cell = m
      BY <2>4, <3>2, <3>3
    <3>. QED BY <2>1, <2>2, <3>2, <3>4 DEF Waits
  <2>. QED BY <2>1, <2>2, <2>3, <2>4
<1>7. Len(stack) = 1 => \A c \in seen : MastersOf(c) \subseteq seen
  BY <1>6
<1>8. op = "recursive" /\ Len(stack) = 1 => root \in seen
  BY <1>4 DEF Hier
<1>9. ASSUME op # "recursive" \/ Len(stack) # 1
      PROVE  /\ op = "recursive" => s # << >> /\ s[Len(s)].cell = root
             /\ op = "library" =>
                  /\ left \subseteq Starts(op, root)
                  /\ \A c \in Starts(op, root) : c \in seen \cup left \/ (s # << >> /\ s[Len(s)].cell = c)
  <2>1. CASE Len(stack) = 1
    BY <1>4, <1>9, <2>1 DEF Hier
  <2>2. CASE Len(stack) > 1
    BY <1>3, <2>2 DEF Hier
  <2>. QED BY <1>1, <2>1, <2>2
<1>10. op # "recursive" \/ Len(stack) # 1 => Hier(R, op, root, s, out, seen, left)
  BY <1>5, <1>6, <1>9 DEF Hier
<1>. QED BY <1>7, <1>8, <1>10 DEF s

-----------------------------------------------------------------------------
\* A step of a reading call to another one.
LEMMA HierAt ==
  ASSUME UNCHANGED <<disk, open, prims>>, Hierarchy, last' = NoCall,
         NEW op, NEW root, NEW stack, NEW out, NEW seen, NEW left, NEW R, R = ReadKeys',
         call' = [op |-> op, root |-> root, stack |-> stack, out |-> out, seen |-> seen, left |-> left],
         Hier(R, op, root, stack, out, seen, left)
  PROVE  Hierarchy'
<1>1. Hier(R, op, root, stack, out, seen, left)'
  BY SameHier
<1>2. /\ R = ReadKeys' /\ op = call'.op /\ root = call'.root /\ stack = call'.stack /\ out = call'.out
      /\ seen = call'.seen /\ left = call'.left
  OBVIOUS
<1>3. Hier(ReadKeys, call.op, call.root, call.stack, call.out, call.seen, call.left)'
  BY <1>1, <1>2
<1>4. ReadReachable'
  BY DEF ReadReachable, NoCall
<1>. QED BY <1>3, <1>4 DEF Hierarchy

\* What is known of a call that reads a cell.
LEMMA TopIs ==
  ASSUME IInv, Progress, Hierarchy, Reading
  PROVE  /\ call.op \in {"recursive", "library"} /\ last = NoCall /\ Top = call.stack[1] /\ IsFrame(Top)
         /\ call = [op |-> call.op, root |-> call.root, stack |-> call.stack, out |-> call.out,
                    seen |-> call.seen, left |-> call.left]
         /\ call.stack # << >> /\ StackOK(call.stack, call.seen) /\ 1 \in DOMAIN call.stack
         /\ \A i \in DOMAIN call.stack : i # 1 => call.stack[i].at = "masters"
         /\ Hier(ReadKeys, call.op, call.root, call.stack, call.out, call.seen, call.left)
         /\ FrameHier(ReadKeys, call.op, call.root, Top, call.seen)
<1>1. ReadOp /\ call.stack # << >> /\ Top = call.stack[1]
  BY DEF Reading, ReadOp, Top
<1>2. last = NoCall
  BY <1>1 DEF ReadOp, Progress, Idle
<1>3. StackOK(call.stack, call.seen)
  BY <1>1, ReadingFacts
<1>4. 1 \in DOMAIN call.stack /\ \A i \in DOMAIN call.stack : i # 1 => call.stack[i].at = "masters"
  <2>1. call.stack \in Seq(Range(call.stack)) /\ \A i \in DOMAIN call.stack : i > 1 => call.stack[i].at = "masters"
    BY <1>3 DEF StackOK
  <2>. QED BY <1>1, <2>1
<1>5. Hier(ReadKeys, call.op, call.root, call.stack, call.out, call.seen, call.left)
  BY <1>1 DEF Hierarchy
<1>6. FrameHier(ReadKeys, call.op, call.root, Top, call.seen)
  BY <1>1, <1>4, <1>5 DEF Hier
<1>. QED BY <1>1, <1>2, <1>3, <1>4, <1>5, <1>6, ReadingFacts

\* The schematic, or a symbol, of the cell at the top is read.
LEMMA ReadDesignHier ==
  ASSUME IInv, Progress, Hierarchy, Reading, Top.at # "masters",
         NEW k \in DOMAIN Masters, Readable(Current(k)), ReadInto(k), open' = open,
         NEW f, f.cell = Top.cell, f.at = "symbols", ReadStep(f),
         \A R : ReadKeys \cup {k} \subseteq R => FrameHier(R, call.op, call.root, f, call.seen)
  PROVE  Hierarchy'
<1>1. UNCHANGED <<disk, open, prims, last>>
  BY DEF ReadStep, settings
<1>2. ReadKeys \cup {k} \subseteq ReadKeys'
  BY <1>1, ReadsKey
<1>3. call' = [op |-> call.op, root |-> call.root, stack |-> [call.stack EXCEPT ![1] = f], out |-> call.out,
               seen |-> call.seen, left |-> call.left]
  <2>1. PICK s : s = [call.stack EXCEPT ![1] = f]
    OBVIOUS
  <2>2. [call EXCEPT !.stack[1] = f] = [call EXCEPT !.stack = s]
    BY <2>1
  <2>. QED BY <2>1, <2>2, TopIs, CallWith DEF ReadStep
<1>4. PICK R, R2, op, root, stack, out, seen, left :
        /\ R = ReadKeys /\ R2 = ReadKeys' /\ op = call.op /\ root = call.root /\ stack = call.stack
        /\ out = call.out /\ seen = call.seen /\ left = call.left
  OBVIOUS
<1>5. /\ R \subseteq R2 /\ Hier(R, op, root, stack, out, seen, left) /\ StackOK(stack, seen)
      /\ stack # << >> /\ f.cell = stack[1].cell /\ FrameHier(R2, op, root, f, seen)
      /\ stack[1].at # "masters" /\ \A i \in DOMAIN stack : i # 1 => stack[i].at = "masters"
  BY <1>2, <1>4, TopIs
<1>6. out \in Seq(seen) /\ ToSet(out) = seen /\ (op = "recursive" => IsInjective(out))
  BY <1>5 DEF Hier
<1>7. Hier(R2, op, root, [stack EXCEPT ![1] = f], out, seen, left)
  BY ONLY <1>5, <1>6, TopHier
<1>. QED BY <1>1, <1>3, <1>4, <1>7, TopIs, HierAt

\* A step to a call that reads nothing.
LEMMA QuietHier ==
  ASSUME Hierarchy, ~ReadOp', \A k \in DOMAIN disk' : k = <<k[1], k[2], k[3]>>,
         \/ last'.op \notin {"recursive", "library"} \/ last'.ok = FALSE
         \/ UNCHANGED <<disk, open, prims, yaml, last>>
  PROVE  Hierarchy'
<1>1. ReadReachable'
  <2>1. CASE last'.op \notin {"recursive", "library"} \/ last'.ok = FALSE
    BY <2>1 DEF ReadReachable
  <2>2. CASE UNCHANGED <<disk, open, prims, yaml, last>>
    <3>1. /\ \A c : Below(c)' = Below(c)
          /\ CellKeys' = CellKeys /\ \A k : Current(k)' = Current(k)
      BY <2>2, SameWorld
    <3>2. ReadReachable
      BY DEF Hierarchy
    <3>. QED BY <2>2, <3>1, <3>2 DEF ReadReachable
  <2>. QED BY <2>1, <2>2
<1>. QED BY <1>1 DEF Hierarchy

LEMMA FailHier ==
  ASSUME Hierarchy, Fail(call)
  PROVE  Hierarchy'
<1>1. ~ReadOp' /\ last'.ok = FALSE /\ disk' = disk
  BY DEF Fail, ReadOp, Idle, stored
<1>. QED BY <1>1, QuietHier DEF Hierarchy

LEMMA ReadSchematicHier ==
  ASSUME IInv, Progress, Hierarchy, ReadSchematic
  PROVE  Hierarchy'
<1>. DEFINE k == TopKey(SchView)
            syms == {x \in DOMAIN disk : <<x[1], x[2]>> = Top.cell /\ Current(x).type = "symbol"}
            f == [Top EXCEPT !.at = "symbols", !.syms = syms]
<1>1. Reading /\ Top.at = "schematic"
  BY DEF ReadSchematic
<1>2. CASE ReadFails(k)
  BY <1>2, FailHier DEF ReadFails
<1>3. CASE k \in DOMAIN Masters /\ Readable(Current(k)) /\ ReadInto(k) /\ ReadStep(f) /\ UNCHANGED open
  <2>1. k = SchKey(Top.cell) /\ syms = SymKeys(Top.cell) /\ syms \subseteq DOMAIN disk
    BY DEF TopKey, SchKey, SymKeys
  <2>. HIDE DEF k, syms
  <2>2. f = [cell |-> Top.cell, at |-> "symbols", syms |-> syms, todo |-> Top.todo]
    <3>1. IsFrame(Top)
      BY <1>1, TopIs
    <3>. QED BY <3>1, FrameWith
  <2>3. ASSUME NEW R, ReadKeys \cup {k} \subseteq R
        PROVE  FrameHier(R, call.op, call.root, f, call.seen)
    <3>1. FrameHier(ReadKeys, call.op, call.root, Top, call.seen)
      BY <1>1, TopIs
    <3>. QED BY <1>1, <2>1, <2>2, <2>3, <3>1 DEF FrameHier
  <2>4. f.cell = Top.cell /\ f.at = "symbols"
    BY <2>2
  <2>. HIDE DEF f
  <2>. QED BY <1>1, <1>3, <2>3, <2>4, ReadDesignHier
<1>. QED BY <1>2, <1>3 DEF ReadSchematic

LEMMA ReadSymbolHier ==
  ASSUME IInv, Progress, Hierarchy, ReadSymbol
  PROVE  Hierarchy'
<1>1. Reading /\ Top.at = "symbols"
  BY DEF ReadSymbol
<1>2. PICK k \in Top.syms :
        \/ /\ Readable(Current(k)) /\ ReadInto(k) /\ ReadStep([Top EXCEPT !.syms = Top.syms \ {k}])
           /\ UNCHANGED open
        \/ ReadFails(k)
  BY DEF ReadSymbol
<1>. DEFINE f == [Top EXCEPT !.syms = Top.syms \ {k}]
<1>3. CASE ReadFails(k)
  BY <1>3, FailHier DEF ReadFails
<1>4. CASE Readable(Current(k)) /\ ReadInto(k) /\ ReadStep(f) /\ UNCHANGED open
  <2>1. FrameHier(ReadKeys, call.op, call.root, Top, call.seen) /\ IsFrame(Top)
    BY <1>1, TopIs
  <2>2. f = [cell |-> Top.cell, at |-> "symbols", syms |-> Top.syms \ {k}, todo |-> Top.todo]
    BY <1>1, <2>1, FrameWith
  <2>3. k \in DOMAIN disk /\ k \in DOMAIN Masters
    BY <1>1, <2>1 DEF FrameHier, Masters
  <2>4. ASSUME NEW R, ReadKeys \cup {k} \subseteq R
        PROVE  FrameHier(R, call.op, call.root, f, call.seen)
    BY <1>1, <2>1, <2>2, <2>4 DEF FrameHier
  <2>5. f.cell = Top.cell /\ f.at = "symbols"
    BY <2>2
  <2>. HIDE DEF f
  <2>. QED BY <1>1, <1>4, <2>3, <2>4, <2>5, ReadDesignHier
<1>. QED BY <1>2, <1>3, <1>4

\* The masters that the file of a schematic that was read names.
LEMMA MastersRead ==
  ASSUME NEW c, SchKey(c) \in ReadKeys
  PROVE  LET todo == {<<x.lib, x.cell>> : x \in Range(yaml[SchKey(c)].insts)}
         IN  /\ \A m \in todo : Pair(m) /\ (m[1] \notin prims => m \in MastersOf(c))
             /\ MastersOf(c) \subseteq todo
<1>. DEFINE d == Current(SchKey(c))
            names == {n \in DOMAIN d.insts : ~d.insts[n].pin}
            insts == yaml[SchKey(c)].insts
<1>1. insts = [n \in names |-> ReadInstance(d.insts[n], prims)]
  BY DEF ReadKeys, ReadSchCellview
<1>2. {<<x.lib, x.cell>> : x \in Range(insts)} =
        {<<d.insts[n].master[1], d.insts[n].master[2]>> : n \in names}
  <2>1. \A n \in names : /\ insts[n].lib = d.insts[n].master[1]
                         /\ insts[n].cell = d.insts[n].master[2]
    BY <1>1 DEF ReadInstance
  <2>2. Range(insts) = {insts[n] : n \in names}
    BY <1>1 DEF Range
  <2>. HIDE DEF insts, names
  <2>. QED BY <2>1, <2>2
<1>3. MastersOf(c) = {<<m[1], m[2]>> : m \in {x \in {d.insts[n].master : n \in names} : x[1] \notin prims}}
  BY DEF MastersOf, SchKey, ReadKeys
<1>. HIDE DEF insts, names, d
<1>. QED BY <1>2, <1>3 DEF Pair, insts

LEMMA ListedOnce ==
  ASSUME NEW S, NEW s, s \in Seq(S), ToSet(s) = S, NEW x
  PROVE  /\ Append(s, x) \in Seq(S \cup {x}) /\ ToSet(Append(s, x)) = S \cup {x}
         /\ x \notin S /\ IsInjective(s) => IsInjective(Append(s, x))
<1>. DEFINE a == Append(s, x)
<1>1. s \in Seq(S \cup {x}) /\ Len(s) \in Nat /\ DOMAIN s = 1 .. Len(s)
  <2>1. Len(s) \in Nat /\ DOMAIN s = 1 .. Len(s) /\ s \in [1 .. Len(s) -> S]
    OBVIOUS
  <2>2. s \in [1 .. Len(s) -> S \cup {x}]
    BY <2>1
  <2>. QED BY <2>1, <2>2
<1>2. /\ a \in Seq(S \cup {x}) /\ DOMAIN a = 1 .. Len(s) + 1 /\ a[Len(s) + 1] = x
      /\ \A i \in 1 .. Len(s) : a[i] = s[i]
  BY <1>1
<1>. HIDE DEF a
<1>3. \A i \in DOMAIN a : i = Len(s) + 1 \/ (i \in DOMAIN s /\ a[i] = s[i])
  BY <1>1, <1>2
<1>4. \A i \in DOMAIN s : i \in DOMAIN a /\ a[i] = s[i] /\ s[i] \in S
  BY <1>1, <1>2 DEF ToSet
<1>5. ToSet(a) = S \cup {x}
  <2>1. \A y \in S : \E i \in DOMAIN a : a[i] = y
    BY <1>4 DEF ToSet
  <2>2. \E i \in DOMAIN a : a[i] = x
    BY <1>1, <1>2
  <2>3. \A i \in DOMAIN a : a[i] \in S \cup {x}
    BY <1>2, <1>3, <1>4
  <2>. QED BY <2>1, <2>2, <2>3 DEF ToSet
<1>6. x \notin S /\ IsInjective(s) => IsInjective(a)
  BY <1>2, <1>3, <1>4 DEF IsInjective
<1>. QED BY <1>2, <1>5, <1>6 DEF a

LEMMA FinishCellHier ==
  ASSUME IInv, Progress, Hierarchy, FinishCell
  PROVE  Hierarchy'
<1>1. /\ Reading /\ Top.at = "symbols" /\ Top.syms = {}
      /\ UNCHANGED <<disk, open, prims, yaml, last>>
  BY DEF FinishCell, stored, settings
<1>. DEFINE todo == {<<x.lib, x.cell>> : x \in Range(yaml[SchKey(Top.cell)].insts)}
            f == [Top EXCEPT !.at = "masters", !.todo = todo]
            out2 == Append(call.out, Top.cell)
            seen2 == call.seen \cup {Top.cell}
            stack2 == [call.stack EXCEPT ![1] = f]
<1>2. FrameHier(ReadKeys, call.op, call.root, Top, call.seen) /\ IsFrame(Top)
  BY <1>1, TopIs
<1>3. /\ Pair(Top.cell) /\ Reached(call.op, call.root, Top.cell) /\ SchKey(Top.cell) \in ReadKeys
      /\ SymKeys(Top.cell) \subseteq ReadKeys
      /\ call.op = "recursive" => Top.cell \notin call.seen
  BY <1>1, <1>2 DEF FrameHier
<1>4. /\ \A m \in todo : Pair(m) /\ (m[1] \notin prims => m \in MastersOf(Top.cell))
      /\ MastersOf(Top.cell) \subseteq todo
  BY <1>3, MastersRead
<1>5. call' = [call EXCEPT !.out = out2, !.seen = seen2, !.stack[1] = f]
  BY DEF FinishCell, TopKey, SchKey
<1>. HIDE DEF todo
<1>6. f = [cell |-> Top.cell, at |-> "masters", syms |-> Top.syms, todo |-> todo]
  BY <1>2, FrameWith
<1>7. f.cell = Top.cell /\ f.at = "masters" /\ f.todo = todo
  BY <1>6
<1>. HIDE DEF f, out2, seen2
<1>8. call' = [op |-> call.op, root |-> call.root, stack |-> stack2, out |-> out2, seen |-> seen2,
               left |-> call.left]
  BY <1>1, <1>5, TopIs, CallWith
<1>9. PICK R, op, root, stack, out, seen, left, sn2, o2, cell :
        /\ R = ReadKeys /\ op = call.op /\ root = call.root /\ stack = call.stack
        /\ out = call.out /\ seen = call.seen /\ left = call.left /\ sn2 = seen2 /\ o2 = out2 /\ cell = Top.cell
  OBVIOUS
<1>10. /\ Hier(R, op, root, stack, out, seen, left) /\ StackOK(stack, seen)
       /\ stack # << >> /\ f.cell = stack[1].cell /\ f.cell = cell
       /\ stack[1].at = "symbols" /\ \A i \in DOMAIN stack : i # 1 => stack[i].at = "masters"
  BY <1>1, <1>7, <1>9, TopIs
<1>11. sn2 = seen \cup {cell} /\ o2 = Append(out, cell)
  BY <1>9 DEF seen2, out2
<1>12. o2 \in Seq(sn2) /\ ToSet(o2) = sn2 /\ (op = "recursive" => IsInjective(o2))
  <2>1. out \in Seq(seen) /\ ToSet(out) = seen /\ (op = "recursive" => IsInjective(out) /\ cell \notin seen)
    BY <1>3, <1>9, <1>10 DEF Hier
  <2>. QED BY ONLY <1>11, <2>1, ListedOnce
<1>13. FrameHier(R, op, root, f, sn2)
  BY <1>3, <1>4, <1>7, <1>9 DEF FrameHier
<1>14. \A c \in sn2 \ seen : /\ Pair(c) /\ Reached(op, root, c) /\ SchKey(c) \in R /\ SymKeys(c) \subseteq R
                              /\ c = f.cell /\ f.at = "masters" /\ MastersOf(c) \subseteq f.todo
  BY <1>3, <1>4, <1>7, <1>9, <1>11
<1>15. seen \subseteq sn2 /\ R \subseteq R
  BY <1>11
<1>16. Hier(R, op, root, [stack EXCEPT ![1] = f], o2, sn2, left)
  <2>1. PICK g : g = f
    OBVIOUS
  <2>2. /\ g.cell = stack[1].cell /\ FrameHier(R, op, root, g, sn2)
        /\ \A c \in sn2 \ seen : /\ Pair(c) /\ Reached(op, root, c) /\ SchKey(c) \in R /\ SymKeys(c) \subseteq R
                                 /\ c = g.cell /\ g.at = "masters" /\ MastersOf(c) \subseteq g.todo
    BY <1>10, <1>13, <1>14, <2>1
  <2>3. stack[1].at = "masters" => g.at = "masters" /\ stack[1].todo \cap MastersOf(g.cell) \subseteq g.todo \cup sn2
    BY <1>10
  <2>4. Hier(R, op, root, [stack EXCEPT ![1] = g], o2, sn2, left)
    BY ONLY <1>10, <1>12, <1>15, <2>2, <2>3, TopHier
  <2>. QED BY <2>1, <2>4
<1>17. ReadKeys' = R
  BY <1>1, <1>9, SameReads
<1>18. last = NoCall
  BY <1>1, TopIs
<1>. HIDE DEF Hier
<1>. QED BY <1>1, <1>8, <1>9, <1>16, <1>17, <1>18, HierAt

LEMMA VisitMasterHier ==
  ASSUME IInv, Progress, Hierarchy, VisitMaster
  PROVE  Hierarchy'
<1>1. /\ Reading /\ Top.at = "masters" /\ UNCHANGED <<disk, open, prims, yaml, last>>
  BY DEF VisitMaster, stored, settings
<1>2. last = NoCall /\ IsFrame(Top) /\ Top = call.stack[1] /\ FrameHier(ReadKeys, call.op, call.root, Top, call.seen)
  BY <1>1, TopIs
<1>. DEFINE rest(m) == [call EXCEPT !.stack[1].todo = @ \ {m}]
<1>3. PICK m \in Top.todo :
        call' = IF m \in call.seen \/ m[1] \in prims THEN rest(m)
                ELSE [rest(m) EXCEPT !.stack = Push(@, Frame(m))]
  BY DEF VisitMaster
<1>. DEFINE f == [Top EXCEPT !.todo = Top.todo \ {m}]
            stack1 == [call.stack EXCEPT ![1] = f]
<1>4. f = [cell |-> Top.cell, at |-> "masters", syms |-> Top.syms, todo |-> Top.todo \ {m}]
  <2>1. PICK t, d : t = Top /\ d = Top.todo \ {m}
    OBVIOUS
  <2>2. IsFrame(t) /\ t.at = "masters"
    BY <1>1, <1>2, <2>1
  <2>3. [t EXCEPT !.todo = d] = [cell |-> t.cell, at |-> t.at, syms |-> t.syms, todo |-> d]
    BY ONLY <2>2, FrameWith
  <2>. QED BY ONLY <2>1, <2>2, <2>3
<1>5. rest(m) = [op |-> call.op, root |-> call.root, stack |-> stack1, out |-> call.out,
                 seen |-> call.seen, left |-> call.left]
  <2>1. PICK d : d = Top.todo \ {m}
    OBVIOUS
  <2>2. rest(m) = [call EXCEPT !.stack[1].todo = d] /\ f = [call.stack[1] EXCEPT !.todo = d]
    BY <1>2, <2>1
  <2>3. call = [op |-> call.op, root |-> call.root, stack |-> call.stack, out |-> call.out,
                seen |-> call.seen, left |-> call.left]
    BY <1>1, TopIs
  <2>. HIDE DEF rest, f
  <2>. QED BY <2>2, <2>3, CallWith
<1>6. PICK g, R, op, root, stack, out, seen, left :
        /\ g = f /\ R = ReadKeys /\ op = call.op /\ root = call.root /\ stack = call.stack
        /\ out = call.out /\ seen = call.seen /\ left = call.left
  OBVIOUS
<1>7. g.cell = Top.cell /\ g.at = "masters" /\ g.todo = Top.todo \ {m}
  BY <1>4, <1>6
<1>. HIDE DEF f
<1>8. /\ Hier(R, op, root, stack, out, seen, left) /\ StackOK(stack, seen)
      /\ stack # << >> /\ g.cell = stack[1].cell /\ m \in stack[1].todo /\ g.todo = stack[1].todo \ {m}
      /\ stack[1].at = "masters" /\ \A i \in DOMAIN stack : i # 1 => stack[i].at = "masters"
  BY <1>1, <1>2, <1>6, <1>7, TopIs
<1>9. ReadKeys' = R
  BY <1>1, <1>6, SameReads
<1>10. CASE m \in call.seen \/ m[1] \in prims
  <2>1. call' = [op |-> op, root |-> root, stack |-> [stack EXCEPT ![1] = g], out |-> out, seen |-> seen,
                 left |-> left]
    BY <1>3, <1>5, <1>6, <1>10
  <2>2. out \in Seq(seen) /\ ToSet(out) = seen /\ (op = "recursive" => IsInjective(out))
    BY <1>8 DEF Hier
  <2>3. FrameHier(R, op, root, g, seen)
    <3>1. FrameHier(R, op, root, stack[1], seen)
      BY <1>2, <1>6
    <3>. QED BY <1>7, <1>8, <3>1 DEF FrameHier
  <2>4. stack[1].todo \cap MastersOf(g.cell) \subseteq g.todo \cup seen
    BY <1>6, <1>8, <1>10, MastersAre
  <2>5. seen \subseteq seen /\ R \subseteq R /\ \A c \in seen \ seen : FALSE
    OBVIOUS
  <2>6. Hier(R, op, root, [stack EXCEPT ![1] = g], out, seen, left)
    BY ONLY <1>7, <1>8, <2>2, <2>3, <2>4, <2>5, TopHier
  <2>. QED BY <1>1, <1>2, <1>9, <2>1, <2>6, HierAt
<1>11. CASE m \notin call.seen /\ m[1] \notin prims
  <2>1. PICK s, h : s = Push([stack EXCEPT ![1] = g], Frame(m)) /\ h = rest(m)
    OBVIOUS
  <2>2. h = [op |-> op, root |-> root, stack |-> [stack EXCEPT ![1] = g], out |-> out, seen |-> seen,
             left |-> left]
    BY <1>5, <1>6, <2>1
  <2>3. call' = [h EXCEPT !.stack = s]
    <3>1. call' = [h EXCEPT !.stack = Push(h.stack, Frame(m))]
      BY <1>3, <1>11, <2>1
    <3>2. h.stack = [stack EXCEPT ![1] = g]
      BY <2>2
    <3>3. Push(h.stack, Frame(m)) = s
      BY ONLY <2>1, <3>2
    <3>. QED BY <3>1, <3>3
  <2>4. call' = [op |-> op, root |-> root, stack |-> s, out |-> out, seen |-> seen, left |-> left]
    BY <2>2, <2>3, CallWith
  <2>5. m \notin seen /\ m[1] \notin prims
    BY <1>6, <1>11
  <2>6. Hier(R, op, root, s, out, seen, left)
    BY ONLY <1>7, <1>8, <2>1, <2>5, PushHier
  <2>. QED BY <1>1, <1>2, <1>9, <2>4, <2>6, HierAt
<1>. QED BY <1>10, <1>11

\* What a call that returns has listed.
LEMMA ReturnsHier ==
  ASSUME Hierarchy, UNCHANGED <<disk, open, prims, yaml>>, call' = Idle,
         NEW op, NEW root, NEW stack, NEW out, NEW seen, NEW left,
         Hier(ReadKeys, op, root, stack, out, seen, left),
         seen = UNION {Below(c) : c \in Starts(op, root)},
         op \in {"recursive", "library"},
         last' = [op |-> op, ok |-> TRUE, root |-> root, out |-> out]
  PROVE  Hierarchy'
<1>1. /\ \A c : Below(c)' = Below(c)
      /\ CellKeys' = CellKeys /\ \A k : Current(k)' = Current(k)
  BY SameWorld
<1>2. /\ ToSet(out) = seen /\ (op = "recursive" => IsInjective(out))
      /\ \A c \in seen : Pair(c) /\ SchKey(c) \in ReadKeys /\ SymKeys(c) \subseteq ReadKeys
  BY DEF Hier
<1>3. op = "recursive" => ToSet(out) = Below(root)
  BY <1>2 DEF Starts
<1>4. op = "library" => ToSet(out) = UNION {Below(c) : c \in {x \in CellKeys : x[1] = root}}
  BY <1>2 DEF Starts
<1>5. ASSUME NEW c \in seen, NEW k \in DOMAIN disk, <<k[1], k[2]>> = c,
             k[3] = SchView \/ Current(k).type = "symbol"
      PROVE  /\ Readable(Current(k)) /\ k \in DOMAIN yaml
             /\ yaml[k] = ReadSchCellview(Current(k), prims)
  <2>1. k \in ReadKeys
    <3>1. CASE Current(k).type = "symbol"
      BY <1>2, <1>5, <3>1 DEF SymKeys
    <3>2. CASE k[3] = SchView
      <4>1. k = <<k[1], k[2], k[3]>> /\ c[1] = k[1] /\ c[2] = k[2]
        BY <1>5 DEF Hierarchy
      <4>. QED BY <1>2, <3>2, <4>1 DEF SchKey
    <3>. QED BY <1>5, <3>1, <3>2
  <2>. QED BY <2>1 DEF ReadKeys
<1>6. last'.op = op /\ last'.root = root /\ last'.out = out
  OBVIOUS
<1>7. ReadReachable'
  <2>1. /\ last'.op = "recursive" => ToSet(last'.out) = Below(root) /\ IsInjective(last'.out)
        /\ last'.op # "recursive" =>
             ToSet(last'.out) = UNION {Below(c) : c \in {x \in CellKeys : x[1] = root}}
    BY <1>2, <1>3, <1>4, <1>6
  <2>2. \A c \in ToSet(last'.out) : \A k \in {x \in DOMAIN disk : <<x[1], x[2]>> = c} :
          k[3] = SchView \/ Current(k).type = "symbol"
            => /\ Readable(Current(k)) /\ k \in DOMAIN yaml
               /\ yaml[k] = ReadSchCellview(Current(k), prims)
    BY <1>2, <1>5, <1>6
  <2>. QED BY <1>1, <1>6, <2>1, <2>2 DEF ReadReachable
<1>. QED BY <1>7 DEF Hierarchy, ReadOp, Idle

LEMMA CellDoneHier ==
  ASSUME IInv, Progress, Hierarchy, CellDone
  PROVE  Hierarchy'
<1>1. /\ Reading /\ Top.at = "masters" /\ Top.todo = {}
      /\ UNCHANGED <<disk, open, prims, yaml>>
  BY DEF CellDone, stored, settings
<1>2. PICK R, op, root, stack, out, seen, left :
        /\ R = ReadKeys /\ op = call.op /\ root = call.root /\ stack = call.stack
        /\ out = call.out /\ seen = call.seen /\ left = call.left
  OBVIOUS
<1>3. /\ Hier(R, op, root, stack, out, seen, left) /\ StackOK(stack, seen) /\ stack # << >>
      /\ stack[1].at = "masters" /\ stack[1].todo = {} /\ op \in {"recursive", "library"} /\ last = NoCall
  BY <1>1, <1>2, TopIs
<1>4. /\ op # "recursive" \/ Len(stack) # 1 => Hier(R, op, root, Tail(stack), out, seen, left)
      /\ Len(stack) = 1 => \A c \in seen : MastersOf(c) \subseteq seen
      /\ op = "recursive" /\ Len(stack) = 1 => root \in seen
  BY ONLY <1>3, PopHier
<1>5. CASE op = "recursive" /\ Len(stack) = 1
  <2>1. call' = Idle /\ last' = [op |-> op, ok |-> TRUE, root |-> root, out |-> out]
    BY <1>2, <1>5 DEF CellDone, Return, Finished
  <2>2. Starts(op, root) \subseteq seen /\ \A c \in seen : MastersOf(c) \subseteq seen
    BY <1>4, <1>5 DEF Starts
  <2>3. R \subseteq DOMAIN Masters
    BY <1>2 DEF ReadKeys
  <2>4. seen = UNION {Below(c) : c \in Starts(op, root)}
    BY ONLY <1>3, <2>2, <2>3, SeenIsBelow
  <2>. QED BY <1>1, <1>2, <1>3, <2>1, <2>4, ReturnsHier
<1>6. CASE ~(op = "recursive" /\ Len(stack) = 1)
  <2>1. call' = [call EXCEPT !.stack = Tail(call.stack)] /\ last' = last
    BY <1>2, <1>6 DEF CellDone
  <2>2. call' = [op |-> op, root |-> root, stack |-> Tail(stack), out |-> out, seen |-> seen, left |-> left]
    <3>1. PICK s : s = Tail(call.stack)
      OBVIOUS
    <3>2. call' = [op |-> call.op, root |-> call.root, stack |-> s, out |-> call.out, seen |-> call.seen,
                   left |-> call.left]
      BY <1>1, <2>1, <3>1, TopIs, CallWith
    <3>. QED BY <1>2, <3>1, <3>2
  <2>3. ReadKeys' = R
    BY <1>1, <1>2, SameReads
  <2>. QED BY <1>1, <1>3, <1>4, <1>6, <2>1, <2>2, <2>3, HierAt
<1>. QED BY <1>5, <1>6

LEMMA NextCellHier ==
  ASSUME IInv, Progress, Hierarchy, NextCell
  PROVE  Hierarchy'
<1>1. /\ ReadOp /\ call.op = "library" /\ call.stack = << >> /\ UNCHANGED <<disk, open, prims, yaml, last>>
  BY DEF NextCell, ReadOp, stored, settings
<1>2. PICK c \in call.left : call' = [call EXCEPT !.stack = <<Frame(c)>>, !.left = @ \ {c}]
  BY DEF NextCell
<1>3. PICK R, op, root, stack, out, seen, left, s :
        /\ R = ReadKeys /\ op = call.op /\ root = call.root /\ stack = call.stack
        /\ out = call.out /\ seen = call.seen /\ left = call.left /\ s = <<Frame(c)>>
  OBVIOUS
<1>4. call' = [op |-> op, root |-> root, stack |-> s, out |-> out, seen |-> seen, left |-> left \ {c}]
  <2>1. PICK l : l = call.left \ {c}
    OBVIOUS
  <2>2. call' = [call EXCEPT !.stack = s, !.left = l]
    BY <1>2, <1>3, <2>1
  <2>3. call' = [op |-> call.op, root |-> call.root, stack |-> s, out |-> call.out, seen |-> call.seen,
                 left |-> l]
    BY <1>1, <2>2, ReadingFacts, CallWith
  <2>. QED BY <1>3, <2>1, <2>3
<1>5. Hier(R, op, root, stack, out, seen, left) /\ op = "library" /\ stack = << >>
  BY <1>1, <1>3 DEF Hierarchy
<1>6. c \in Starts(op, root) /\ Reached(op, root, c) /\ Pair(c)
  <2>1. c \in Starts(op, root)
    BY <1>3, <1>5 DEF Hier
  <2>. QED BY <1>5, <2>1, ReachesStart DEF Starts, CellKeys, Pair
<1>7. DOMAIN s = {1} /\ s[1] = Frame(c) /\ Len(s) = 1 /\ s # << >>
  BY <1>3
<1>8. FrameHier(R, op, root, Frame(c), seen)
  BY <1>5, <1>6 DEF FrameHier, Frame
<1>9. \A x \in seen : \A m \in MastersOf(x) : m \in seen
  BY <1>5 DEF Hier, Waits
<1>10. Frame(c).cell = c
  BY DEF Frame
<1>11. Hier(R, op, root, s, out, seen, left \ {c})
  BY <1>5, <1>7, <1>8, <1>9, <1>10 DEF Hier
<1>12. ReadKeys' = R
  BY <1>1, <1>3, SameReads
<1>13. last = NoCall
  BY <1>1 DEF Progress, Idle
<1>. QED BY <1>1, <1>4, <1>11, <1>12, <1>13, HierAt

LEMMA LibraryDoneHier ==
  ASSUME IInv, Progress, Hierarchy, LibraryDone
  PROVE  Hierarchy'
<1>1. /\ ReadOp /\ call.op = "library" /\ call.stack = << >> /\ call.left = {} /\ call' = Idle
      /\ last' = [op |-> call.op, ok |-> TRUE, root |-> call.root, out |-> call.out]
      /\ UNCHANGED <<disk, open, prims, yaml>>
  BY DEF LibraryDone, Return, Finished, ReadOp, stored, settings
<1>2. PICK R, op, root, stack, out, seen, left :
        /\ R = ReadKeys /\ op = call.op /\ root = call.root /\ stack = call.stack
        /\ out = call.out /\ seen = call.seen /\ left = call.left
  OBVIOUS
<1>3. Hier(R, op, root, stack, out, seen, left) /\ op = "library" /\ stack = << >> /\ left = {}
  BY <1>1, <1>2 DEF Hierarchy
<1>4. /\ \A c \in seen : MastersOf(c) \subseteq seen
      /\ Starts(op, root) \subseteq seen
  BY <1>3 DEF Hier, Waits
<1>5. R \subseteq DOMAIN Masters
  BY <1>2 DEF ReadKeys
<1>6. seen = UNION {Below(c) : c \in Starts(op, root)}
  BY ONLY <1>3, <1>4, <1>5, SeenIsBelow
<1>. QED BY <1>1, <1>2, <1>3, <1>6, ReturnsHier

\* A reading call starts.
LEMMA StartsHier ==
  ASSUME Hierarchy, \/ \E c \in Roots : ReadSchRecursive(c)
                    \/ \E l \in Libraries : ReadLibrary(l)
  PROVE  Hierarchy'
<1>1. CASE \E c \in Roots : ReadSchRecursive(c)
  <2>1. PICK c \in Roots : ReadSchRecursive(c)
    BY <1>1
  <2>2. UNCHANGED <<disk, open, prims>> /\ last' = NoCall
    BY <2>1 DEF ReadSchRecursive, Begin, stored, settings
  <2>3. PICK s : s = <<Frame(c)>>
    OBVIOUS
  <2>4. call' = [op |-> "recursive", root |-> c, stack |-> s, out |-> << >>, seen |-> {}, left |-> {}]
    BY <2>1, <2>3 DEF ReadSchRecursive
  <2>5. Pair(c) /\ Reached("recursive", c, c)
    BY OaAssumption, ReachesStart DEF Pair, Starts
  <2>6. DOMAIN s = {1} /\ s[1] = Frame(c) /\ Len(s) = 1 /\ s # << >> /\ Frame(c).cell = c
    BY <2>3 DEF Frame
  <2>7. \A R : FrameHier(R, "recursive", c, Frame(c), {})
    BY <2>5 DEF FrameHier, Frame
  <2>8. << >> \in Seq({}) /\ ToSet(<< >>) = {} /\ IsInjective(<< >>)
    BY DEF ToSet, IsInjective
  <2>9. \A R : Hier(R, "recursive", c, s, << >>, {}, {})
    BY <2>6, <2>7, <2>8 DEF Hier
  <2>10. PICK R : R = ReadKeys'
    OBVIOUS
  <2>. QED BY <2>2, <2>4, <2>9, <2>10, HierAt
<1>2. CASE \E l \in Libraries : ReadLibrary(l)
  <2>1. PICK l \in Libraries : ReadLibrary(l)
    BY <1>2
  <2>2. UNCHANGED <<disk, open, prims>>
    BY <2>1 DEF ReadLibrary, stored, settings
  <2>3. CASE l \notin known
    <3>1. call' = Idle /\ last'.ok = FALSE
      BY <2>1, <2>3 DEF ReadLibrary, Return
    <3>. QED BY <2>2, <3>1, QuietHier DEF Hierarchy, ReadOp, Idle
  <2>4. CASE l \in known
    <3>1. PICK left : left = {<<k[1], k[2]>> : k \in {x \in DOMAIN disk : x[1] = l}}
      OBVIOUS
    <3>2. /\ call' = [op |-> "library", root |-> l, stack |-> << >>, out |-> << >>, seen |-> {}, left |-> left]
          /\ last' = NoCall
      BY <2>1, <2>4, <3>1 DEF ReadLibrary
    <3>3. left = Starts("library", l)
      BY <3>1 DEF Starts, CellKeys
    <3>4. << >> \in Seq({}) /\ ToSet(<< >>) = {} /\ DOMAIN << >> = {}
      BY DEF ToSet
    <3>5. \A R : Hier(R, "library", l, << >>, << >>, {}, left)
      BY <3>3, <3>4 DEF Hier
    <3>6. PICK R : R = ReadKeys'
      OBVIOUS
    <3>. QED BY <2>2, <3>2, <3>5, <3>6, HierAt
  <2>. QED BY <2>3, <2>4
<1>. QED BY <1>1, <1>2

\* The steps of the calls that write.
LEMMA WritingHier ==
  ASSUME IInv, Progress, Hierarchy, Writing,
         \/ ReadTech \/ ListDone \/ OpenDesign \/ BuildSch \/ BuildUndefined \/ BuildLay
         \/ Save \/ WriteCellData \/ WriteCellViewData \/ Stamp \/ StampUndefined \/ Close
  PROVE  Hierarchy'
<1>1. last = NoCall /\ call.op \in {"sch", "lay"}
  BY DEF Writing, Progress, Idle
<1>2. EntryKey = <<EntryKey[1], EntryKey[2], EntryKey[3]>>
  BY DEF EntryKey
<1>3. \A k \in DOMAIN disk' : k \in DOMAIN disk \/ k = EntryKey
  BY DEF ReadTech, ListDone, OpenDesign, BuildSch, BuildUndefined, BuildLay, Save, WriteCellData,
     WriteCellViewData, Stamp, StampUndefined, Close, Fail, ProcessEnds, stored, InsertOrAssign
<1>4. \A k \in DOMAIN disk' : k = <<k[1], k[2], k[3]>>
  BY <1>2, <1>3 DEF Hierarchy
<1>5. last' = NoCall \/ last'.ok = FALSE \/ last'.op \in {"sch", "lay"}
  BY <1>1 DEF ReadTech, ListDone, OpenDesign, BuildSch, BuildUndefined, BuildLay, Save, WriteCellData,
     WriteCellViewData, Stamp, StampUndefined, Close, Fail, ProcessEnds, WriteStep, Return
<1>6. call' = Idle \/ call' = Advanced \/ \E at : call' = [call EXCEPT !.at = at]
  BY DEF ReadTech, ListDone, OpenDesign, BuildSch, BuildUndefined, BuildLay, Save, WriteCellData,
     WriteCellViewData, Stamp, StampUndefined, Close, Fail, ProcessEnds, WriteStep, Return
<1>7. call'.op \in {"idle", "sch", "lay"}
  <2>1. CASE call' = Idle
    BY <2>1 DEF Idle
  <2>2. CASE call' = Advanced
    <3>1. call'.op = call.op
      BY <2>2, WritingFacts DEF Advanced
    <3>. QED BY <1>1, <3>1
  <2>3. CASE \E at : call' = [call EXCEPT !.at = at]
    <3>1. PICK at : call' = [call EXCEPT !.at = at]
      BY <2>3
    <3>2. call'.op = call.op
      BY <3>1, WritingFacts
    <3>. QED BY <1>1, <3>2
  <2>. QED BY <1>6, <2>1, <2>2, <2>3
<1>8. ~ReadOp'
  BY <1>7 DEF ReadOp
<1>9. last'.op \notin {"recursive", "library"} \/ last'.ok = FALSE
  <2>1. CASE last' = NoCall
    BY <2>1 DEF NoCall
  <2>. QED BY <1>5, <2>1
<1>. QED BY ONLY Hierarchy, <1>4, <1>8, <1>9, QuietHier

\* The steps of the other calls, and what happens between calls.
LEMMA OtherHier ==
  ASSUME IInv, Progress, Hierarchy,
         \/ \E l \in DOMAIN SchLists : ImplementSchList(l)
         \/ \E l \in DOMAIN LayLists : ImplementLayList(l)
         \/ \E l \in YamlLibs : AddYamlPath(l)
         \/ \E l \in PrimLibs : AddPrimitiveLib(l)
         \/ \E l \in NewLibs, tech \in Libraries : CreateLib(l, tech)
         \/ AttachTech \/ AppendDefine \/ OaThrows \/ Crash \/ Destroy
  PROVE  Hierarchy'
<1>1. disk' = disk
  BY DEF ImplementSchList, ImplementLayList, Begin, AddYamlPath, AddPrimitiveLib, CreateLib, AttachTech,
     AppendDefine, OaThrows, Crash, ProcessEnds, Destroy, Fail, stored
<1>2. ~ReadOp'
  <2>1. CASE AttachTech /\ ~Fail(call)
    <3>1. call.op = "lib" /\ call' = [call EXCEPT !.at = "define"]
      BY <2>1 DEF AttachTech, At
    <3>2. call = [op |-> "lib", at |-> call.at, lib |-> call.lib, tech |-> call.tech]
      BY <3>1 DEF IInv, CallShape
    <3>. QED BY <3>1, <3>2 DEF ReadOp
  <2>2. CASE ~AttachTech \/ Fail(call)
    BY <2>2 DEF ImplementSchList, ImplementLayList, AddYamlPath, AddPrimitiveLib, CreateLib, AppendDefine,
       OaThrows, Crash, ProcessEnds, Destroy, Fail, Return, ReadOp, Idle
  <2>. QED BY <2>1, <2>2
<1>3. \/ last' = NoCall \/ last'.ok = FALSE \/ last'.op = "lib"
      \/ UNCHANGED <<disk, open, prims, yaml, last>>
  BY DEF ImplementSchList, ImplementLayList, Begin, AddYamlPath, AddPrimitiveLib, CreateLib, AttachTech,
     AppendDefine, OaThrows, Crash, ProcessEnds, Destroy, Fail, Return, stored, settings
<1>4. \A k \in DOMAIN disk' : k = <<k[1], k[2], k[3]>>
  BY <1>1 DEF Hierarchy
<1>5. \/ last'.op \notin {"recursive", "library"} \/ last'.ok = FALSE
      \/ UNCHANGED <<disk, open, prims, yaml, last>>
  <2>1. CASE last' = NoCall
    BY <2>1 DEF NoCall
  <2>. QED BY <1>3, <2>1
<1>. QED BY ONLY Hierarchy, <1>2, <1>4, <1>5, QuietHier

LEMMA InitHier == Init => Hierarchy
BY OaAssumption DEF Init, Hierarchy, ReadOp, ReadReachable, Idle, NoCall

LEMMA NextHier == IInv /\ Progress /\ Hierarchy /\ [Next]_vars => Hierarchy'
<1>. SUFFICES ASSUME IInv, Progress, Hierarchy, [Next]_vars PROVE Hierarchy'
  OBVIOUS
<1>1. CASE Request
  BY <1>1, StartsHier, OtherHier DEF Request
<1>2. CASE Step
  <2>1. CASE \/ ReadTech \/ ListDone \/ OpenDesign \/ BuildSch \/ BuildUndefined \/ BuildLay
             \/ Save \/ WriteCellData \/ WriteCellViewData \/ Stamp \/ StampUndefined \/ Close
    <3>1. Writing
      BY <2>1 DEF ReadTech, ListDone, OpenDesign, BuildSch, BuildUndefined, BuildLay, Save, WriteCellData,
         WriteCellViewData, Stamp, StampUndefined, Close, At, AtEntry, Writing
    <3>. QED BY ONLY IInv, Progress, Hierarchy, <2>1, <3>1, WritingHier
  <2>2. CASE AttachTech \/ AppendDefine
    BY <2>2, OtherHier
  <2>3. CASE ReadSchematic \/ ReadSymbol \/ FinishCell
    BY <2>3, ReadSchematicHier, ReadSymbolHier, FinishCellHier
  <2>4. CASE VisitMaster \/ CellDone \/ NextCell \/ LibraryDone
    BY <2>4, VisitMasterHier, CellDoneHier, NextCellHier, LibraryDoneHier
  <2>. QED BY <1>2, <2>1, <2>2, <2>3, <2>4 DEF Step
<1>3. CASE OaThrows \/ Crash \/ Destroy
  BY <1>3, OtherHier
<1>4. CASE UNCHANGED vars
  <2>1. UNCHANGED <<disk, open, prims, yaml, last, call>>
    BY <1>4 DEF vars
  <2>2. CASE ~ReadOp
    BY <2>1, <2>2, QuietHier DEF Hierarchy, ReadOp
  <2>3. CASE ReadOp
    <3>1. PICK R, op, root, stack, out, seen, left :
            /\ R = ReadKeys /\ op = call.op /\ root = call.root /\ stack = call.stack
            /\ out = call.out /\ seen = call.seen /\ left = call.left
      OBVIOUS
    <3>2. call' = [op |-> op, root |-> root, stack |-> stack, out |-> out, seen |-> seen, left |-> left]
      BY <2>1, <2>3, <3>1, ReadingFacts
    <3>3. last' = NoCall /\ ReadKeys' = R
      BY <2>1, <2>3, <3>1, SameReads DEF Progress, ReadOp, Idle
    <3>4. Hier(R, op, root, stack, out, seen, left)
      BY <2>3, <3>1 DEF Hierarchy
    <3>. QED BY <2>1, <3>2, <3>3, <3>4, HierAt
  <2>. QED BY <2>2, <2>3
<1>. QED BY <1>1, <1>2, <1>3, <1>4 DEF Next

\* A recursive read that returns has listed every cell below its root once, and no other,
\* and one of a library every cell below any of its own; their designs are in the YAML
\* files as they are in the database.
THEOREM AlwaysReadReachable == Spec => []ReadReachable
<1>1. Init => Progress
  BY InitProgress
<1>2. Init => Hierarchy
  BY InitHier
<1>3. Hierarchy => ReadReachable
  BY DEF Hierarchy
<1>. QED BY <1>1, <1>2, <1>3, NextProgress, NextHier, Invariant, AlwaysSaved, PTL DEF Spec
=============================================================================
