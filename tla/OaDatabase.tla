----------------------------- MODULE OaDatabase -----------------------------
(***************************************************************************)
(* A session with an OpenAccess database: oa_database and the functions    *)
(* that write lists of cellviews into a library (implement_sch_list,       *)
(* implement_lay_list), that read cells with all they instantiate into     *)
(* YAML files (read_sch_recursive, read_library), and that create          *)
(* libraries.  Any call of the OpenAccess library may throw, and the       *)
(* process may end at any step; a new one finds what was saved.            *)
(*                                                                         *)
(* A cellview's key is <<lib, cell, view>>.  A design that is open twice   *)
(* is one design, and a reader or an instance sees it as it is in memory.  *)
(* get_cells_in_lib, get_lib_path and write_tech_info_file change nothing  *)
(* that is kept here and are left out.                                     *)
(***************************************************************************)
EXTENDS OaDesign, OaLayout, FiniteSets

CONSTANTS
  Disks,       \* the contents that the libraries may start with
  Libraries,   \* all the libraries, with those that may be created
  TechLibs,    \* the libraries with a technology
  SchLists,    \* the lists of schematics to write, by a name for each: [lib, symView, entries]
  LayLists,    \* the lists of layouts to write: [lib, entries]
  NewLibs,     \* the libraries that create_lib may be called for
  YamlLibs,    \* the libraries that may be given a directory for YAML files
  PrimLibs,    \* the libraries that may be declared primitive
  Roots,       \* the cells that are read with their hierarchy
  SchView, SymView, LayView,
  NoSym,       \* a cellview without a symbol
  MaxCalls, MaxFaults

\* A list names no cell twice, technologies come with the libraries that are there, the
\* views of a cell have names of their own, and a design is named by library, cell and view.
ASSUME OaAssumption ==
  /\ NewLibs \cup YamlLibs \cup PrimLibs \subseteq Libraries
  /\ SchView # SymView
  /\ \A list \in Range(SchLists) \cup Range(LayLists) :
       /\ list.lib \in Libraries
       /\ list.entries \in Seq(ToSet(list.entries))
       /\ \A i, j \in DOMAIN list.entries : list.entries[i].name = list.entries[j].name => i = j
  /\ \A saved \in Disks : \A k \in DOMAIN saved : k = <<k[1], k[2], k[3]>> /\ k[1] \in Libraries
  /\ \A c \in Roots : c = <<c[1], c[2]>>

\* What is written are cellviews of the generator, of the types of cybag.
ASSUME CellviewsAssumption ==
  /\ \A list \in Range(SchLists) : \A e \in ToSet(list.entries) :
       IsSchCellview(e.cv) /\ (e.cv.sym # NoSym => IsSchCellview(e.cv.sym))
  /\ \A list \in Range(LayLists) : \A e \in ToSet(list.entries) : IsLayCellview(e.cv)

VARIABLES
  disk,      \* the designs that are saved
  cells,     \* the cell data: the order of the terminals
  views,     \* the cellview data: the masters that a schematic depends on
  yaml,      \* the YAML files, by the library of their directory, cell and view
  known,     \* the libraries that are open
  defined,   \* the libraries in the definition file
  attached,  \* the libraries with a technology
  paths,     \* yaml_path_map: the libraries with a directory for YAML files
  prims,     \* primitive_libs
  open,      \* the designs in memory that were opened and not closed
  access,    \* the read accesses held on each library
  call,      \* the call that is executing
  last,      \* the call that returned last
  written,   \* what each saved design was written from
  clean,     \* no call of this process has thrown
  calls, faults

vars == <<disk, cells, views, yaml, known, defined, attached, paths, prims, open, access, call,
          last, written, clean, calls, faults>>
stored == <<disk, cells, views, yaml, defined, attached, written>>
settings == <<known, paths, prims>>

Idle == [op |-> "idle"]
NoCall == [op |-> "none", ok |-> FALSE]
At(op, at) == call.op = op /\ call.at = at
Current(k) == IF k \in DOMAIN open THEN open[k] ELSE disk[k]
Masters == [k \in DOMAIN disk \cup DOMAIN open |-> Current(k)]

Init ==
  /\ disk \in Disks
  /\ cells = << >> /\ views = << >> /\ yaml = << >>
  /\ known = {k[1] : k \in DOMAIN disk} /\ defined = known /\ attached = known
  /\ paths = {} /\ prims = {}
  /\ open = << >> /\ access = [l \in Libraries |-> 0]
  /\ call = Idle /\ last = NoCall
  /\ written = << >> /\ clean = TRUE
  /\ calls = 0 /\ faults = 0

Begin ==
  /\ call = Idle /\ calls < MaxCalls
  /\ last' = NoCall /\ calls' = calls + 1
  /\ UNCHANGED <<stored, settings, open, access, clean, faults>>

Return(c) == call' = Idle /\ last' = c

\* An exception: the designs that are open and the accesses that are held stay.
Fail(c) ==
  /\ call' = Idle /\ last' = [op |-> c.op, ok |-> FALSE] /\ clean' = FALSE
  /\ UNCHANGED <<stored, settings, access, calls, faults>>

\* The process ends; a new one opens the libraries that are defined.
ProcessEnds ==
  /\ known' = defined /\ paths' = {} /\ prims' = {}
  /\ open' = << >> /\ access' = [l \in Libraries |-> 0]
  /\ call' = Idle /\ last' = NoCall /\ clean' = TRUE
  /\ UNCHANGED <<stored, calls>>

\* A call of OpenAccess or of the file system throws.
OaThrows ==
  /\ call # Idle /\ faults < MaxFaults
  /\ call' = Idle /\ last' = [op |-> call.op, ok |-> FALSE] /\ clean' = FALSE
  /\ faults' = faults + 1
  /\ UNCHANGED <<disk, cells, views, yaml, defined, attached, written, settings, open, access, calls>>

Crash ==
  /\ faults < MaxFaults /\ faults' = faults + 1
  /\ ProcessEnds

\* The destructor closes the libraries.
Destroy ==
  /\ call = Idle /\ calls < MaxCalls /\ known # {}
  /\ known' = {} /\ calls' = calls + 1
  /\ UNCHANGED <<stored, paths, prims, open, access, call, last, clean, faults>>

AddYamlPath(l) ==
  /\ call = Idle /\ l \notin paths
  /\ paths' = paths \cup {l}
  /\ UNCHANGED <<stored, known, prims, open, access, call, last, clean, calls, faults>>

AddPrimitiveLib(l) ==
  /\ call = Idle /\ l \notin prims
  /\ prims' = prims \cup {l} /\ last' = NoCall
  /\ UNCHANGED <<stored, known, paths, open, access, call, clean, calls, faults>>

-----------------------------------------------------------------------------
\* create_lib

\* A library that is open is left as it is.
CreateLib(l, tech) ==
  /\ call = Idle /\ calls < MaxCalls /\ calls' = calls + 1
  /\ IF l \in known
     THEN Return([op |-> "lib", ok |-> TRUE]) /\ UNCHANGED known
     ELSE /\ call' = [op |-> "lib", at |-> "attach", lib |-> l, tech |-> tech] /\ last' = NoCall
          /\ known' = known \cup {l}
  /\ UNCHANGED <<stored, paths, prims, open, access, clean, faults>>

AttachTech ==
  /\ At("lib", "attach")
  /\ IF call.tech \in TechLibs
     THEN /\ call' = [call EXCEPT !.at = "define"] /\ attached' = attached \cup {call.lib}
          /\ UNCHANGED <<disk, cells, views, yaml, defined, written, settings, open, access,
                         last, clean, calls, faults>>
     ELSE Fail(call) /\ UNCHANGED open

\* The line of the definition file, and the cdsinfo.tag file, which nothing reads here.
AppendDefine ==
  /\ At("lib", "define")
  /\ defined' = defined \cup {call.lib}
  /\ Return([op |-> "lib", ok |-> TRUE])
  /\ UNCHANGED <<disk, cells, views, yaml, attached, written, settings, open, access, clean, calls,
                 faults>>

-----------------------------------------------------------------------------
\* implement_sch_list and implement_lay_list

ImplementSchList(l) ==
  /\ Begin
  /\ call' = [op |-> "sch", at |-> "open", list |-> l, k |-> 1, isSch |-> TRUE, renames |-> << >>]

ImplementLayList(l) ==
  /\ Begin
  /\ call' = [op |-> "lay", at |-> "tech", list |-> l, k |-> 1, isSch |-> FALSE, renames |-> << >>]

ListOf(op, l) == IF op = "lay" THEN LayLists[l] ELSE SchLists[l]
List == ListOf(call.op, call.list)
Entry == List.entries[call.k]
EntryView == IF call.op = "lay" THEN LayView ELSE IF call.isSch THEN SchView ELSE SymView
EntryKey == <<List.lib, Entry.name, EntryView>>
EntryType == IF call.op = "lay" THEN "layout" ELSE IF call.isSch THEN "schematic" ELSE "symbol"
CvOf(w) == LET cv == ListOf(w.op, w.list).entries[w.k].cv IN IF w.type = "symbol" THEN cv.sym ELSE cv
Source == [op |-> call.op, list |-> call.list, k |-> call.k, type |-> EntryType, renames |-> call.renames]
EntryCv == IF EntryType = "symbol" THEN Entry.cv.sym ELSE Entry.cv
Writing == call.op \in {"sch", "lay"}
AtEntry == Writing /\ call.at \notin {"tech", "open"}

WriteStep(at) ==
  /\ call' = [call EXCEPT !.at = at]
  /\ UNCHANGED <<settings, access, last, defined, attached, yaml, clean, calls, faults>>

\* The technology of the library is found or opened.
ReadTech ==
  /\ At("lay", "tech")
  /\ IF List.lib \in attached \cap known
     THEN WriteStep("open") /\ UNCHANGED <<disk, cells, views, written, open>>
     ELSE Fail(call) /\ UNCHANGED open

\* The loop over the list is at its end.
ListDone ==
  /\ Writing /\ call.at = "open" /\ call.k > Len(List.entries)
  /\ Return([op |-> call.op, ok |-> TRUE, list |-> call.list])
  /\ UNCHANGED <<stored, settings, open, access, clean, calls, faults>>

\* Opening for writing empties the design; its block is created.
OpenDesign ==
  /\ Writing /\ call.at = "open" /\ call.k <= Len(List.entries)
  /\ IF List.lib \in known
     THEN /\ open' = InsertOrAssign(open, EntryKey,
                               IF EntryType = "layout" THEN EmptyLayout ELSE EmptyDesign(EntryType))
          /\ WriteStep("build") /\ UNCHANGED <<disk, cells, views, written>>
     ELSE Fail(call) /\ UNCHANGED open

BuildSch ==
  /\ At("sch", "build")
  /\ ~RenameMissing(call.renames, EntryCv)
  /\ ~PinMissing(Masters, List.lib, call.renames, EntryCv)
  /\ IF Writable(Masters, List.lib, call.renames, EntryCv, EntryType)
     THEN /\ open' = [open EXCEPT ![EntryKey] =
                        WriteSchCellview(Masters, List.lib, call.renames, EntryCv, EntryType)]
          /\ WriteStep("save") /\ UNCHANGED <<disk, cells, views, written>>
     ELSE Fail(call) /\ UNCHANGED open

\* The end of the map, or a null pin, is dereferenced: the process dies, or it goes on
\* with a name that no cell has.
BuildUndefined ==
  /\ At("sch", "build")
  /\ RenameMissing(call.renames, EntryCv)
       \/ PinMissing(Masters, List.lib, call.renames, EntryCv)
  /\ \/ ProcessEnds /\ UNCHANGED faults
     \/ Fail(call) /\ UNCHANGED open

BuildLay ==
  /\ At("lay", "build")
  /\ open' = [open EXCEPT ![EntryKey] =
                WriteLayCellview(EntryCv, List.lib, LayView, call.renames)]
  /\ WriteStep("save") /\ UNCHANGED <<disk, cells, views, written>>

Save ==
  /\ Writing /\ call.at = "save"
  /\ disk' = InsertOrAssign(disk, EntryKey, open[EntryKey])
  /\ written' = InsertOrAssign(written, EntryKey, Source)
  /\ WriteStep(IF EntryType = "schematic" THEN "cellData" ELSE "close")
  /\ UNCHANGED <<cells, views, open>>

WriteCellData ==
  /\ At("sch", "cellData")
  /\ cells' = InsertOrAssign(cells, <<List.lib, Entry.name>>, TermOrder(EntryCv.terms))
  /\ WriteStep("viewData") /\ UNCHANGED <<disk, views, written, open>>

WriteCellViewData ==
  /\ At("sch", "viewData")
  /\ views' = InsertOrAssign(views, EntryKey, Dependencies(EntryCv))
  /\ WriteStep("stamp") /\ UNCHANGED <<disk, cells, written, open>>

Stamp ==
  /\ At("sch", "stamp") /\ ~StampMissing(open[EntryKey])
  /\ open' = [open EXCEPT ![EntryKey] = Stamped(@)]
  /\ WriteStep("close") /\ UNCHANGED <<disk, cells, views, written>>

\* A null property is written to.
StampUndefined ==
  /\ At("sch", "stamp") /\ StampMissing(open[EntryKey])
  /\ ProcessEnds /\ UNCHANGED faults

SymbolNext == EntryType = "schematic" /\ Entry.cv.sym # NoSym /\ List.symView

\* A slip: the list does not move on to the next cellview.
Advanced_Stays ==
  IF SymbolNext THEN [call EXCEPT !.at = "open", !.isSch = FALSE]
  ELSE [call EXCEPT !.at = "open", !.isSch = TRUE, !.renames = InsertOrAssign(@, Entry.cv.cell, Entry.name)]

\* The symbol of a schematic comes next, or the next cellview of the list, which may
\* instantiate this one under its new name.
Advanced ==
  IF SymbolNext THEN [call EXCEPT !.at = "open", !.isSch = FALSE]
  ELSE [call EXCEPT !.at = "open", !.isSch = TRUE, !.k = @ + 1,
                    !.renames = InsertOrAssign(@, Entry.cv.cell, Entry.name)]

\* The second save and the close.
Close ==
  /\ Writing /\ call.at = "close"
  /\ disk' = [disk EXCEPT ![EntryKey] = open[EntryKey]]
  /\ open' = Erase(open, EntryKey)
  /\ call' = Advanced
  /\ UNCHANGED <<cells, views, yaml, defined, attached, written, settings, access, last, clean,
                 calls, faults>>

-----------------------------------------------------------------------------
\* read_sch_recursive and read_library

Frame(cell) == [cell |-> cell, at |-> "schematic", syms |-> {}, todo |-> {}]
Push(s, x) == <<x>> \o s

ReadSchRecursive(cell) ==
  /\ Begin
  /\ call' = [op |-> "recursive", root |-> cell, stack |-> <<Frame(cell)>>, out |-> << >>, seen |-> {},
              left |-> {}]

\* A read access is taken before the cells of the library are gone through.
ReadLibrary(l) ==
  /\ call = Idle /\ calls < MaxCalls /\ calls' = calls + 1
  /\ IF l \in known
     THEN /\ call' = [op |-> "library", root |-> l, stack |-> << >>, out |-> << >>, seen |-> {},
                      left |-> {<<k[1], k[2]>> : k \in {x \in DOMAIN disk : x[1] = l}}]
          /\ access' = [access EXCEPT ![l] = @ + 1] /\ last' = NoCall /\ UNCHANGED clean
     ELSE /\ Return([op |-> "library", ok |-> FALSE]) /\ clean' = FALSE /\ UNCHANGED access
  /\ UNCHANGED <<stored, settings, open, faults>>

Reading == call.op \in {"recursive", "library"} /\ call.stack # << >>
Top == call.stack[1]
TopKey(view) == <<Top.cell[1], Top.cell[2], view>>

ReadStep(frame) ==
  /\ call' = [call EXCEPT !.stack[1] = frame]
  /\ UNCHANGED <<disk, cells, views, defined, attached, written, settings, last, clean, calls,
                 faults>>

\* Without a directory or a library nothing is opened; a design that throws when it is
\* read stays open.
ReadFails(k) ==
  /\ Fail(call)
  /\ open' = IF k[1] \in paths \cap known /\ k \in DOMAIN Masters
             THEN InsertOrAssign(open, k, Current(k)) ELSE open

ReadInto(k) == yaml' = InsertOrAssign(yaml, k, ReadSchCellview(Current(k), prims))

\* A slip: the library is not asked for read access.
ReadSchematic_NoAccess ==
  LET k == TopKey(SchView)
  IN /\ Reading /\ Top.at = "schematic"
     /\ IF Top.cell[1] \in paths \cap known /\ k \in DOMAIN Masters /\ Readable(Current(k))
        THEN /\ ReadInto(k)
             /\ ReadStep([Top EXCEPT !.at = "symbols",
                           !.syms = {x \in DOMAIN disk : <<x[1], x[2]>> = Top.cell
                                                           /\ Current(x).type = "symbol"}])
             /\ UNCHANGED <<open, access>>
        ELSE ReadFails(k)

\* The directory for the library, the schematic, its file; then the access for the symbols.
ReadSchematic ==
  LET k == TopKey(SchView)
  IN /\ Reading /\ Top.at = "schematic"
     /\ IF Top.cell[1] \in paths \cap known /\ k \in DOMAIN Masters /\ Readable(Current(k))
        THEN /\ ReadInto(k)
             /\ ReadStep([Top EXCEPT !.at = "symbols",
                           !.syms = {x \in DOMAIN disk : <<x[1], x[2]>> = Top.cell
                                                           /\ Current(x).type = "symbol"}])
             /\ access' = [access EXCEPT ![k[1]] = @ + 1] /\ UNCHANGED open
        ELSE ReadFails(k)

ReadSymbol ==
  /\ Reading /\ Top.at = "symbols"
  /\ \E k \in Top.syms :
       IF Readable(Current(k))
       THEN /\ ReadInto(k)
            /\ ReadStep([Top EXCEPT !.syms = @ \ {k}])
            /\ UNCHANGED <<open, access>>
       ELSE ReadFails(k)

\* A slip: the cell is not kept in mind.
FinishCell_Forgets ==
  /\ Reading /\ Top.at = "symbols" /\ Top.syms = {}
  /\ call' = [call EXCEPT
       !.out = Append(@, Top.cell),
       !.stack[1] = [Top EXCEPT !.at = "masters",
          !.todo = {<<x.lib, x.cell>> : x \in Range(yaml[TopKey(SchView)].insts)}]]
  /\ access' = [access EXCEPT ![Top.cell[1]] = @ - 1]
  /\ UNCHANGED <<stored, settings, open, last, clean, calls, faults>>

\* The access is released; the cell is listed and will not be read again.
FinishCell ==
  /\ Reading /\ Top.at = "symbols" /\ Top.syms = {}
  /\ call' = [call EXCEPT
       !.out = Append(@, Top.cell), !.seen = @ \cup {Top.cell},
       !.stack[1] = [Top EXCEPT !.at = "masters",
          !.todo = {<<x.lib, x.cell>> : x \in Range(yaml[TopKey(SchView)].insts)}]]
  /\ access' = [access EXCEPT ![Top.cell[1]] = @ - 1]
  /\ UNCHANGED <<stored, settings, open, last, clean, calls, faults>>

\* A slip: a master that has been read ends the loop.
VisitMaster_Breaks ==
  /\ Reading /\ Top.at = "masters"
  /\ \E m \in Top.todo :
       LET rest == [call EXCEPT !.stack[1].todo = @ \ {m}]
       IN call' = IF m \in call.seen \/ m[1] \in prims THEN [call EXCEPT !.stack[1].todo = {}]
                  ELSE [rest EXCEPT !.stack = Push(@, Frame(m))]
  /\ UNCHANGED <<stored, settings, open, access, last, clean, calls, faults>>

\* The master of an instance, unless it has been read or is a primitive.
VisitMaster ==
  /\ Reading /\ Top.at = "masters"
  /\ \E m \in Top.todo :
       LET rest == [call EXCEPT !.stack[1].todo = @ \ {m}]
       IN call' = IF m \in call.seen \/ m[1] \in prims THEN rest
                  ELSE [rest EXCEPT !.stack = Push(@, Frame(m))]
  /\ UNCHANGED <<stored, settings, open, access, last, clean, calls, faults>>

Finished == [op |-> call.op, ok |-> TRUE, root |-> call.root, out |-> call.out]

CellDone ==
  /\ Reading /\ Top.at = "masters" /\ Top.todo = {}
  /\ IF call.op = "recursive" /\ Len(call.stack) = 1 THEN Return(Finished)
     ELSE call' = [call EXCEPT !.stack = Tail(@)] /\ UNCHANGED last
  /\ UNCHANGED <<stored, settings, open, access, clean, calls, faults>>

\* Each cell of the library is read, whether it has been read as a master or not.
NextCell ==
  /\ call.op = "library" /\ call.stack = << >>
  /\ \E c \in call.left :
       call' = [call EXCEPT !.stack = <<Frame(c)>>, !.left = @ \ {c}]
  /\ UNCHANGED <<stored, settings, open, access, last, clean, calls, faults>>

LibraryDone ==
  /\ call.op = "library" /\ call.stack = << >> /\ call.left = {}
  /\ Return(Finished)
  /\ access' = [access EXCEPT ![call.root] = @ - 1]
  /\ UNCHANGED <<stored, settings, open, clean, calls, faults>>

-----------------------------------------------------------------------------
Request ==
  \/ \E l \in DOMAIN SchLists : ImplementSchList(l)
  \/ \E l \in DOMAIN LayLists : ImplementLayList(l)
  \/ \E c \in Roots : ReadSchRecursive(c)
  \/ \E l \in Libraries : ReadLibrary(l)
  \/ \E l \in YamlLibs : AddYamlPath(l)
  \/ \E l \in PrimLibs : AddPrimitiveLib(l)
  \/ \E l \in NewLibs, tech \in Libraries : CreateLib(l, tech)

Step ==
  \/ AttachTech \/ AppendDefine
  \/ ReadTech \/ ListDone \/ OpenDesign \/ BuildSch \/ BuildUndefined \/ BuildLay
  \/ Save \/ WriteCellData \/ WriteCellViewData \/ Stamp \/ StampUndefined \/ Close
  \/ ReadSchematic \/ ReadSymbol \/ FinishCell \/ VisitMaster \/ CellDone \/ NextCell \/ LibraryDone

Next == Request \/ Step \/ OaThrows \/ Crash \/ Destroy

\* One thread executes a call to its end.
Spec == Init /\ [][Next]_vars /\ WF_vars(Step)

-----------------------------------------------------------------------------
CellKeys == {<<k[1], k[2]>> : k \in DOMAIN disk}

\* Designs and cellviews are kept under keys of libraries that exist, no cell is being
\* read that is also above itself, an entry that is written is one of its list and its
\* design is open, and read accesses are not released twice.
TypeOK ==
  /\ \A k \in DOMAIN disk \cup DOMAIN open \cup DOMAIN views \cup DOMAIN yaml : k[1] \in Libraries
  /\ DOMAIN written \subseteq DOMAIN disk
  /\ access \in [Libraries -> Nat]
  /\ known \cup defined \cup attached \cup paths \cup prims \subseteq Libraries
  /\ AtEntry => call.k \in DOMAIN List.entries /\ EntryKey \in DOMAIN open
  /\ Reading => \A i, j \in DOMAIN call.stack : call.stack[i].cell = call.stack[j].cell => i = j

NewCell(w, lib, inst) == IF inst.prim THEN <<inst.lib, inst.cell>> ELSE <<lib, w.renames[inst.cell]>>
SavedAppDef(d) == [d EXCEPT !.kind = IF @ = "bool" THEN "int" ELSE @]

\* What is read from a design, some libraries being primitive, is what it was written from:
\* the pins with their types, signals and figures, the instances with their parameters and
\* nets and with masters under their new names, the steps of ranges aside, and the shapes
\* of a symbol, which has no instances.
ReadsBack(d, w, lib, primitive) ==
  LET cv == CvOf(w)
      r == ReadSchCellview(d, primitive)
  IN /\ Readable(d)
     /\ r.terms = cv.terms
     /\ DOMAIN r.insts = {NameUnit(i) : i \in DOMAIN cv.insts}
     /\ \A i \in DOMAIN cv.insts :
          LET old == cv.insts[i]
              new == r.insts[NameUnit(i)]
          IN /\ <<new.lib, new.cell>> = NewCell(w, lib, old)
             /\ new.view = old.view /\ new.params = old.params
             /\ \A t \in DOMAIN new.conns : new.conns[t] = old.conns[t]
     /\ w.type = "symbol" /\ DOMAIN cv.insts = {} => r.shapes = cv.shapes
     /\ DOMAIN r.appDefs = SavedAppDefs \cap DOMAIN cv.appDefs
     /\ \A a \in DOMAIN r.appDefs : r.appDefs[a] = SavedAppDef(cv.appDefs[a])
     /\ DOMAIN r.props = DOMAIN cv.props
     /\ \A p \in DOMAIN r.props \ (Timestamps \cup {"portOrder"}) : r.props[p] = cv.props[p]

\* Every schematic and symbol that was ever saved, by a list that ended or by one that
\* failed or died later, reads back as what it was written from (write_sch_cellview and
\* read_sch_cellview).
ReadBack ==
  \A k \in DOMAIN written :
    written[k].type # "layout" => ReadsBack(disk[k], written[k], k[1], prims)

\* An order of terminals that a netlister may use: each once, inputs before outputs and
\* both before the others.
GoodOrder(s, terms) ==
  /\ ToSet(s) = DOMAIN terms /\ Len(s) = Cardinality(DOMAIN terms)
  /\ \A i, j \in DOMAIN s : i < j =>
       /\ terms[s[j]].ttype = "input" => terms[s[i]].ttype = "input"
       /\ terms[s[j]].ttype = "output" => terms[s[i]].ttype \in {"input", "output"}

\* A design of the list that is written with its n-th entry, or later.
Replaced(list, n, m) ==
  \E j \in DOMAIN list.entries : j >= n /\ <<m[1], m[2]>> = <<list.lib, list.entries[j].name>>

\* Each instance connects exactly the terminals of a master that is there, unless a later
\* entry of the list replaced that one; it is saved unless a call that failed left it in
\* memory.
Connected(d, list, n) ==
  \A i \in {x \in DOMAIN d.insts : ~d.insts[x].pin} :
    LET m == d.insts[i].master
    IN ~Replaced(list, n, m) => /\ m \in DOMAIN (IF clean THEN disk ELSE Masters)
                                /\ DOMAIN d.insts[i].conns = DOMAIN Masters[m].terms

\* The schematic of the n-th entry is in the library with its cell data and time stamps.
SchComplete(list, n) ==
  LET e == list.entries[n]
      k == <<list.lib, e.name, SchView>>
  IN /\ k \in DOMAIN disk /\ k \in DOMAIN views /\ k \notin DOMAIN open
     /\ <<list.lib, e.name>> \in DOMAIN cells /\ GoodOrder(cells[<<list.lib, e.name>>], e.cv.terms)
     /\ "portOrder" \in DOMAIN e.cv.props => disk[k].props["portOrder"].val = cells[<<list.lib, e.name>>]
     /\ \A p \in Timestamps : disk[k].props[p].val = "updated"
     /\ Connected(disk[k], list, n)

SymComplete(list, n) ==
  list.symView /\ list.entries[n].cv.sym # NoSym => <<list.lib, list.entries[n].name, SymView>> \in DOMAIN disk

\* After a list of schematics was written without an exception, whatever failed before,
\* each is in the library with its cell data and time stamps, its instances connected to
\* masters that are there, and its symbol if there is to be one (implement_sch_list).
ListComplete ==
  last.op = "sch" /\ last.ok =>
    LET list == SchLists[last.list]
    IN \A n \in DOMAIN list.entries : SchComplete(list, n) /\ SymComplete(list, n)

\* The cells that the instances of a cell's schematic name, the primitives left out.
MastersOf(c) ==
  LET k == <<c[1], c[2], SchView>>
      named == {Current(k).insts[n].master : n \in {m \in DOMAIN Current(k).insts :
                                                    ~Current(k).insts[m].pin}}
  IN IF k \in DOMAIN Masters THEN {<<m[1], m[2]>> : m \in {x \in named : x[1] \notin prims}}
     ELSE {}

\* The cells below one, down to the primitives: those in every set that has it, and with
\* each cell its masters.
NamedCells ==
  LET there == {<<k[1], k[2]>> : k \in DOMAIN Masters}
  IN  there \cup UNION {MastersOf(c) : c \in there}
Below(c) ==
  LET masters == [x \in NamedCells |-> MastersOf(x)]
      closed == {S \in SUBSET NamedCells : c \in S /\ \A x \in S : masters[x] \subseteq S}
  IN  {x \in NamedCells : \A S \in closed : x \in S}

\* A recursive read that returns has listed every cell below its root once, and no other;
\* one of a library has listed every cell below any of its cells; and the schematics and
\* all symbols of the listed cells are in the YAML files as they are in the database.
ReadReachable ==
  last.op \in {"recursive", "library"} /\ last.ok =>
    /\ IF last.op = "recursive"
       THEN ToSet(last.out) = Below(last.root) /\ IsInjective(last.out)
       ELSE ToSet(last.out) = UNION {Below(c) : c \in {x \in CellKeys : x[1] = last.root}}
    /\ \A c \in ToSet(last.out) : \A k \in {x \in DOMAIN disk : <<x[1], x[2]>> = c} :
         k[3] = SchView \/ Current(k).type = "symbol"
           => /\ Readable(Current(k)) /\ k \in DOMAIN yaml
              /\ yaml[k] = ReadSchCellview(Current(k), prims)

\* While no call has thrown, a library is held for each cell whose symbols are being read
\* and for the library that is being gone through, and one design is open at most, the
\* one that is being written: nothing is left behind between two calls.
NothingHeld ==
  clean =>
    /\ \A l \in Libraries :
         access[l] = (IF call.op = "library" /\ call.root = l THEN 1 ELSE 0)
                       + (IF Reading /\ Top.at = "symbols" /\ Top.cell[1] = l THEN 1 ELSE 0)
    /\ DOMAIN open \subseteq (IF AtEntry THEN {EntryKey} ELSE {})

\* A layout has each polygon of the cellview on the layer of its mask, each pin as a
\* rectangle on a pin of its net's terminal, the vias that the technology knows, and
\* instances of the cells that were written for the cellviews.
LayoutWritten(d, w, lib) ==
  LET cv == CvOf(w)
  IN /\ \A geo \in cv.geos : \A p \in ToSet(geo.polys) :
          \E s \in d.shapes : /\ s.id = p.id /\ s.purp = geo.purp
                              /\ geo.layer \in DOMAIN ColorMap => <<s.layer, s.color>> = ColorMap[geo.layer]
                              /\ geo.layer \notin DOMAIN ColorMap => s.layer = geo.layer
     /\ \A p \in cv.pins : p.physical /\ MakePin =>
          p.net \in d.terms /\ \E s \in d.shapes : s.id = p.id /\ s.type = "rect" /\ s.term = p.net
     /\ \A s \in d.shapes : s.term # NoTerm => s.term \in d.terms
     /\ \A v \in cv.vias : v \in d.vias <=> v \in ViaDefs
     /\ \A i \in DOMAIN cv.insts : ~cv.insts[i].reference /\ cv.insts[i].cell \in DOMAIN w.renames =>
          d.insts[i].master = <<lib, w.renames[cv.insts[i].cell], LayView>>

\* Every layout that was saved is written in full, and the cells that came before it in its
\* list are there (write_lay_cellview).
LayoutSaved ==
  \A k \in DOMAIN written : written[k].type = "layout" =>
    /\ LayoutWritten(disk[k], written[k], k[1])
    /\ \A c \in DOMAIN written[k].renames : <<k[1], written[k].renames[c], LayView>> \in DOMAIN disk

\* Every call ends: no list, and no hierarchy, is gone through for ever, cyclic ones included.
CallsEnd == call # Idle ~> call = Idle
=============================================================================
