# A TLA+ development of cbag

`cbag` is the C++ core of the BAG analog-layout generator. It keeps schematics and
layouts in memory, edits them, looks up technology rules, writes netlists and GDSII
streams, and exchanges cellviews with an OpenAccess database. It is single-threaded and
persists nothing but the files and designs it writes, so what is hard in it is not concurrency but
containers written through iterators, calls that throw half-way, searches without a bound
of their own, values frozen or cached when something is inserted, and ranges whose ends
are inclusive in one place and exclusive in another. The modules here are about those.

All paths below are relative to the root of the repository.

## 1. Inventory

| Component | State it keeps | Operations | What makes it correct | Where |
|---|---|---|---|---|
| `util::disjoint_intvs` | a sorted vector of half-open intervals | emplace (merge, abut), remove, remove_overlaps, subtract, clear, complement, intersection, transform | sorted and disjoint after every call; it implements a set of intervals | `IntvSet`, `DisjointIntvs` |
| `util::sorted_map`, `sorted_vector` | a sorted vector of pairs | find, emplace, insert_or_assign, erase, replace_key | a vector in order that stands for a finite function, whatever was moved | `Dict` (the promise), `SortedMap` (the vector) |
| schematic `cellview`, `instance` | pins, symbol, instances, their masters and connections | rename, remove, array, retarget, connect; pin calls | each connection is as wide as its array; failed calls lose nothing; symbol and schematic agree | `SchCellview` |
| netlisting: `get_cv_netlist_info`, `write_netlist`, CDL, Verilog and Spectre streams | the netlist map, the file | one cellview after another, instances one by one | defined before used; lines match headers, device by device; attributes and ranges cover what is used | `HierNetlist`, `NamePartition` |
| via search: `via_info`, `via_lookup` | a priority queue per search, the best via | search, choose | vias obey the rules, the best wins, the search ends | `ViaSearch` |
| naming of layout instances: `add_inst`, `binary_iterator` | names, a counter, the iterator | add, up, down | the name found is free, the search ends | `InstNaming` |
| layout `cellview`, `geometry`, `geo_index`, `geo_instance`, `geo_iterator` | shapes by layer, instances, an R-tree of frozen boxes per level, a chain of iterators | add shapes, vias, wires, instances; switch the mode; query | a query returns what is there and nothing else | `LayoutIndex`, `Transforms` |
| `routing_grid`, `track_info`, technology rules | the tracks and block pitches of each level, two level marks, flip parities | define a level, ignore levels, set an offset or parities; half-track arithmetic; `get_min_num_tr` | blocks hold whole tracks, coordinates and half tracks correspond, the number of tracks found is the least | `TechRules`, `TrackInfo`, `RoutingGrid` |
| `cellview_util`: wires, pins, vias on tracks | shapes, vias and pins of a layout | add wires, pins, vias; connect wires to tracks, boxes to tracks | the wires reach over the vias they were drawn for | `TrackWires` |
| names (`spirit`) | syntax trees | size, bits, partition, repeat, Verilog expression | parts concatenate to the name's bits; the expression has the same bits | `NamePartition`, and in `SchCellview` and `HierNetlist` |
| `gdsii` and `transformation_util` | a file of records; the names masters have in it; the layouts read so far | write a list of layouts, read a library | a whole file gives back shapes, instances and masters; a file cut short is refused | `GdsStream`, `Transforms` |
| `oa` | libraries and designs of an OpenAccess database, YAML files, what is open | write lists of schematics and layouts, read cells with their hierarchy, create libraries | what was saved reads back; a list that returned is complete; nothing is held after calls that succeed | `OaDesign`, `OaLayout`, `OaDatabase` |
| `yaml`, polygons and paths, enums, logging | none that changes | decode, look up | - | not modelled |

Components call each other directly. The ones with a protocol between them are the
netlister (what a cellview exports goes into the netlist map, where its parents read it),
the schematic and its symbol (a pin call on one is repeated on the other), the OpenAccess
writer and reader (the designs of a library are all they share) and the calls that draw on
the tracks of a grid that others may change between them.

## 2. Modules and their correspondence with the code

`IntvSet` says what an interval container promises: the state `ivs` is a *set* of
intervals and each call is defined by looking at all of them. `DisjointIntvs`
(`src/include/cbag/util/interval.h`) is the container itself: `data` is the vector
`data_`, `aux` the object that `get_copy`, `get_complement`, `get_intersection` and
`get_transform` build, `ret` the value returned. `overlap_range` is a pair of indices,
the writes through iterators are the code's, and the refinement mapping
`ivs <- {data[n]}` is checked as `ImplementsIntvSet`. `OthersAssumption` says that the objects a call is
given are containers too.

`SchCellview` (`src/src/cbag/schematic/cellview.cpp`, `instance.cpp`,
`src/include/cbag/schematic/cellview_inst_mod.h`): `terminals` and `symbol` are the pins of
the two views, `instances` a function from names to masters and connections (`Dict`), a
net the sequence of its bits. A call that can throw has one disjunct for each outcome.
`array_instance` is split at each point where it may throw: `StartArray`, one `CopyInstance`
per new name, one `ConnectCopy` per connection and `FinishArray`; `call` records where it is
and, for the properties, the instances there were before.

`SortedMap` (`src/include/cbag/util/sorted_map.h`, `sorted_vector.h`) has each call as the vector
it leaves; positions are numbers of elements before them, and the rotation of `replace_key` is
`Moved`. `Dict` is what a caller relies on, and is what `SchCellview` and `HierNetlist` use.

`HierNetlist` (`src/src/cbag/schematic/cellview_info.cpp`,
`src/include/cbag/netlist/netlist.h`, `core.h`, and `cdl.cpp`, `verilog.cpp`, `spectre.cpp` of
`src/src/cbag/netlist/`): the list of cellviews is `todo`, what they export is `netlist_map`, the
file is `out`, and `format` selects the writer. Exceptions end the run in the state `error`, with
the file as it is then. A bit is a pair of a base name and an index; parameters and text are left
out. `PortOrder` is the order of a header; a net whose name is also the name of a terminal's bus is
`Shadowed` by it and not declared. Its nets are the names of `NamePartition` (`src/src/cbag/spirit/ast.cpp`,
`src/include/cbag/spirit/util.h`): `NameBits` is what a name means, `Partition` cuts it into parts of
so many bits the way `get_partition` does, without writing the bits out, and `NameExpr` is the
Verilog expression of a name with `Legal` and `ExprBits` its rules. `NamePartition` is written with
recursive operators, as the names are trees, and is used by TLC's run only.

`ViaSearch` (`src/src/cbag/layout/via_info.cpp`, `via_lookup.cpp`, `via_param_util.cpp`): `heap` is
the priority queue (a set, since `unique_heap` drops duplicates), `sps` the spacings not yet
tried for its top, `opt` the best of them, `ans` and `todo` the loop of `via_lookup`. `LengthAssumption`
says that dimensions, spacings and cuts are numbers below the value that stands for no spacing.
`info.enc[1]` is the lower layer's list of enclosures (`bot_enc`) and `info.enc[2]` the upper's, as `src/src/cbag/yaml/via_info.cpp`
stores them; `Fit` hands them to the caller's layer and the other one, as the code does, and `ViaLegal` judges the
via by layer. The two agree when the call comes from the lower layer (`req.vdir = 1`) or the lists are the same; see 5 for the rest.

`InstNaming` (`src/src/cbag/layout/cellview.cpp`, `src/include/cbag/util/binary_iterator.h`):
`names` are the keys of the instance map with `X<n>` written as the number `n`; `low`, `high`,
`current`, `marker` are the iterator's fields. Its specification is called `NamingSpec`, so that
`GdsStream_proofs` can extend the module beside `GdsStream`.

`GdsStream` (`src/src/cbag/gdsii/`, `src/include/cbag/gdsii/read.h`, `write.h`) composes the writer
`implement_gds` and the reader `read_gds` over the file they share, a sequence of records `file`.
The writer appends the records of one element of a layout per step (`left` are the elements still
to come) and may be cut off anywhere (`Cut`); the reader then takes one element per step from
position `pos`, with a disjunct for each kind of element the code knows and `Refuse` for its
exceptions. `Elements` is the order of `write_lay_cellview`, and `InstRecords`, `BoxRecords`, ... are the
`write_...` functions. Files of other writers (`Foreign`) drive the reader's other branches.

`LayoutIndex` (`src/src/cbag/layout/cellview.cpp`, `geometry.cpp`, `geo_index.cpp`, `geo_instance.cpp`,
`geo_object.cpp`, `geo_iterator.cpp`): `cells` are the layouts, each with its geometries `geo`, its
instances and the index of one routing level, whose objects carry the box `bnd` they were filed
under. `PutShape` is `helper::add_shape` up to where it throws. A query is a chain of iterators
`iters`, one for each level of hierarchy it is in; `Inner`, `Yield`, `Skip` and `Outer` are the branches of
`get_val_reference`. `late` is a history variable: the cells that were changed after they were
instantiated, which the code allows and which breaks completeness, not soundness. The expected
answer `Flat` is computed from geometries and instances and looks at no index.

`OaDesign` (`src/src/cbag/oa/oa_write.cpp`, `oa_read.cpp`) is the design that `write_sch_cellview` makes
of a schematic or a symbol and what `read_sch_cellview` makes of a design, with what makes either
throw: instances without a net for a terminal, names of bits of a bus that exists, properties of other
types. `OaLayout` is `write_lay_cellview`, including `polygon_writer`, which writes each polygon when the next one
arrives. `OaDatabase` (`oa_database.cpp`, `oa_util.cpp`, `oa_read_lib.cpp`, `oa_write_lib.h`,
`oa_read_lib.h`) composes them into a session: `disk` and `open` are the designs saved and in memory, `call`
is the call that is at work with its place in its list or its stack of cells, `access` what is held. A list is
written design by design (`ReadTech`, `OpenDesign`, `Build...`, `Save`, `WriteCellData`, `WriteCellViewData`, `Stamp`,
`Close`), a hierarchy is read depth first (`ReadSchematic`, `ReadSymbol`, `FinishCell`, `VisitMaster`,
`CellDone`). `OaThrows` is an exception of the library at any of these, `Crash` the end of the process, and the
`...Undefined` actions are an iterator dereferenced at the end of its map, after which the model says nothing.
The OpenAccess library itself is not in the repository and is modelled as the code uses it. A list
names no cell twice and a design is named by library, cell and view (`OaAssumption`), and an empty one is done at once. `CellviewsAssumption` says that what is written are cellviews of
the generator (`IsSchCellview`, `IsLayCellview`: values of the types of cybag, polygons with points), `NamesAssumption` that names have
one order and that the instances of pins, `P__0`, `P__1`, ..., have names of their own, `ColorAssumption` that a layer has a mask
and a colour there.

`TechRules` (`src/src/cbag/layout/tech.cpp`, `len_info.cpp`, `via_lookup.cpp`, `via_param_util.cpp`) has the rules that
layout code asks for; vias and currents, which a subclass or `ViaSearch` supplies, are parameters. `TrackInfo`
(`track_info.cpp`, `track_info_util.cpp`) is the arithmetic of one level, with the truncating division of `std::div`.
`RoutingGrid` (`routing_grid.cpp`, `routing_grid_util.cpp`) has one action per call that changes the grid, and
`get_min_num_tr` step by step: `More` and `Fewer` are `up` and `down` of `binary_iterator`, `SizingThrows` the via that does
not exist. `base` is a history variable: the level that was ignored when the block pitches were computed last,
which `set_top_ignore_level` does not do. `TrackWires` (`grid_object.cpp`, `cellview_util.cpp`, `cellview_poly.cpp`) adds a layout
cellview and one action per drawing call. The loops that draw are operators on the set of crossings, of which `Reached`
are those before a pair of colours without a via throws; what was drawn stays. A via carries `sound`: whether
the call drew it to its end in a way that wires should enclose it, which a box of odd width does not
(see 5). `TechAssumption` is what the model takes from the technology: the metals of a via are no wider
than the wires they are on, as `ViaSearch` finds them, and least lengths are numbers. `RulesAssumption` says that the tables of
spaces hold numbers and that no list of rules is empty (`get_min_space` reads its last entry without a test); `MetalAssumption`
that the metals of a via between wires of one or two tracks have sizes.

`Transforms` (`src/src/cbag/common/transformation_util.cpp`) has the eight orientations, moves,
compositions and inverses as operators, and the two conversions of arrays.

A definition `Name_Suffix` in front of `Name`, with a comment that starts with "A slip", is a
plausible bug of that piece of code; each property of a passing run is violated by one of them.

## 3. Runs

| Run | Config | Result | Shows |
|---|---|---|---|
| intvs | `MCDisjointIntvs.cfg` | passes | every call sequence on the interval container over coordinates 0..5; it implements `IntvSet`, and copies, complements, intersections, transforms and subtractions cover exactly what they should (`CoverExact`) |
| subtract | `MCDisjointIntvs_subtract.cfg` | violated | `subtract` with a key strictly inside an interval loses its tail |
| sch | `MCSchCellview.cfg` | passes | edits of pins and instances, exceptions included; the vector of a `sorted_map` under every call (`InstanceMapExact`) |
| via | `MCViaSearch.cfg` | passes | vias in the overlap and, called from below or with the same rules for both layers, enclosed as each layer asks (`ViaLegal`); best of the sizes tried; search ends when one fits |
| via_returns | `MCViaSearch_returns.cfg` | violated | no legal size: the search repeats two sizes for ever |
| netlist | `MCHierNetlist.cfg` | passes | lists of up to three cells in any order, custom and null entries, shell and top options, in each of the three formats; every device gets its own slice, as bits or as part of a name (`ConnectionsSplit`); attributes and declared ranges (`NetsCollected`) |
| layout | `MCLayoutIndex.cfg` | passes | three cells built by any four calls, failures included, and queried |
| gds | `MCGdsStream.cfg` | passes | a written file, cut anywhere, read back: shapes, instances and masters (`CellsSurvive`), acceptance |
| gds_arrays | `MCGdsStream_arrays.cfg` | violated | of arrays that are not turned, the pitch of one that is not at the origin does not survive |
| naming | `MCInstNaming.cfg` | passes | nine instances with names on both sides of what the doubling visits |
| oa | `MCOaDatabase.cfg` | passes | two calls on a database with one failure or end of the process at any step: saved designs read back, lists are complete, cyclic hierarchies are read whole, nothing stays held, calls end |
| grid | `MCTrackWires.cfg` | passes | a grid that calls change, wires and vias drawn on it, and searches: blocks, half tracks and arrays fit (`OnGrid`), vias are inside their wires, the least number of tracks is found |

Bounds. Six coordinates make up to five intervals in every combination of gaps, abutments
and overlaps that the container distinguishes: a key meets none, one, two or at least three
of them. Instance sizes 1, 2, 3 (multiples and not), one- and two-bit terminals and nets
reach every branch of the width checks. The cells of `MCHierNetlist` contain each way to go
wrong (unknown master, net out of range, conflicting attributes, missing connection, a cell
inside itself) and arrays of devices on buses. `MaxInt` and the rule tables of `MCViaSearch`
include cuts that cannot be arrayed, ties between kinds and enclosures that fit only some
widths, with the same enclosures in both layers for one kind, so that calls from either layer are judged. `MCLayoutIndex`
needs three calls for a shape two levels down and a fourth for a late change, a second shape or a
failure between them; margins, turns and queries are chosen so that each of the two comparisons
(with and without the border, sum and maximum of margins) decides some answer. `MCGdsStream` places cells in each of the eight orientations, once and as arrays, at and
away from the origin, with mapped, unmapped and shared layers, names exchanged between two cells,
a list out of order, and every cut of every file; one element of a kind is enough because the
elements are written and read one after the other with no state but the position and the names.
`MaxAdds = 9` in `MCInstNaming` lets the iterator double past 8 and bisect back.
The netlists name nets as scalars, buses, reversed and stepped ranges, lists, and
repetitions of each, with arrays of two and of four devices, so that a part ends inside a unit, at its end and
inside a repetition. `MCOaDatabase` starts from four libraries: with templates
that instantiate each other, with an application definition of a kind the reader refuses, with two
pins on a terminal, with a property of a type the reader refuses. Its lists are in order, out of order, short of a terminal,
with a name that clashes with a pin's instance, without time stamps, without symbols; two calls are enough for one to
meet what the other, or a failure in it, left. `MCTrackWires` has three levels of two directions, the middle one with two colours
and one of them without a via to the top level. `MaxCalls = 4` bounds the calls, a change of the grid counting
twice: two changes, or one and two calls that draw, or four that draw. Searches are
started before anything is drawn, since a search reads the grid only; up to two changes come before, between and after
them. `MaxTracks = 8` bounds the doubling, which the code does not: `SizingEnds` is about requests for
which some number within it is enough.

Fairness. `ViaSearch`, `InstNaming`, `OaDatabase` and `TrackWires` state weak fairness of their
internal steps: a call of C++ runs to its end without waiting for another. No action of a caller, and
no failure, is fair. The other
modules state none and no liveness. Deadlock checking is off only where the modelled call ends.

## 4. Proofs

The proofs hold for every value of the constants that satisfies the named assumption of the
module; TLC evaluates the assumptions on every run.

- `DisjointIntvs_proofs!AlwaysSortedDisjoint`. The inductive invariant `Proper` says that
  `data` is a sequence of non-empty intervals and each one ends before the next begins, for
  *every* pair of indices: sortedness of neighbours alone is not preserved by a splice. The
  lemmas are about splicing: replacing the overlapped run by at most one interval that lies
  between what is before and what is after keeps `Proper`; each operation is such a splice.
- `DisjointIntvs_proofs!RefinesIntvSet`. Each call is a call of `IntvSet` under `ivs <- {data[n]}`. The run of
  indices that the two binary searches find is exactly the set of intervals that overlap (or abut) the
  key, because of `Proper`; the set of what a splice leaves is the set there was, less the run, with the
  interval put in its place; and the least start and greatest end of the run are those of its first
  and last interval. Returned flags follow from the run being empty or one interval.
- `DisjointIntvs_proofs!AlwaysTypeOK`, `AlwaysCoversExact`. What a call returns covers the coordinates it should. Erasing pushes
  what is left of each interval of the run (`PushedExact`, by induction over the recursive function); a coordinate of the window that no
  interval covers lies in the gap after the last interval that ends before it, which `LeastElement` finds (`GapsExact`). A round of
  `get_intersection` cuts one interval out of both vectors and drops one of the two, and no interval it passes over meets what
  is left (`NextFirstPasses`, `RoundExact`); `IntersectionExact` is an induction on what is left of both.
- `SchCellview_proofs!AlwaysTypeOK`, `AlwaysConnWidth`. The invariant `IInv` adds to `ConnWidth`
  that a copy in progress exists with a legal name, and that each connection is a member of
  the set of those with the width of its size; `ResizeWired` and `ConnectedWidth` carry the
  arithmetic (`new % old = 0` makes `Repeat` exact).
- `SchCellview_proofs!AlwaysArrayKeeps`. `CallKeeps` strengthens `IInv` for a call of
  `array_instance` under way: what was there when it began is there unchanged and is not the
  copy being wired. It holds because a copy takes a free name and only the copy is rewired.
- `SchCellview_proofs!AlwaysKeepsDevices`. Bit `i * w + j` of a net of an instance of several devices is bit `j` of
  device `i`. A repeated net has, for every `i` and `j`, the bit of device `i % size` of the old one
  (`DeviceBit`, `RepeatDevice`); the other calls leave the connections or drop them.
- `SchCellview_proofs!AlwaysPinsInSync`, `AlwaysPinCallsAtomic`. Both follow from one step lemma,
  `PinsTogether`: if the two sets of pins are equal, the symbol accepts every renaming that the
  schematic accepts. Without `InSync` the second is false, as the code renames the schematic's
  pin before the symbol can refuse.
- `SchCellview_proofs!EveryCallExact`, `AlwaysCallsExact`, on `SortedMap`. For every set of integer keys and every vector in
  order: a binary search has a position (`LeastElement`), the position splits the keys, and
  the vector after an insertion, an erasure or a rotation is given element by element, from
  which order and `MapOf` follow. The rotation has a case for each direction.
- `TrackWires_proofs!TracksAlwaysLeast`, `CountersAlwaysOK`. `TracksLeast` speaks of a search that ended;
  the invariant `Bracket` says of one at work that the number below `low` fails (or `low` is 1), that what
  was saved is `high` and passes, and that the next number lies between them. It holds for any
  technology, also one where more tracks carry less: that is why the result is stated as
  "this number passes and the one below fails". Every other call ends what is left of a
  search (`EditForgets`, `DrawForgets`), so the grid does not change under one.
- `TrackWires_proofs!AlwaysTypeOK`. `GridInv` keeps the fields of every level in their types whatever call changes
  one of them; the block pitches are only in some set there, as a level of a record is updated field by
  field. That a colour is one its level has is `x % (2 * n) \div 2 < n` (`LayerIsKey`).
- `TrackWires_proofs!AlwaysViasCovered`. A crossing's box and the wires are on a common centre, and half of a metal's
  excess over the crossing is rounded so that the extended part contains it (`CrossingVia`, `BoxVia`).
  What the wires are drawn over contains every part: a hull contains its parts (`HullGrows`), `Reach` and
  `Lengthened` never shrink (`ReachGrows`, `LengthenedGrows`), the bounds of the crossings hold each of
  them (`BoundsHold`). Later calls only add shapes (`CoverGrows`).
- `TrackWires_proofs!AlwaysOnGrid`. `BlocksInv` says of each level that the multiples of the block pitch kept are exactly the
  common multiples of the half pitches of its group, as they were when the pitches were last computed (`base`). Each call that
  computes them again establishes it by recursion down the levels (`BlocksStep`): `LcmExact` from the definition of a least common
  multiple, `FoldExact` over the set of a group's pitches by its cardinality. `BlocksLeast` turns it into the statement of
  `BlocksOnGrid`. `TracksArePlaced` and `ArraysAreBounded` are arithmetic with truncating division (`QuotExact`) on the tracks of
  any level. The proof needs `RulesAssumption` and `MetalAssumption`, and it failed for odd pitches, which the property
  now leaves out (see 5).
- `HierNetlist_proofs!InstancesAlwaysDefined`. The map of the writer is not the file: with `shell` it has cells that
  were not written, and Spectre may write the last cell without a subcircuit. `FileInv` says that while
  anything is left to write, each cell of the map that is no primitive has a finished subcircuit in the
  file (`MapInFile`), and that the cell at work is the last of the file, not finished, with the masters of all its
  instances in the map (`CellOpen`). An instance refers to the map, hence to an earlier cell.
- `HierNetlist_proofs!AlwaysTypeOK`, `AlwaysCollected`, `AlwaysMatch`. `TypeInv` says that the cells left in the list are
  distinct and not in the map. `MadeInv` says that every line was made from its instance and from the terminals the map
  has for the master, which stays so since the map only grows (`LinesStay`), and that what a cell exports agrees with what its
  masters export (`AttrsReach`). `NetsCollected` adds that a bus is declared with a hull of the ranges that use it.
  `AlwaysMatch`, that each line connects as many bits as the header of its master has and each device its own slice,
  needs to know that the parts of a net are the net's bits in order, which is what the recursive operators of
  `NamePartition` compute: that is the hypothesis `PartsExact` of the last two theorems, and the run `netlist` checks it
  on its names (`ConnectionsSplit`).
- `ViaSearch_proofs!TypeCorrect`, `AlwaysLegal`, `NeverDominated`, `SearchesBest`. The invariant is `IInv`: the search is
  idle, or its queue holds sizes it may try, the fit found so far is one of the size at the top and
  without one no spacing already taken fits (`OptOK`), and no feasible size comes before the top of the queue
  (`NothingPassed`). What is in the answer is legal because each fit was legal when it was made: the invariant says it as the
  search does, first list to the caller's layer (`FitLegal`), and `AlwaysLegal` draws from it what holds layer by layer; that nothing
  compared beats it rests on the order by area and lengths being transitive.
- `OaDatabase_proofs!AlwaysTypeOK`, `AlwaysNothingHeld`. The invariant `IInv` ties what is held to where the call is:
  the accesses in use (`Held`) follow from the operation, its place in the list and the frames of its stack. There are never
  fewer accesses than that, and exactly as many while nothing has thrown; then the only design open is that of the
  entry at work. The frames of a stack are of cells that were seen, each once, which is why no cell is read below itself.
- `OaDatabase_proofs!AlwaysReadBack`, `AlwaysLayoutSaved`. The invariant `Saved` says of every saved design that it holds what its cellview
  says (`WrittenFrom`), and carries it from the step that builds the design (`WritesSchematic`, `WritesLayout`) over the saves and the
  time stamps (`StampReadsBack`) to the file, whatever throws in between and whatever is written later. `WritesSchematic` composes the
  conversions: pins are figures or instances with a name of their own (`PinInstFacts`, by counting the pins before), no
  instance overwrites one, each property and parameter comes back in its kind (`PropRead`), and every polygon is recorded although
  the writer records one when it is handed the next (`HandedOver`, `AllRecorded`). `ReadsBack` leaves out the steps of ranges, which the
  files do not have, and the shapes of a symbol with instances, whose stubs are read as shapes.
- `OaDatabase_proofs!AlwaysListComplete`. `Progress` says that the entries before the current one are complete and how far the current one
  has come, step by step (`EntryComplete`); the rest is that another entry of the list writes only its own design and cell
  data (`WritesEntry`, `StaysComplete`), which needs that no list names a cell twice. The first statement of the property was false in general:
  an instance of a cell that a later entry of the same list replaces is connected to the terminals of the old one, and after a call that
  failed the next list sees the emptied design that is still in memory. `Connected` says so now, and what it leaves out is what
  the code does not promise. That the order of terminals names each once is a recursion over the names (`OrderedFacts`, `TermOrderGood`).
- `OaDatabase_proofs!AlwaysReadReachable`. `Hierarchy` is the invariant of the depth-first search: a cell that was seen is read, is
  below the root, and each of its masters was seen or waits (`Waits`): it is left to visit in the frame of that cell, or is the
  frame above it. A frame pops only when nothing waits in it, so when the stack is empty the cells seen are closed under masters
  and hold the root: all that is below it (`Reached`), and `out` names each once because `seen` is extended before the descent.
- `GdsStream_proofs!AlwaysCellsSurvive`, `AlwaysWholeFilesAccepted`, `AlwaysTypeOK`. What the writer appends for a list is a *story*: a
  run of items (the header, the beginning and the end of a structure, an instance, a shape, a text, the end of the library), each
  with the place before it and the one after it, where a place says which structure, how many of its instances and which drawings
  (`Place`, `IsItem`, `Story`). Each step of the writer continues the story (`ElementStory`, `StructStory`, ...). `AlwaysInv` is the inductive
  invariant: the file is a beginning of a story, and the position of the reader is the start of an item in it, with exactly the
  structures, instances and drawings before that item in what was read. What the reader accepts there is the item and no other, and it
  ends where the item ends (`NextItem`, `ShapeTaken`, `TextTaken`, `InstTaken`, `ArrTaken`), also when the file was cut inside of it;
  `Expected` is the converse, that a whole item is accepted. Orientations come back by turning the two unit vectors in each of the eight
  (`OrientBack`), counts by exchanging twice (`CountsBack`), masters because the names of a list are different (`MasterIs`). `CellsSurvive`
  follows from the drawings of a cellview being its shapes and boundaries (`DrawnShapes`). The types hold for files of other
  writers too (`TypedReader`). The assumptions are that the layouts have the types of their C++ classes, that polygons have
  points and arrays have rows and columns (the reader divides by their numbers), that map lines give pairs of numbers, and that a
  list names no cellview and no structure twice. The earlier form of `CellsSurvive` said of a shape that was read that its layer goes to
  the number it came from, which is false when the map has two lines for a layer; the proof stopped there, and it now
  says which layer the shape comes back on.
- `GdsStream_proofs!AlwaysNamingTypeOK`, `AlwaysSavedNameFree`, `AlwaysCountGrows`, about `InstNaming`, which the module extends too: `read_gds`
  names the instances it adds with `add_inst`, so that none is lost rests on these. `NamingTypeOK` is not
  inductive alone: `Bisecting` says that the marker is the upper bound of the interval, that it
  is free, and that the current number lies inside. `NamingAssumption` says that the names that are not of the form
  `X<n>` are no numbers.

- `Recursion` has what these modules share. `LeastElement` is well-foundedness of `<` as a minimal
  counterexample, `AllNumbers` is induction with a set in the place of the predicate, and
  `RecursiveExists` says that a recursive definition that looks only at arguments of lower rank has a
  function, with the rank and the definition given as functions: a statement without operator
  parameters, which the provers can use.

**Only model-checked**, and why:

- Liveness (`SearchEnds`, `ReturnsIfFeasible`, `CallsEnd`, `SizingEnds`): fairness and `ENABLED` are out of the prover's reach.
- `ConnectionsSplit`: the names are cut by the recursive operators of `NamePartition`, which no module with a theorem may reach.
  `AlwaysMatch` is proved from what this run checks, stated as a hypothesis.
- `InstanceMapExact` is about the run's own operations; what makes it true for all keys is `AlwaysCallsExact`.
- `LayoutIndex` (`TypeOK`, `QuerySound`, `QueryComplete`): a query is compared with a layout flattened by recursion over the
  cells, as bags of boxes. A proof needs induction over that hierarchy with sums of counts at every level, which was not
  attempted; it is checked on layouts of three cells only.

## 5. Not modelled

Parsing of names and YAML, logging, enumerations, and text formatting, except where a property is about it
(ranges of declared buses, Verilog expressions). Paths and polygons with 45-degree edges (`path_util.cpp`,
Boost.Polygon) are geometry without state. Of GDS files, the encoding of numbers (the floating-point format,
the 16-bit counts), times, units, the sizes of texts, the printing of records, and the merging of polygons
on one layer. Of the OpenAccess exchange, `write_tech_info_file` and the printing of designs, which only read;
places, sizes and fonts; the library's own behaviour beyond what the code relies on. Of schematics,
parameters, shapes and `get_copy`, which no operation reads.

Three violations have a run. Others were met while the code was translated; the models behave as the code does in
these respects, or leave them out as said, and the properties are stated around them:

- `src/src/cbag/layout/via_info.cpp:136-139`, called with `direction::UPPER` by `routing_grid_util.cpp:268`: the first list of
  enclosures, which is `bot_enc`, goes to the caller's layer, also when that is the upper one, and `top_enc` to the lower one. With the
  kind `Square` of `MCViaSearch` on an overlap of 2 by 2, a call from the upper, horizontal layer returns a via whose upper metal has the
  enclosure (1, 0), which is one of the lower layer's; the upper layer's are (0, 2), (1, 1) and (2, 0). `ViaLegal` does not ask for the
  enclosures of the layers in such calls unless the two lists are the same.
- `src/src/cbag/gdsii/read_util.cpp:300-301`: beside what the run `gds_arrays` shows, an array in an orientation that exchanges the
  axes is read with the x of the second point and the y of the third, where the writer has put the pitches in the other coordinates,
  so that even one at the origin does not survive. The run is restricted to arrays that are not turned, to show one cause at a time.
- `src/src/cbag/layout/track_info_util.cpp:28-43`: `coord_to_htr` rounds by the sign of a truncated remainder, so that below the
  offset the modes for "less" and "greater" exchange; off track, `GREATER` gives the track below. `OnGrid` is about coordinates at
  or above the offset, and about those on tracks on both sides.
- `track_info_util.cpp:78-85`: `transform_htr` does not move the offset, and is right where it is 0.
- `routing_grid.cpp:123-126`: `get_flip_parity_at` takes the location along the tracks, not across them.
- `routing_grid_util.cpp:95-96`: `get_via_extensions` puts a wire's width along its direction, `get_via_em_specs` (204-213) across it.
- `routing_grid_util.cpp:128-153`: `get_blk_size` answers -1 where the lower orthogonal level is ignored.
- `cellview_util.cpp:52-53`: `add_pin_arr` steps through half tracks by a pitch in coordinates.
- `cellview_util.cpp:195-222`: `connect_box_track` does not test for an empty via, reads extensions by direction that are
  stored by layer, and reaches over the vias of the first box only.
- `grid_object.cpp:51-56`: `track_id::get_bounds` halves the whole distance from the first track to the last, the wires are placed by
  half pitches that were truncated one by one; with an odd pitch the bounds may end a unit beyond the last wire. The
  proof of `OnGrid` stopped here and TLC confirmed it; the property asks for an even pitch.
- `cellview_util.cpp:195-222`, too: a box of an odd width has its centre truncated to a whole unit, and the extension computed from it leaves the
  metal of the via one unit outside the track's wire. The proof of `ViasCovered` stopped here and TLC confirmed it on such a box;
  the property is stated for vias whose box is not odd across the track.
- `cellview_util.cpp:141-145`: with no via drawn and no wish, `connect_warr_track` draws a wire between reversed infinite bounds.
- `src/src/cbag/schematic/cellview_info.cpp:111-115`: internal buses are recorded with the hull of inclusive and exclusive
  ends, one bit too wide, and a scalar net shares the key of a bus of the same name; a part select against
  the declared direction is not legal Verilog.
- `src/src/cbag/spirit/ast.cpp:213-217`: a repetition of a list with one unit that is not repeated gets no inner braces, which
  only an explicit `<*1>` inside a repetition leads to.
- `src/src/cbag/netlist/spectre.cpp:122`: `gnd!` becomes 0 only for single instances and whole nets. `verilog.cpp:189`: an
  arrayed instance of a master without terminals computes one less than zero.
- `src/src/cbag/oa/oa_write.cpp:409-412`: from the second entry of the dependency list on, the cell is written in the place of
  the view. `oa_write.cpp:523`, `572`, `640`: iterators are used without a test for the end of the map.
  `oa_write.cpp:833-836`: a PR boundary falls through and becomes a snap boundary too. Labels of layouts keep their layer where
  shapes are mapped to masks; integer parameters lose what is above 32 bits. Library accesses and designs stay
  held after exceptions, and a library whose creation failed is never added to the definition file by a second call.

## 6. Plan

1. (done) interval container, schematic cellview, netlister in its three formats with the names it cuts, via search, naming, layout
   index, GDS files, the vector of `sorted_map`, the OpenAccess database, routing grid, tracks and what is drawn on them.
2. Proofs still worth having: `QuerySound` and `QueryComplete` of `LayoutIndex`, and that the orientations of `Transforms` form a group.
3. Parameters and shapes of schematics, the decoding of YAML documents, paths.
