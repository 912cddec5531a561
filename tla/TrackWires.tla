------------------------------ MODULE TrackWires ------------------------------
(***************************************************************************)
(* Wires and vias on the tracks of a routing grid: track_id, wire_array    *)
(* and the calls of cellview_util.cpp that draw them into a layout         *)
(* cellview.  Each call reads the grid as it is; an exception in the       *)
(* middle of one leaves what was drawn before it.                          *)
(*                                                                         *)
(* A box is a pair of intervals, the horizontal one first.  Layers, vias   *)
(* and extensions are indexed by layer, 1 for the lower one.               *)
(***************************************************************************)
EXTENDS RoutingGrid

CONSTANTS
  Arrays,    \* the wire arrays of the callers: level, htr, ntr, num, pitch, coord
  Bounds,    \* what callers of connect_warr_track ask wires to reach, None for no wish
  BoxCalls,  \* the calls of connect_box_track: vdir, key, box, num, sp, box_ext, tr_ext, mode
  ViaCalls,  \* the calls of add_via_arr: id, at, dim, layers, num, sp
  MaxCoord,  \* the largest coord_t
  MaxCalls   \* bound on the calls that draw, one that changes the grid counting as two

Interval == Int \X Int
Box == [1 .. 2 -> Interval]
Wish == (Int \cup {None}) \X (Int \cup {None})
Keys == {k \in Levels \X Nat : k[2] < NumColors[k[1]]}

ASSUME WiresAssumption ==
  /\ MaxCoord \in Nat /\ MaxCalls \in Nat
  /\ \A a \in DOMAIN Arrays :
       Arrays[a] \in [level : Int, htr : Int, ntr : Nat \ {0}, num : Nat \ {0}, pitch : Int,
                     coord : Interval]
  /\ Bounds \subseteq Wish
  /\ \A c \in DOMAIN BoxCalls :
       /\ BoxCalls[c] \in [vdir : 1 .. 2, key : Keys, box : Box, num : [1 .. 2 -> Nat \ {0}],
                          sp : [1 .. 2 -> Int], box_ext : Wish, tr_ext : Wish, mode : STRING]
       /\ \A i \in 1 .. 2 : BoxCalls[c].box[i][1] <= BoxCalls[c].box[i][2]
  /\ \A v \in DOMAIN ViaCalls :
       ViaCalls[v] \in [id : Keys \X Keys, at : Point, dim : [1 .. 2 -> Nat], layers : BOOLEAN,
                       num : [1 .. 2 -> Nat \ {0}], sp : [1 .. 2 -> Int]]

VARIABLES
  rects,  \* the shapes on the layers of the levels, with their margins in the index
  vias,   \* the boxes of the two metals, their layers, and what should hold of them
  pins,
  draws   \* the calls so far

cv == <<rects, vias, pins, draws>>
vars == <<gridVars, cv>>

-----------------------------------------------------------------------------
(***************************************************************************)
(* Boxes and wires.                                                        *)
(***************************************************************************)

MakeBox(dir, along, across) == [i \in 1 .. 2 |-> IF i = dir THEN along ELSE across]
Dim(box) == [i \in 1 .. 2 |-> box[i][2] - box[i][1]]
Center(box) == [i \in 1 .. 2 |-> (box[i][1] + box[i][2]) \div 2]
Intersect(a, b) == [i \in 1 .. 2 |-> <<Max({a[i][1], b[i][1]}), Min({a[i][2], b[i][2]})>>]
Inside(a, b) == \A i \in 1 .. 2 : b[i][1] <= a[i][1] /\ a[i][2] <= b[i][2]
Shift(box, d) == [i \in 1 .. 2 |-> <<box[i][1] + d[i], box[i][2] + d[i]>>]
Around(at, dim) == [i \in 1 .. 2 |-> <<at[i] - dim[i] \div 2, at[i] + dim[i] \div 2>>]

\* The widths that wires and boxes may come to have.
Spans == {WireSpan([w |-> s[1], sp |-> s[2]], Arrays[a].ntr) : s \in TrackSizes, a \in DOMAIN Arrays}
Widths == {2 * (n \div 2) : n \in Spans}
            \cup {Dim(BoxCalls[c].box)[i] : c \in DOMAIN BoxCalls, i \in 1 .. 2}

\* Neither metal of a via is wider than its wire.
MetalsFit(id, dim, dir, extend) ==
  LET metal == ViaMetal(id, dim, dir, extend)
  IN  /\ metal \in [1 .. 2 -> [1 .. 2 -> Nat]]
      /\ metal[1][Perpendicular(dir)] <= dim[Perpendicular(dir)] /\ metal[2][dir] <= dim[dir]

\* Of the technology: what get_via_param returns, as ViaSearch has it, and that lengths
\* are numbers.
ASSUME TechAssumption ==
  /\ \A id \in ViaIds, dim \in [1 .. 2 -> Widths], dir \in Directions, extend \in BOOLEAN :
       MetalsFit(id, dim, dir, extend)
  /\ \A v \in DOMAIN ViaCalls : MetalsFit(ViaCalls[v].id, ViaCalls[v].dim, 1, TRUE)
  /\ \A l \in Levels, n \in Spans, even \in BOOLEAN : MinLength(TestKey(l), n, even) \in Nat

\* get_margins of a box of a level's layer.
Margins(key, box) ==
  LET dir == info[key[1]].dir
      width == Dim(box)[Perpendicular(dir)]
  IN  [i \in 1 .. 2 |-> MinSpace(key, width, IF i = dir THEN "LINE_END" ELSE "DIFF_COLOR", FALSE)]

Shape(key, box) == [key |-> key, box |-> box, sp |-> Margins(key, box)]

\* The track_id of an array; one of a single track has no pitch.
Tid(a) ==
  LET t == Arrays[a]
  IN  [level |-> t.level, htr |-> t.htr, ntr |-> t.ntr, num |-> t.num,
       pitch |-> IF t.num = 1 THEN 0 ELSE t.pitch]
Copies(tid) == 0 .. tid.num - 1
HtrOf(tid, i) == tid.htr + i * tid.pitch

\* What a warr_rect_iterator gives for the track i.
Wire(tid, coord, i) ==
  [key |-> LayerAt(tid.level, HtrOf(tid, i)),
   box |-> MakeBox(info[tid.level].dir, coord, WireBounds(tid.level, HtrOf(tid, i), tid.ntr))]

\* cellview::add_warr
Wires(tid, coord) ==
  {Shape(Wire(tid, coord, i).key, Wire(tid, coord, i).box) : i \in Copies(tid)}

\* get_bounds of a track_id: the first wire's, moved to the last on one side.
TidBounds(tid) ==
  LET b == WireBounds(tid.level, tid.htr, tid.ntr)
      delta == Half((tid.num - 1) * tid.pitch * Pitch(info[tid.level]))
  IN  IF delta > 0 THEN <<b[1], b[2] + delta>> ELSE <<b[1] + delta, b[2]>>

\* add_rect_arr
RectArr(key, box, num, sp) ==
  {Shape(key, Shift(box, <<i * sp[1], j * sp[2]>>)) : i \in 0 .. num[1] - 1, j \in 0 .. num[2] - 1}

\* A via with its metals around a centre.  `sound` says whether the wires drawn with it
\* are to enclose it.
Via(id, metal, at, sound) ==
  [id |-> id, metals |-> [l \in 1 .. 2 |-> Around(at, metal[l])], sound |-> sound]

ViaArr(id, metal, at, num, sp, sound) ==
  {Via(id, metal, Plus(at, <<i * sp[1], j * sp[2]>>), sound) :
     i \in 0 .. num[1] - 1, j \in 0 .. num[2] - 1}

\* A slip: the wire that ends where its wish does, vias or not.
Reach_WishOnly(bounds, wish) ==
  <<IF wish[1] = None THEN bounds[1] ELSE wish[1], IF wish[2] = None THEN bounds[2] ELSE wish[2]>>

\* What the bounds reach when they must reach c too, if there is a wish.
Reach(bounds, wish) ==
  <<IF wish[1] = None THEN bounds[1] ELSE Min({bounds[1], wish[1]}),
    IF wish[2] = None THEN bounds[2] ELSE Max({bounds[2], wish[2]})>>

Hull2(a, b) == <<Min({a[1], b[1]}), Max({a[2], b[2]})>>

-----------------------------------------------------------------------------
(***************************************************************************)
(* add_via_on_intersections: a via on every crossing of the tracks of lo   *)
(* (the lower level, between the coordinates lc) with those of up.         *)
(***************************************************************************)

Overlap(lo, lc, up, uc, p) == Intersect(Wire(lo, lc, p[1]).box, Wire(up, uc, p[2]).box)
IdAt(lo, lc, up, uc, p) == <<Wire(lo, lc, p[1]).key, Wire(up, uc, p[2]).key>>
MetalAt(lo, lc, up, uc, p, extend) ==
  ViaMetal(IdAt(lo, lc, up, uc, p), Dim(Overlap(lo, lc, up, uc, p)), info[lo.level].dir, extend)

\* The wires cross in full.
Filled(lo, lc, up, uc, p) ==
  LET d0 == info[lo.level].dir
      d1 == info[up.level].dir
      dim == Dim(Overlap(lo, lc, up, uc, p))
  IN  /\ dim[d0] = Dim(Wire(up, uc, p[2]).box)[d0]
      /\ dim[d1] = Dim(Wire(lo, lc, p[1]).box)[d1]

\* The pairs of tracks, the lower level's in the outer loop, and those the loop comes to
\* before a pair of colours without a via makes it throw.
Pairs(lo, up) == Copies(lo) \X Copies(up)
Reached(lo, lc, up, uc) ==
  LET throws(p) == Filled(lo, lc, up, uc, p) /\ IdAt(lo, lc, up, uc, p) \notin ViaIds
  IN  {p \in Pairs(lo, up) :
         \A q \in Pairs(lo, up) : q[1] < p[1] \/ (q[1] = p[1] /\ q[2] <= p[2]) => ~throws(q)}

\* The part of each wire that the via takes.
Grown(lo, lc, up, uc, p, extend) ==
  LET d0 == info[lo.level].dir
      d1 == info[up.level].dir
      box == Overlap(lo, lc, up, uc, p)
      ext == ViaExt(MetalAt(lo, lc, up, uc, p, extend), Dim(box), 1, d0, d1)
  IN  << <<box[d0][1] - ext[1], box[d0][2] + ext[1]>>, <<box[d1][1] - ext[2], box[d1][2] + ext[2]>> >>

Drawn(lo, lc, up, uc, extend, contain) ==
  {p \in Reached(lo, lc, up, uc) :
     /\ Filled(lo, lc, up, uc, p)
     /\ MetalAt(lo, lc, up, uc, p, extend) # NoMetal
     /\ contain =>
          LET g == Grown(lo, lc, up, uc, p, extend)
              a == Wire(lo, lc, p[1]).box[info[lo.level].dir]
              b == Wire(up, uc, p[2]).box[info[up.level].dir]
          IN  a[1] <= g[1][1] /\ g[1][2] <= a[2] /\ b[1] <= g[2][1] /\ g[2][2] <= b[2]}

DrawnVias(lo, lc, up, uc, extend, contain, sound) ==
  {Via(IdAt(lo, lc, up, uc, p), MetalAt(lo, lc, up, uc, p, extend),
       Center(Overlap(lo, lc, up, uc, p)), sound) : p \in Drawn(lo, lc, up, uc, extend, contain)}

\* The bounds returned: the hull of the parts taken, reversed when no via was drawn.
ViaBounds(lo, lc, up, uc, extend, contain) ==
  LET parts == {Grown(lo, lc, up, uc, p, extend) : p \in Drawn(lo, lc, up, uc, extend, contain)}
  IN  [l \in 1 .. 2 |-> <<Min({g[l][1] : g \in parts} \cup {MaxCoord}),
                           Max({g[l][2] : g \in parts} \cup {-MaxCoord})>>]

\* The calls refuse levels that are not adjacent, not defined, or of one direction.
Crossable(t, u) ==
  /\ t.level - u.level \in {-1, 1} /\ {t.level, u.level} \subseteq Levels
  /\ info[t.level].dir # info[u.level].dir

-----------------------------------------------------------------------------
(***************************************************************************)
(* Calls that draw.                                                        *)
(***************************************************************************)

\* Whatever a search returned has been used.
Draw ==
  /\ ~Searching /\ 2 * edits + draws < MaxCalls /\ draws' = draws + 1
  /\ req' = None /\ sized' = None
  /\ UNCHANGED <<grid, iter>>

AddWarr(a) ==
  /\ Draw /\ Tid(a).level \in Levels
  /\ rects' = rects \cup Wires(Tid(a), Arrays[a].coord)
  /\ UNCHANGED <<vias, pins>>

\* add_pin_arr steps from pin to pin by the pitch in coordinates, counted as half tracks.
AddPinArr(a) ==
  LET t == Tid(a)
      step == Half(t.pitch * Pitch(info[t.level]))
      htr(i) == t.htr + i * step
  IN  /\ Draw /\ t.level \in Levels
      /\ pins' = pins \cup
           {[key |-> LayerAt(t.level, htr(i)),
             box |-> MakeBox(info[t.level].dir, Arrays[a].coord, WireBounds(t.level, htr(i), t.ntr))]
              : i \in Copies(t)}
      /\ UNCHANGED <<rects, vias>>

\* add_via_on_intersections of two wire arrays.  With `contain` the vias stay in the
\* wires, if these are drawn.
AddVias(a, b, extend, contain) ==
  LET lo == IF Tid(a).level < Tid(b).level THEN a ELSE b
      up == IF lo = a THEN b ELSE a
      lc == Arrays[lo].coord
      uc == Arrays[up].coord
      drawn == Wires(Tid(lo), lc) \cup Wires(Tid(up), uc) \subseteq rects
  IN  /\ Draw /\ Crossable(Tid(a), Tid(b))
      /\ vias' = vias \cup DrawnVias(Tid(lo), lc, Tid(up), uc, extend, contain, contain /\ drawn)
      /\ UNCHANGED <<rects, pins>>

\* connect_warr_track: vias wherever the tracks cross, then the wires that hold them.
\* The array keeps its own coordinates at least.
ConnectWires(a, b, w_ext, tr_ext) ==
  LET w == Tid(a)
      t == Tid(b)
      lo == IF w.level < t.level THEN w ELSE t
      up == IF w.level < t.level THEN t ELSE w
      all == <<-MaxCoord, MaxCoord>>
      whole == Reached(lo, all, up, all) = Pairs(lo, up)
      ans == ViaBounds(lo, all, up, all, TRUE, FALSE)
      w_at == IF w.level > t.level THEN 2 ELSE 1
  IN  /\ Draw /\ Crossable(w, t)
      /\ vias' = vias \cup DrawnVias(lo, all, up, all, TRUE, FALSE, whole)
      /\ rects' = IF ~whole THEN rects
                  ELSE rects \cup Wires(w, Reach(Hull2(ans[w_at], Arrays[a].coord), w_ext))
                             \cup Wires(t, Reach(ans[3 - w_at], tr_ext))
      /\ UNCHANGED pins

-----------------------------------------------------------------------------
(***************************************************************************)
(* connect_box_track: vias from an array of boxes to the tracks, the boxes *)
(* extended to reach them and the tracks to hold them.                     *)
(***************************************************************************)

\* The span of the intervals iv, num of them, sp apart.
Span(iv, num, sp) ==
  LET delta == sp * (num - 1) IN IF delta > 0 THEN <<iv[1], iv[2] + delta>> ELSE <<iv[1] + delta, iv[2]>>

\* The wire made as long as the technology asks for, at its lower end, its upper end or
\* both.
Lengthened(bounds, key, width, mode) ==
  LET least == MinLength(key, width, mode = "MIDDLE")
      len == Max({bounds[2] - bounds[1], least})
      mid == Half(bounds[1] + bounds[2] - len)
  IN  CASE mode = "LOWER"  -> <<bounds[2] - len, bounds[2]>>
        [] mode = "UPPER"  -> <<bounds[1], bounds[1] + len>>
        [] mode = "MIDDLE" -> <<mid, mid + len>>
        [] OTHER           -> bounds

\* The extensions of the vias are indexed by layer and read by direction: they are those
\* of the right layers when the box's layer is the lower one and the tracks are vertical,
\* or the upper one and the tracks are horizontal.  The tracks reach over the vias of the
\* first box only, and the halves of an odd width are rounded down on both of its sides.
ConnectBox(c, b) ==
  LET call == BoxCalls[c]
      t == Tid(b)
      d == info[t.level].dir
      pd == Perpendicular(d)
      bl == call.vdir
      tl == 3 - bl
      start == [l \in 1 .. 2 |-> IF l = bl THEN Span(call.box[pd], call.num[pd], call.sp[pd])
                                 ELSE Span(call.box[d], call.num[d], call.sp[d])]
      wire(i) == Wire(t, start[2], i)
      id(i) == ViaIdOf(bl, call.key, wire(i).key)
      overlap(i) == MakeBox(d, call.box[d], wire(i).box[pd])
      metal(i) == ViaMetal(id(i), Dim(overlap(i)), IF bl = 1 THEN pd ELSE d, TRUE)
      ext(i) == ViaExt(metal(i), Dim(overlap(i)), bl, pd, d)
      along == [i \in 1 .. 2 |-> IF i = d THEN call.num[d] ELSE 1]
      done == {i \in Copies(t) : \A j \in 0 .. i : id(j) \in ViaIds}
      whole == done = Copies(t)
      reach(i, o) == <<overlap(i)[o][1] - ext(i)[o], overlap(i)[o][2] + ext(i)[o]>>
      hull(l, o) == <<Min({start[l][1]} \cup {reach(i, o)[1] : i \in Copies(t)}),
                      Max({start[l][2]} \cup {reach(i, o)[2] : i \in Copies(t)})>>
      across == Reach(hull(bl, pd), call.box_ext)
      length == Lengthened(Reach(hull(tl, d), call.tr_ext), TestKey(t.level),
                           WireSpan(info[t.level], t.ntr), call.mode)
      sound == whole /\ bl = pd /\ call.num[d] = 1 /\ Dim(call.box)[d] % 2 = 0
  IN  /\ Draw /\ t.level \in Levels
      /\ vias' = vias \cup UNION {ViaArr(id(i), metal(i), Center(overlap(i)), along, call.sp,
                                        sound) : i \in done}
      /\ rects' = IF ~whole THEN rects
                  ELSE rects \cup RectArr(call.key, MakeBox(d, call.box[d], across), along, call.sp)
                             \cup Wires(t, length)
      /\ UNCHANGED pins

\* add_via_arr; the metals are drawn as shapes too when `layers` is set.
AddViaArr(v) ==
  LET call == ViaCalls[v]
      metal == ViaMetal(call.id, call.dim, 1, TRUE)
      new == ViaArr(call.id, metal, call.at, call.num, call.sp, call.layers)
  IN  /\ Draw
      /\ vias' = vias \cup new
      /\ rects' = IF ~call.layers THEN rects
                  ELSE rects \cup {Shape(x.id[l], x.metals[l]) : x \in new, l \in 1 .. 2}
      /\ UNCHANGED pins

DrawCall ==
  \/ \E a \in DOMAIN Arrays : AddWarr(a) \/ AddPinArr(a)
  \/ \E a, b \in DOMAIN Arrays, extend, contain \in BOOLEAN : AddVias(a, b, extend, contain)
  \/ \E a, b \in DOMAIN Arrays, w_ext, tr_ext \in Bounds : ConnectWires(a, b, w_ext, tr_ext)
  \/ \E c \in DOMAIN BoxCalls, b \in DOMAIN Arrays : ConnectBox(c, b)
  \/ \E v \in DOMAIN ViaCalls : AddViaArr(v)

Init == GridInit /\ rects = {} /\ vias = {} /\ pins = {} /\ draws = 0

\* Nothing drawn is read by a search: searches start while the cellview is empty (a bound).
Next ==
  \/ 2 * edits + draws + 2 <= MaxCalls /\ GridEdit /\ UNCHANGED cv
  \/ draws = 0 /\ (\E q \in Requests : StartSizing(q)) /\ UNCHANGED cv
  \/ SizingStep /\ UNCHANGED cv
  \/ DrawCall

\* As in RoutingGrid: only a search takes steps of its own.
Spec == Init /\ [][Next]_vars /\ WF_vars(SizingStep /\ UNCHANGED cv)

-----------------------------------------------------------------------------
(***************************************************************************)
(* Properties.                                                             *)
(***************************************************************************)

\* The shape of the variables: every shape, pin and via is on layers the grid has.
TypeOK ==
  /\ GridTypeOK
  /\ draws \in 0 .. MaxCalls
  /\ \A x \in rects \cup pins : x.key[1] \in Levels /\ x.key[2] \in 0 .. NumColors[x.key[1]] - 1
  /\ \A x \in vias : x.sound \in BOOLEAN /\ \A l \in 1 .. 2 : x.id[l][1] \in Levels

\* The bounds of a track_id are those of its wires taken together (get_bounds), when the
\* tracks have whole half pitches: the bounds halve the sum, the wires each half pitch.
ArraysBounded ==
  \A a \in DOMAIN Arrays : Tid(a).level \in Levels /\ Pitch(info[Tid(a).level]) % 2 = 0 =>
    LET t == Tid(a)
        bounds(i) == WireBounds(t.level, HtrOf(t, i), t.ntr)
    IN  TidBounds(t) = <<Min({bounds(i)[1] : i \in Copies(t)}), Max({bounds(i)[2] : i \in Copies(t)})>>

\* The grid's numbers fit together, whatever calls changed it: blocks, tracks, and arrays
\* of tracks.
OnGrid == BlocksOnGrid /\ TracksPlaced /\ ArraysBounded

\* Every via that a call drew to its end has each of its metals inside a wire on that
\* metal's layer and colour: the wires reach over the vias they were extended for,
\* whatever the grid, the colours and the order of the two arrays (add_via_on_intersections,
\* connect_warr_track, connect_box_track where its two indexings agree and the box is not
\* odd, add_via_arr).
ViasCovered ==
  \A v \in vias : v.sound =>
    \A l \in 1 .. 2 : \E r \in rects : r.key = v.id[l] /\ Inside(v.metals[l], r.box)
=============================================================================
