----------------------------- MODULE RoutingGrid -----------------------------
(***************************************************************************)
(* cbag::layout::routing_grid: the tracks of the routing levels and the    *)
(* block pitches derived from them, with the calls that change them, and   *)
(* get_min_num_tr, which searches the least number of tracks that carries  *)
(* a current.  A grid may be changed between any two calls, but not while  *)
(* a search is at work.                                                    *)
(*                                                                         *)
(* Levels up to top_ignore_level have no blocks; those up to               *)
(* top_private_level share their blocks among themselves only.             *)
(***************************************************************************)
EXTENDS TrackInfo

CONSTANTS
  BotLevel, TopLevel,
  InitTracks,  \* the direction, width and space of each level in the file
  Sizes,       \* the widths and spaces set_level is given
  Offsets,     \* the offsets set_track_offset is given
  Xforms,      \* where a master is placed when its flip parity is asked for
  BadParities, \* flip parities of a grid with other levels
  Requests,    \* searches: level, the three currents, the tracks below and above
  MaxEdits,    \* bound on the calls that change the grid
  MaxTracks,   \* bound on the number of tracks a search doubles
  None

Levels == BotLevel .. TopLevel

ASSUME GridAssumption ==
  /\ BotLevel \in Int /\ TopLevel \in Int /\ BotLevel <= TopLevel
  /\ InitTracks \in [Levels -> [dir : Directions, w : Nat \ {0}, sp : Nat \ {0}]]
  /\ Sizes \subseteq (Nat \ {0}) \X (Nat \ {0}) /\ Offsets \subseteq Int
  /\ MaxEdits \in Nat /\ MaxTracks \in Nat
  /\ \A l \in Levels : NumColors[l] \in Nat \ {0}
  /\ Xforms \subseteq Xform
  /\ \A parity \in BadParities : parity \in Seq(Int \X {-1, 1} \X Int)
  /\ None \notin Int /\ None \notin Requests
  /\ \A q \in Requests : q.level \in Int /\ q.bot \in Nat /\ q.top \in Nat

\* The widths and spaces that tracks may come to have, and the widths of wires of one
\* track or two.
TrackSizes == Sizes \cup {<<InitTracks[l].w, InitTracks[l].sp>> : l \in Levels}
NarrowSpans == {WireSpan([w |-> s[1], sp |-> s[2]], n) : s \in TrackSizes, n \in 1 .. 2}

\* The metals of the vias between them have sizes.
ASSUME MetalAssumption ==
  \A id \in ViaIds, dim \in [1 .. 2 -> NarrowSpans], dir \in Directions :
    ViaMetal(id, dim, dir, TRUE) \in [1 .. 2 -> [1 .. 2 -> Nat]]

VARIABLES
  info,               \* the tracks of each level
  top_ignore_level,
  top_private_level,
  base,               \* top_ignore_level when the block pitches were computed (history)
  edits,              \* the calls that changed the grid
  req,                \* the search that is at work, or that ended last
  low, high, current, marker,  \* its binary iterator
  sized               \* what it returned

grid == <<info, top_ignore_level, top_private_level, base, edits>>
iter == <<low, high, current, marker>>
gridVars == <<grid, req, iter, sized>>

Searching == req # None /\ sized = None

-----------------------------------------------------------------------------
(***************************************************************************)
(* Block pitches.                                                          *)
(***************************************************************************)

\* std::lcm
Lcm(a, b) == (a \div Max({d \in 1 .. a : a % d = 0 /\ b % d = 0})) * b

\* The first level of the group of l, private or public.
GroupStart(l, private, ignore) ==
  IF l <= private THEN ignore + 1 ELSE Max({ignore, private}) + 1

\* update_block_pitch: the pitch of a level, and half of it, each made a multiple of
\* those of the levels below it in its group that have its direction.
BlockPitches(tr, private, ignore) ==
  LET below(l) == {m \in Levels : /\ GroupStart(l, private, ignore) <= m /\ m < l
                                  /\ tr[m].dir = tr[l].dir}
      blk[l \in Levels] ==
        IF l <= ignore THEN <<-1, -1>>
        ELSE [i \in 1 .. 2 |-> FoldSet(Lcm, Pitch(tr[l]) \div i, {blk[m][i] : m \in below(l)})]
  IN  blk

WithBlocks(tr, private, ignore) ==
  LET blk == BlockPitches(tr, private, ignore)
  IN  [l \in Levels |-> [tr[l] EXCEPT !.blk_pitch = blk[l]]]

LowerOrthogonal(l) ==
  Max({BotLevel - 1} \cup {m \in Levels : m < l /\ info[m].dir # info[l].dir})

BlockDefinedAt(l) == LowerOrthogonal(l) >= BotLevel /\ LowerOrthogonal(l) > top_private_level

\* get_top_track_pitches, for a level where blocks are defined.
TopTrackPitches(l) ==
  [i \in 1 .. 2 |-> Pitch(info[IF i = info[l].dir THEN LowerOrthogonal(l) ELSE l])]

\* get_blk_size: across the tracks the level's own pitch; along them that of the level
\* they cross, if it counts, else 2, or 1 for half blocks.
BlkSize(l, include_private, half) ==
  LET bot == LowerOrthogonal(l)
      counts == /\ bot >= BotLevel
                /\ include_private \/ l <= top_private_level \/ top_private_level < bot
      blk(m, i) == info[m].blk_pitch[IF half[i] THEN 2 ELSE 1]
  IN  [i \in 1 .. 2 |-> IF i # info[l].dir THEN blk(l, i)
                        ELSE IF counts THEN blk(bot, i)
                        ELSE IF half[i] THEN 1 ELSE 2]

-----------------------------------------------------------------------------
(***************************************************************************)
(* Calls that change the grid.                                             *)
(***************************************************************************)

Edit ==
  /\ ~Searching /\ edits < MaxEdits /\ edits' = edits + 1
  /\ req' = None /\ sized' = None
  /\ UNCHANGED iter

\* A slip: only the blocks of the level itself and of those above it are computed again.
SetLevel_Above(level, private, dir, size) ==
  /\ Edit
  /\ IF level \notin Levels THEN UNCHANGED <<info, top_private_level, base>>
     ELSE LET tr == [info EXCEPT ![level] = [@ EXCEPT !.dir = dir, !.w = size[1], !.sp = size[2],
                                                      !.offset = (size[1] + size[2]) \div 2]]
          IN  /\ top_private_level' = IF private THEN Max({top_private_level, level})
                                      ELSE top_private_level
              /\ info' = [l \in Levels |->
                            IF l < level THEN tr[l]
                            ELSE WithBlocks(tr, top_private_level', top_ignore_level)[l]]
              /\ base' = top_ignore_level
  /\ UNCHANGED top_ignore_level

SetLevel(level, private, dir, size) ==
  /\ Edit
  /\ IF level \notin Levels THEN UNCHANGED <<info, top_private_level, base>>
     ELSE LET tr == [info EXCEPT ![level] = [@ EXCEPT !.dir = dir, !.w = size[1], !.sp = size[2],
                                                      !.offset = (size[1] + size[2]) \div 2]]
          IN  /\ top_private_level' = IF private THEN Max({top_private_level, level})
                                      ELSE top_private_level
              /\ info' = WithBlocks(tr, top_private_level', top_ignore_level)
              /\ base' = top_ignore_level
  /\ UNCHANGED top_ignore_level

\* The block pitches stay as they are.
SetTopIgnoreLevel(level) ==
  /\ Edit
  /\ top_ignore_level' = IF level > TopLevel THEN top_ignore_level
                         ELSE Max({level, BotLevel - 1})
  /\ UNCHANGED <<info, top_private_level, base>>

SetTrackOffset(level, offset) ==
  /\ Edit
  /\ info' = IF level \notin Levels THEN info ELSE [info EXCEPT ![level].offset = offset]
  /\ UNCHANGED <<top_ignore_level, top_private_level, base>>

\* get_flip_parity_at over all levels, for an orientation that keeps the axes; it throws
\* when the location is on no half track of some level.
FlipParity(xform) ==
  LET at(l) == info[l]
  IN  [i \in 1 .. TopLevel - BotLevel + 1 |->
         LET l == BotLevel + i - 1
         IN  <<l, at(l).par_scale * Sign(xform.orient)[at(l).dir],
               at(l).par_scale * CoordToHtr(at(l), xform.loc[at(l).dir], "NONE", FALSE)
                 + at(l).par_offset>>]

FlipParities ==
  {FlipParity(x) : x \in {y \in Xforms : /\ ~FlipsXY(y.orient)
                                         /\ \A l \in Levels : OnTrack(info[l], y.loc[info[l].dir])}}

\* set_flip_parity stops at the first level that is not defined, the ones before it set.
SetFlipParity(parity) ==
  LET stop == Min({Len(parity) + 1} \cup {i \in DOMAIN parity : parity[i][1] \notin Levels})
      sets(l) == {i \in 1 .. stop - 1 : parity[i][1] = l}
  IN  /\ Edit
      /\ info' = [l \in Levels |->
                    IF sets(l) = {} THEN info[l]
                    ELSE [info[l] EXCEPT !.par_scale = parity[Max(sets(l))][2],
                                         !.par_offset = parity[Max(sets(l))][3]]]
      /\ UNCHANGED <<top_ignore_level, top_private_level, base>>

GridEdit ==
  \/ \E level \in BotLevel - 1 .. TopLevel + 1, private \in BOOLEAN, dir \in Directions,
        size \in Sizes : SetLevel(level, private, dir, size)
  \/ \E level \in BotLevel - 2 .. TopLevel + 1 : SetTopIgnoreLevel(level)
  \/ \E level \in BotLevel - 1 .. TopLevel, offset \in Offsets : SetTrackOffset(level, offset)
  \/ \E parity \in FlipParities \cup BadParities : SetFlipParity(parity)

-----------------------------------------------------------------------------
(***************************************************************************)
(* get_min_num_tr: the least number of tracks that carries the currents of *)
(* a request, in the wire itself and in the vias to the levels below and   *)
(* above.  tr is the tracks of the grid.                                   *)
(***************************************************************************)

Exceeds(currents, limits) == \E i \in DOMAIN currents : currents[i] > limits[i]

\* The adjacent levels the request has vias to.  A level of the same direction counts
\* for nothing; one that does not exist makes the call throw.
Adjacent(q) == (IF q.bot > 0 THEN {q.level - 1} ELSE {}) \cup (IF q.top > 0 THEN {q.level + 1} ELSE {})
Crossed(tr, q) == {m \in Adjacent(q) : tr[m].dir # tr[q.level].dir}
TracksAt(q, m) == IF m < q.level THEN q.bot ELSE q.top

Layers(l, m) == <<TestKey(Min({l, m})), TestKey(Max({l, m}))>>

MetalHolds(tr, q, n) == ~Exceeds(q.currents, MetalEm(q.level, WireSpan(tr[q.level], n)))

\* A via that cannot be drawn carries nothing, and is refused even when nothing is asked.
ViaHolds(tr, q, n, m) ==
  LET w == WireSpan(tr[q.level], n)
      adj_w == WireSpan(tr[m], TracksAt(q, m))
      dim == [i \in 1 .. 2 |-> IF i = tr[q.level].dir THEN adj_w ELSE w]
      em == IF ViaMetal(Layers(q.level, m), dim, tr[Min({q.level, m})].dir, TRUE) = NoMetal THEN <<0, 0, 0>>
            ELSE ViaEm(q.level, m, w, adj_w)
  IN  em # <<0, 0, 0>> /\ ~Exceeds(q.currents, em)

Passes(tr, q, n) == MetalHolds(tr, q, n) /\ \A m \in Crossed(tr, q) : ViaHolds(tr, q, n, m)

\* get_via_id throws for a via that is reached: the wire holds, and so does the via below.
Unknown(tr, q, n) ==
  /\ MetalHolds(tr, q, n)
  /\ \E m \in Crossed(tr, q) :
       /\ Layers(q.level, m) \notin ViaIds
       /\ \A k \in Crossed(tr, q) : k < m => ViaHolds(tr, q, n, k)

StartSizing(q) ==
  /\ ~Searching
  /\ {q.level} \cup Adjacent(q) \subseteq Levels
  /\ req' = q /\ sized' = None
  /\ low' = 1 /\ high' = None /\ current' = 1 /\ marker' = None
  /\ UNCHANGED grid

HasNext == high # None => low < high

\* A slip: the number that failed stays in the range.
More_KeepLow ==
  /\ Searching /\ HasNext /\ ~Unknown(info, req, current) /\ ~Passes(info, req, current)
  /\ high = None => current <= MaxTracks
  /\ low' = current
  /\ current' = IF high # None THEN (current + high) \div 2
                ELSE IF current > 0 THEN 2 * current ELSE 1
  /\ UNCHANGED <<grid, req, high, marker, sized>>

\* Too few: look higher, at twice the number while there is no bound.
More ==
  /\ Searching /\ HasNext /\ ~Unknown(info, req, current) /\ ~Passes(info, req, current)
  /\ high = None => current <= MaxTracks
  /\ low' = current + 1
  /\ current' = IF high # None THEN (current + 1 + high) \div 2
                ELSE IF current > 0 THEN 2 * current ELSE 1
  /\ UNCHANGED <<grid, req, high, marker, sized>>

\* A slip: the number that is saved counts as looked at, and so does the one below it.
Fewer_Below ==
  /\ Searching /\ HasNext /\ ~Unknown(info, req, current) /\ Passes(info, req, current)
  /\ marker' = current
  /\ high' = current - 1
  /\ current' = (low + current - 1) \div 2
  /\ UNCHANGED <<grid, req, low, sized>>

\* Enough: save the number and look lower.
Fewer ==
  /\ Searching /\ HasNext /\ ~Unknown(info, req, current) /\ Passes(info, req, current)
  /\ marker' = current
  /\ high' = current
  /\ current' = (low + current) \div 2
  /\ UNCHANGED <<grid, req, low, sized>>

ResetIter == low' = 1 /\ high' = None /\ current' = 1 /\ marker' = None

SizingThrows ==
  /\ Searching /\ HasNext /\ Unknown(info, req, current)
  /\ req' = None /\ ResetIter
  /\ UNCHANGED <<grid, sized>>

Sized ==
  /\ Searching /\ ~HasNext
  /\ sized' = marker /\ ResetIter
  /\ UNCHANGED <<grid, req>>

SizingStep == More \/ Fewer \/ SizingThrows \/ Sized

-----------------------------------------------------------------------------
NewTrack(t) ==
  [dir |-> t.dir, w |-> t.w, sp |-> t.sp, offset |-> (t.w + t.sp) \div 2,
   par_scale |-> 1, par_offset |-> 0, blk_pitch |-> <<1, 1>>]

GridInit ==
  /\ top_ignore_level = BotLevel - 1 /\ top_private_level = BotLevel - 1
  /\ info = WithBlocks([l \in Levels |-> NewTrack(InitTracks[l])], BotLevel - 1, BotLevel - 1)
  /\ base = BotLevel - 1 /\ edits = 0
  /\ req = None /\ sized = None
  /\ low = 1 /\ high = None /\ current = 1 /\ marker = None

GridNext == GridEdit \/ (\E q \in Requests : StartSizing(q)) \/ SizingStep

\* A search runs to its end without waiting for anything.
GridSpec == GridInit /\ [][GridNext]_gridVars /\ WF_gridVars(SizingStep)

-----------------------------------------------------------------------------
(***************************************************************************)
(* Queries on the tracks.                                                  *)
(***************************************************************************)

\* A slip: the remainder of a negative number.
HtrParity_Rem(l, htr) ==
  Rem(info[l].par_scale * htr + info[l].par_offset, 2 * NumColors[l]) \div 2

\* get_htr_parity, the colour of a half track.
HtrParity(l, htr) ==
  ((info[l].par_scale * htr + info[l].par_offset) % (2 * NumColors[l])) \div 2

LayerAt(l, htr) == <<l, HtrParity(l, htr)>>

\* get_wire_bounds
WireBounds(l, htr, ntr) ==
  LET half_w == WireSpan(info[l], ntr) \div 2
      coord == HtrToCoord(info[l], htr)
  IN  <<coord - half_w, coord + half_w>>

\* get_via_extensions of a wire of level l and one of level m, where a via fits.
ViaExtensions(l, ntr, m, adj_ntr) ==
  LET dir == info[l].dir
      dim == [i \in 1 .. 2 |-> IF i = dir THEN WireSpan(info[l], ntr) ELSE WireSpan(info[m], adj_ntr)]
  IN  ViaExt(ViaMetal(Layers(l, m), dim, info[Min({l, m})].dir, TRUE), dim, IF l < m THEN 1 ELSE 2, dir, info[m].dir)

\* get_line_end_space_htr: the half tracks of level l that keep the line ends apart on
\* level m, where each wire ends beyond its via.
LineEndSpaceHtr(l, ntr, m) ==
  LET ext == ViaExtensions(l, ntr, m, 1)[IF l < m THEN 1 ELSE 2]
  IN  SpaceToHtr(info[l], 2 * ext + MinSpace(TestKey(l), WireSpan(info[l], ntr), "LINE_END", FALSE))

-----------------------------------------------------------------------------
(***************************************************************************)
(* Properties.                                                             *)
(***************************************************************************)

TrackOK(t) ==
  /\ t.dir \in Directions /\ t.w \in Nat \ {0} /\ t.sp \in Nat \ {0}
  /\ t.offset \in Int /\ t.par_scale \in {-1, 1} /\ t.par_offset \in Int

\* The iterator counts in tracks, from one.
IterOK ==
  /\ low \in Nat \ {0} /\ current \in Nat \ {0}
  /\ high \in Nat \cup {None} /\ marker \in Nat \cup {None}
  /\ req \in Requests \cup {None} /\ sized \in Nat \cup {None}

\* The shape of the variables.  Every colour is one the level has.
GridTypeOK ==
  /\ DOMAIN info = Levels /\ \A l \in Levels : TrackOK(info[l])
  /\ {top_ignore_level, top_private_level, base} \subseteq BotLevel - 1 .. TopLevel
  /\ \A l \in Levels, htr \in -3 .. 3 : HtrParity(l, htr) \in 0 .. NumColors[l] - 1
  /\ IterOK

\* The levels that share their blocks with l, up to l.
GroupUpTo(l) == {m \in Levels : /\ base < m /\ m <= l
                                /\ (m <= top_private_level) = (l <= top_private_level)
                                /\ info[m].dir = info[l].dir}

Divides(a, b) == b % a = 0

\* The pitches kept for level l are the least that every level of its group with its
\* direction, up to l, divides, in full and half pitches.
LeastBlocks(l) ==
  \A i \in 1 .. 2 :
    LET pitches == {Pitch(info[m]) \div i : m \in GroupUpTo(l)}
        blk == info[l].blk_pitch[i]
    IN  /\ blk > 0 /\ \A p \in pitches : Divides(p, blk)
        /\ \A n \in 1 .. blk - 1 : \E p \in pitches : ~Divides(p, n)

\* A block of level l is made of whole tracks of l and of the level it crosses; of whole
\* half tracks when half blocks are asked for.
WholeBlocks(l) ==
  \A i \in 1 .. 2 :
    LET p == TopTrackPitches(l)[i]
    IN  /\ Divides(p, BlkSize(l, FALSE, <<FALSE, FALSE>>)[i])
        /\ Divides(p \div 2, BlkSize(l, FALSE, <<TRUE, TRUE>>)[i])

\* Whatever calls changed the grid, in any order, every level above those ignored when
\* the pitches were computed last has the right ones, the ignored ones have none, and
\* the blocks that are defined hold whole tracks (update_block_pitch, get_blk_size,
\* get_top_track_pitches).
BlocksOnGrid ==
  \A l \in Levels :
    /\ IF l <= base THEN info[l].blk_pitch = <<-1, -1>> ELSE LeastBlocks(l)
    /\ BlockDefinedAt(l) /\ LowerOrthogonal(l) > base => WholeBlocks(l)

\* At a coordinate not below the offset and the first wire, find_next_htr finds the
\* first wire that starts at it or after it, and the last that ends at it or before.
NextWires(l, coord, ntr) ==
  LET above == FindNextHtr(info[l], coord, ntr, "GREATER_EQ", FALSE)
      below == FindNextHtr(info[l], coord, ntr, "LESS_EQ", FALSE)
  IN  /\ WireBounds(l, above, ntr)[1] >= coord /\ WireBounds(l, above - 1, ntr)[1] < coord
      /\ WireBounds(l, below, ntr)[2] <= coord /\ WireBounds(l, below + 1, ntr)[2] > coord

\* Half tracks and coordinates correspond, on both sides of the offset; wires moved by
\* what the min_space_htr and line_end_space_htr functions return beyond the next track
\* are as far apart as asked for; and where tracks are counted from the origin,
\* transform_htr moves a wire as the transformation moves a point.
TracksPlaced ==
  \A l \in Levels :
    LET t == info[l]
    IN  /\ \A htr \in -3 .. 3 : /\ OnTrack(t, HtrToCoord(t, htr))
                                 /\ CoordToHtr(t, HtrToCoord(t, htr), "NONE", FALSE) = htr
        /\ t.offset = 0 =>
             \A x \in Xforms, htr \in -3 .. 3 :
               LET d == Perpendicular(t.dir)
               IN  ~FlipsXY(x.orient) /\ OnTrack(t, x.loc[d]) =>
                     HtrToCoord(t, TransformHtr(t, htr, x))
                       = Sign(x.orient)[d] * HtrToCoord(t, htr) + x.loc[d]
        /\ \A ntr \in 1 .. 2 :
             /\ \A c \in 0 .. Pitch(t) :
                  NextWires(l, t.offset + WireSpan(t, ntr) \div 2 + c, ntr)
             /\ \A same \in BOOLEAN :
                  t.sp + HalfPitch(t) * MinSpaceHtr(t, l, ntr, same, FALSE)
                    >= MinSpace(TestKey(l), WireSpan(t, ntr), IF same THEN "SAME_COLOR" ELSE "DIFF_COLOR", FALSE)
             /\ \A m \in Levels \cap {l - 1, l + 1} : info[m].dir # t.dir /\ Layers(l, m) \in ViaIds =>
                  t.sp + HalfPitch(t) * LineEndSpaceHtr(l, ntr, m)
                    >= 2 * ViaExtensions(l, ntr, m, 1)[IF l < m THEN 1 ELSE 2]
                       + MinSpace(TestKey(l), WireSpan(t, ntr), "LINE_END", FALSE)

\* What the search returns carries the currents, and one track less does not, whatever
\* the technology allows: the doubling and the bisection skip no number that matters.
TracksLeast ==
  sized # None => /\ Passes(info, req, sized)
                  /\ sized = 1 \/ ~Passes(info, req, sized - 1)

\* From some number on, which the search reaches, every number of tracks will do.
Enough(q) == \E n \in 1 .. MaxTracks : \A k \in n .. 2 * MaxTracks : Passes(info, q, k)

\* The search ends when enough tracks will do: the doubling passes them, the bisection
\* closes.  Without such a number the code doubles for ever.
SizingEnds == Searching /\ Enough(req) ~> ~Searching
=============================================================================
