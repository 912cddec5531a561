------------------------- MODULE TrackWires_proofs -------------------------
(***************************************************************************)
(* Four results on the routing grid and the wires on its tracks, for       *)
(* every grid, technology, request and array, and among any calls that     *)
(* change the grid, search or draw.                                        *)
(*                                                                         *)
(* TracksAlwaysLeast: what get_min_num_tr returns carries the currents and *)
(* one track less does not.  Nothing is assumed of the technology, not     *)
(* even that more tracks carry more: the argument is that of a bisection.  *)
(* The number below low fails (or low is 1), the number that was saved     *)
(* passes and is high, and the next number to try is in between.           *)
(*                                                                         *)
(* AlwaysTypeOK: the tracks stay tracks, and what is drawn is on layers of *)
(* the grid.  The block pitches, folded over levels, are left open.        *)
(*                                                                         *)
(* AlwaysOnGrid: the block pitches are right for the sizes that the tracks *)
(* had when they were computed, which BlocksInv says of every level (a     *)
(* multiple of the pitch kept is a common multiple of the group's), and    *)
(* the rest is arithmetic on tracks.                                       *)
(*                                                                         *)
(* AlwaysViasCovered: each metal of a via is inside a wire.  A via on a    *)
(* crossing has its metals within the edges of their wires and within the  *)
(* parts reported as taken (CrossingVia, BoxVia); the bounds of the wires  *)
(* only grow from the hull of those parts (BoundsHold, ReachGrows,         *)
(* LengthenedGrows); and no wire is ever taken back (CoverGrows).          *)
(***************************************************************************)
EXTENDS TrackWires, FiniteSetTheorems, Recursion, TLAPS

\* The counters of a search, whether it is at work or not.
CountersOK ==
  /\ low \in Nat \ {0} /\ current \in Nat \ {0}
  /\ high \in Nat \cup {None} /\ marker \in Nat \cup {None}
  /\ req \in Requests \cup {None} /\ sized \in Nat \cup {None}

\* While a search is at work, `low` is the least number that may still do.
Bracket ==
  Searching => /\ low <= current
               /\ low = 1 \/ ~Passes(info, req, low - 1)
               /\ marker = high
               /\ high # None => /\ current <= high
                                 /\ low < high => current < high
                                 /\ Passes(info, req, high)

SearchInv == CountersOK /\ Bracket /\ TracksLeast

\* A request is not None, and None is not a number.
LEMMA NoneApart == None \notin Nat /\ None \notin Requests
BY GridAssumption

\* Half of the sum of two numbers is in between.
LEMMA Middle ==
  ASSUME NEW a \in Nat, NEW b \in Nat, a <= b
  PROVE  /\ (a + b) \div 2 \in Nat /\ a <= (a + b) \div 2 /\ (a + b) \div 2 <= b
         /\ a < b => (a + b) \div 2 < b
OBVIOUS

LEMMA InitSearch == Init => SearchInv
BY NoneApart DEF Init, GridInit, SearchInv, CountersOK, Bracket, TracksLeast, Searching

\* A call that changes the grid or draws ends what is left of a search.
LEMMA ForgetKeeps ==
  ASSUME SearchInv, req' = None, sized' = None, UNCHANGED iter
  PROVE  SearchInv'
BY DEF SearchInv, CountersOK, Bracket, TracksLeast, Searching, iter

LEMMA EditForgets ==
  ASSUME GridEdit
  PROVE  req' = None /\ sized' = None /\ UNCHANGED iter
BY DEF GridEdit, SetLevel, SetTopIgnoreLevel, SetTrackOffset, SetFlipParity, Edit

LEMMA DrawsFirst ==
  ASSUME DrawCall
  PROVE  Draw
<1>1. ASSUME NEW a, AddWarr(a) PROVE Draw
  BY <1>1 DEF AddWarr
<1>2. ASSUME NEW a, AddPinArr(a) PROVE Draw
  BY <1>2 DEF AddPinArr
<1>3. ASSUME NEW a, NEW b, NEW extend, NEW contain, AddVias(a, b, extend, contain)
      PROVE  Draw
  BY <1>3 DEF AddVias
<1>4. ASSUME NEW a, NEW b, NEW w_ext, NEW tr_ext, ConnectWires(a, b, w_ext, tr_ext)
      PROVE  Draw
  BY <1>4 DEF ConnectWires
<1>5. ASSUME NEW c, NEW b, ConnectBox(c, b) PROVE Draw
  BY <1>5 DEF ConnectBox
<1>6. ASSUME NEW v, AddViaArr(v) PROVE Draw
  BY <1>6 DEF AddViaArr
<1>7. QED
  BY <1>1, <1>2, <1>3, <1>4, <1>5, <1>6 DEF DrawCall

LEMMA DrawForgets ==
  ASSUME DrawCall
  PROVE  req' = None /\ sized' = None /\ UNCHANGED iter
BY DrawsFirst DEF Draw

LEMMA StartKeeps ==
  ASSUME SearchInv, NEW q \in Requests, StartSizing(q)
  PROVE  SearchInv'
BY NoneApart DEF StartSizing, SearchInv, CountersOK, Bracket, TracksLeast, Searching

\* A number that fails raises low above it.
LEMMA MoreKeeps ==
  ASSUME SearchInv, More
  PROVE  SearchInv'
<1>1. /\ CountersOK /\ Bracket /\ Searching /\ sized = None
      /\ low <= current /\ low \in Nat \ {0} /\ current \in Nat \ {0} /\ high \in Nat \cup {None}
  BY DEF More, SearchInv, Bracket, CountersOK, Searching
<1>2. low' = current + 1 /\ ~Passes(info, req, current)
  BY DEF More
<1>3. UNCHANGED <<info, req, high, marker, sized>>
  BY DEF More, grid
<1>4. high # None => current < high /\ current + 1 <= high
  BY <1>1, NoneApart DEF More, HasNext, Bracket
<1>5. /\ current' \in Nat \ {0} /\ low' <= current'
      /\ high' # None => current' <= high' /\ (low' < high' => current' < high')
  <2>1. CASE high # None
    <3>1. current' = (current + 1 + high) \div 2
      BY <2>1 DEF More
    <3>2. QED
      BY <1>1, <1>2, <1>3, <1>4, <2>1, <3>1, Middle
  <2>2. CASE high = None
    <3>1. current' = 2 * current
      BY <1>1, <2>2 DEF More
    <3>2. QED
      BY <1>1, <1>2, <1>3, <2>2, <3>1
  <2>3. QED
    BY <2>1, <2>2
<1>6. CountersOK'
  BY <1>1, <1>2, <1>3, <1>5 DEF CountersOK
<1>7. low' - 1 = current
  BY <1>1, <1>2
<1>8. Bracket'
  BY <1>1, <1>2, <1>3, <1>5, <1>7 DEF Bracket, Searching
<1>9. TracksLeast'
  BY <1>1, <1>3 DEF TracksLeast
<1>10. QED
  BY <1>6, <1>8, <1>9 DEF SearchInv

\* A number that passes is saved, and high comes down to it.
LEMMA FewerKeeps ==
  ASSUME SearchInv, Fewer
  PROVE  SearchInv'
<1>1. /\ CountersOK /\ Bracket /\ Searching /\ sized = None
      /\ low <= current /\ low \in Nat \ {0} /\ current \in Nat \ {0}
  BY DEF Fewer, SearchInv, Bracket, CountersOK, Searching
<1>2. /\ marker' = current /\ high' = current /\ current' = (low + current) \div 2
      /\ Passes(info, req, current)
  BY DEF Fewer
<1>3. UNCHANGED <<info, req, low, sized>>
  BY DEF Fewer, grid
<1>4. /\ current' \in Nat \ {0} /\ low' <= current' /\ current' <= high'
      /\ low' < high' => current' < high'
  BY <1>1, <1>2, <1>3, Middle
<1>5. CountersOK'
  BY <1>1, <1>2, <1>3, <1>4 DEF CountersOK
<1>6. Bracket'
  BY <1>1, <1>2, <1>3, <1>4 DEF Bracket, Searching
<1>7. TracksLeast'
  BY <1>1, <1>3 DEF TracksLeast
<1>8. QED
  BY <1>5, <1>6, <1>7 DEF SearchInv

\* Where nothing is left between low and high, high is the least number.
LEMMA SizedKeeps ==
  ASSUME SearchInv, Sized
  PROVE  SearchInv'
<1>1. /\ CountersOK /\ Bracket /\ Searching
      /\ high # None /\ ~(low < high) /\ high \in Nat /\ low \in Nat \ {0} /\ current \in Nat
  BY NoneApart DEF Sized, SearchInv, CountersOK, HasNext
<1>2. /\ low <= current /\ current <= high /\ marker = high
      /\ Passes(info, req, high) /\ (low = 1 \/ ~Passes(info, req, low - 1))
  BY <1>1 DEF Bracket
<1>3. low = high
  BY <1>1, <1>2
<1>4. /\ sized' = high /\ UNCHANGED <<info, req>>
      /\ low' = 1 /\ high' = None /\ current' = 1 /\ marker' = None
  BY <1>2 DEF Sized, ResetIter, grid
<1>5. TracksLeast'
  BY <1>1, <1>2, <1>3, <1>4 DEF TracksLeast
<1>6. CountersOK'
  BY <1>1, <1>4 DEF CountersOK
<1>7. Bracket'
  BY <1>1, <1>4 DEF Bracket, Searching
<1>8. QED
  BY <1>5, <1>6, <1>7 DEF SearchInv

LEMMA ThrowsKeeps ==
  ASSUME SearchInv, SizingThrows
  PROVE  SearchInv'
BY DEF SizingThrows, ResetIter, SearchInv, CountersOK, Bracket, TracksLeast, Searching

LEMMA StepKeeps ==
  ASSUME SearchInv, [Next]_vars
  PROVE  SearchInv'
<1>1. CASE GridEdit
  BY <1>1, EditForgets, ForgetKeeps
<1>2. CASE \E q \in Requests : StartSizing(q)
  BY <1>2, StartKeeps
<1>3. CASE SizingStep
  BY <1>3, MoreKeeps, FewerKeeps, ThrowsKeeps, SizedKeeps DEF SizingStep
<1>4. CASE DrawCall
  BY <1>4, DrawForgets, ForgetKeeps
<1>5. CASE UNCHANGED vars
  BY <1>5 DEF vars, gridVars, grid, iter, SearchInv, CountersOK, Bracket, TracksLeast, Searching
<1>6. QED
  BY <1>1, <1>2, <1>3, <1>4, <1>5 DEF Next

\* What the search returns is the least number of tracks that carries the request, on
\* every grid and whatever calls came between the searches (get_min_num_tr with the
\* binary_iterator).
THEOREM TracksAlwaysLeast == Spec => []TracksLeast
<1>1. SearchInv => TracksLeast
  BY DEF SearchInv
<1>2. QED
  BY InitSearch, StepKeeps, <1>1, PTL DEF Spec

\* The counters of the search stay positive numbers (the iterator never reaches zero
\* tracks, which no wire has).
THEOREM CountersAlwaysOK == Spec => []CountersOK
<1>1. SearchInv => CountersOK
  BY DEF SearchInv
<1>2. QED
  BY InitSearch, StepKeeps, <1>1, PTL DEF Spec

-----------------------------------------------------------------------------
(***************************************************************************)
(* The tracks of the grid.                                                 *)
(***************************************************************************)

\* Tracks whose block pitches, which are computed by folding over levels, are in S.
TrackOf(S) ==
  [dir : Directions, w : Nat \ {0}, sp : Nat \ {0}, offset : Int, par_scale : {-1, 1},
   par_offset : Int, blk_pitch : S]

Tracked(tr) ==
  /\ \E S : tr \in [Levels -> TrackOf(S)]
  /\ \A l \in Levels : <<tr[l].w, tr[l].sp>> \in TrackSizes

MarksIn(marks) == marks \subseteq BotLevel - 1 .. TopLevel

GridInv ==
  /\ Tracked(info) /\ MarksIn({top_ignore_level, top_private_level, base})
  /\ edits \in Nat /\ draws \in 0 .. MaxCalls

LEMMA MaxOfTwo ==
  ASSUME NEW a \in Int, NEW b \in Int
  PROVE  /\ Max({a, b}) = IF a >= b THEN a ELSE b
         /\ Min({a, b}) = IF a <= b THEN a ELSE b
<1>1. \E x \in {a, b} : \A y \in {a, b} : x >= y
  OBVIOUS
<1>2. \E x \in {a, b} : \A y \in {a, b} : x <= y
  OBVIOUS
<1>3. Max({a, b}) \in {a, b} /\ \A y \in {a, b} : Max({a, b}) >= y
  BY <1>1 DEF Max
<1>4. Min({a, b}) \in {a, b} /\ \A y \in {a, b} : Min({a, b}) <= y
  BY <1>2 DEF Min
<1>5. QED
  BY <1>3, <1>4

LEMMA LargerOfTwo ==
  ASSUME NEW a \in Int, NEW b \in Int
  PROVE  /\ Max({a, b}) \in Int /\ a <= Max({a, b}) /\ b <= Max({a, b})
         /\ Min({a, b}) \in Int /\ Min({a, b}) <= a /\ Min({a, b}) <= b
<1>1. CASE a <= b
  <2>1. Max({a, b}) = b /\ Min({a, b}) = a
    BY <1>1, MaxOfTwo
  <2>2. QED
    BY <1>1, <2>1
<1>2. CASE ~(a <= b)
  <2>1. Max({a, b}) = a /\ Min({a, b}) = b
    BY <1>2, MaxOfTwo
  <2>2. QED
    BY <1>2, <2>1
<1>3. QED
  BY <1>1, <1>2

\* A track with one field set is a track.
LEMMA FieldSet ==
  ASSUME NEW S, NEW t \in TrackOf(S)
  PROVE  /\ \A v \in Directions : [t EXCEPT !.dir = v] \in TrackOf(S)
         /\ \A v \in Nat \ {0} : [t EXCEPT !.w = v] \in TrackOf(S)
         /\ \A v \in Nat \ {0} : [t EXCEPT !.sp = v] \in TrackOf(S)
         /\ \A v \in Int : [t EXCEPT !.offset = v] \in TrackOf(S)
         /\ \A v \in {-1, 1} : [t EXCEPT !.par_scale = v] \in TrackOf(S)
         /\ \A v \in Int : [t EXCEPT !.par_offset = v] \in TrackOf(S)
         /\ \A v \in S : [t EXCEPT !.blk_pitch = v] \in TrackOf(S)
BY DEF TrackOf

LEMMA SizeKept ==
  ASSUME NEW S, NEW t \in TrackOf(S), NEW v
  PROVE  /\ [t EXCEPT !.offset = v].w = t.w /\ [t EXCEPT !.offset = v].sp = t.sp
         /\ [t EXCEPT !.blk_pitch = v].w = t.w /\ [t EXCEPT !.blk_pitch = v].sp = t.sp
         /\ \A u : /\ [t EXCEPT !.par_scale = u, !.par_offset = v].w = t.w
                   /\ [t EXCEPT !.par_scale = u, !.par_offset = v].sp = t.sp
BY DEF TrackOf

LEMMA LargerSet ==
  ASSUME NEW S, NEW T, S \subseteq T
  PROVE  TrackOf(S) \subseteq TrackOf(T)
BY DEF TrackOf

\* Computing the blocks again changes nothing else.
LEMMA BlocksTracked ==
  ASSUME NEW tr, Tracked(tr), NEW private, NEW ignore
  PROVE  Tracked(WithBlocks(tr, private, ignore))
<1> DEFINE blk == BlockPitches(tr, private, ignore)
           new(l) == [tr[l] EXCEPT !.blk_pitch = blk[l]]
<1>1. PICK S : tr \in [Levels -> TrackOf(S)]
  BY DEF Tracked
<1> DEFINE T == S \cup {blk[l] : l \in Levels}
<1>2. ASSUME NEW l \in Levels
      PROVE  new(l) \in TrackOf(T) /\ new(l).w = tr[l].w /\ new(l).sp = tr[l].sp
  <2>1. tr[l] \in TrackOf(T) /\ blk[l] \in T
    BY <1>1, LargerSet
  <2>. HIDE DEF T, blk
  <2>2. QED
    BY <2>1, FieldSet, SizeKept, Zenon
<1> HIDE DEF T, new
<1>3. [l \in Levels |-> new(l)] \in [Levels -> TrackOf(T)]
  BY <1>2
<1>4. WithBlocks(tr, private, ignore) = [l \in Levels |-> new(l)]
  BY DEF WithBlocks, new
<1>5. \A l \in Levels : <<new(l).w, new(l).sp>> \in TrackSizes
  BY <1>2 DEF Tracked
<1>6. QED
  BY <1>3, <1>4, <1>5 DEF Tracked

LEMMA InitTracked == Tracked([l \in Levels |-> NewTrack(InitTracks[l])])
<1> DEFINE tr == [l \in Levels |-> NewTrack(InitTracks[l])]
<1>1. ASSUME NEW l \in Levels
      PROVE  /\ NewTrack(InitTracks[l]) \in TrackOf({<<1, 1>>})
             /\ NewTrack(InitTracks[l]).w = InitTracks[l].w /\ NewTrack(InitTracks[l]).sp = InitTracks[l].sp
  <2>1. InitTracks[l] \in [dir : Directions, w : Nat \ {0}, sp : Nat \ {0}]
    BY GridAssumption
  <2>2. (InitTracks[l].w + InitTracks[l].sp) \div 2 \in Int
    BY <2>1
  <2>3. QED
    BY <2>1, <2>2 DEF NewTrack, TrackOf
<1>2. tr \in [Levels -> TrackOf({<<1, 1>>})]
  BY <1>1
<1>3. \A l \in Levels : <<tr[l].w, tr[l].sp>> \in TrackSizes
  BY <1>1 DEF TrackSizes
<1>4. QED
  BY <1>2, <1>3 DEF Tracked

LEMMA InitGrid == Init => GridInv
<1> DEFINE tr == [l \in Levels |-> NewTrack(InitTracks[l])]
<1>1. Tracked(tr)
  BY InitTracked
<1> HIDE DEF tr
<1>2. Tracked(WithBlocks(tr, BotLevel - 1, BotLevel - 1))
  BY <1>1, BlocksTracked
<1>3. ASSUME Init PROVE GridInv
  <2>1. /\ info = WithBlocks(tr, BotLevel - 1, BotLevel - 1) /\ edits = 0 /\ draws = 0
        /\ {top_ignore_level, top_private_level, base} = {BotLevel - 1}
    BY <1>3 DEF Init, GridInit, tr
  <2>2. BotLevel - 1 \in BotLevel - 1 .. TopLevel /\ 0 \in 0 .. MaxCalls
    BY GridAssumption, WiresAssumption
  <2>3. QED
    BY <1>2, <2>1, <2>2 DEF GridInv, MarksIn
<1>4. QED
  BY <1>3

\* A level with another direction and size leaves tracks.
LEMMA LevelTracked ==
  ASSUME GridInv, NEW level \in Levels, NEW dir \in Directions, NEW size \in Sizes
  PROVE  Tracked([info EXCEPT ![level] =
                    [info[level] EXCEPT !.dir = dir, !.w = size[1], !.sp = size[2],
                                        !.offset = (size[1] + size[2]) \div 2]])
<1> DEFINE off == (size[1] + size[2]) \div 2
           t == info[level]
           new == [t EXCEPT !.dir = dir, !.w = size[1], !.sp = size[2], !.offset = off]
           tr == [info EXCEPT ![level] = new]
<1>1. size[1] \in Nat \ {0} /\ size[2] \in Nat \ {0} /\ off \in Int
  BY GridAssumption
<1>2. PICK S : info \in [Levels -> TrackOf(S)]
  BY DEF GridInv, Tracked
<1>3. new \in TrackOf(S)
  <2>. HIDE DEF off
  <2>0. t \in TrackOf(S)
    BY <1>2
  <2>1. [t EXCEPT !.dir = dir] \in TrackOf(S)
    BY <2>0, FieldSet, Zenon
  <2>2. [t EXCEPT !.dir = dir, !.w = size[1]] \in TrackOf(S)
    BY <1>1, <2>1, FieldSet, Zenon
  <2>3. [t EXCEPT !.dir = dir, !.w = size[1], !.sp = size[2]] \in TrackOf(S)
    BY <1>1, <2>2, FieldSet, Zenon
  <2>4. QED
    BY <1>1, <2>3, FieldSet, Zenon
<1>4. new.w = size[1] /\ new.sp = size[2]
  <2>. HIDE DEF off
  <2>1. t \in TrackOf(S)
    BY <1>2
  <2>2. QED
    BY <2>1, Zenon DEF TrackOf
<1>. HIDE DEF new
<1>5. tr \in [Levels -> TrackOf(S)]
  BY <1>2, <1>3
<1>6. ASSUME NEW l \in Levels PROVE <<tr[l].w, tr[l].sp>> \in TrackSizes
  <2>1. CASE l = level
    <3>1. tr[l] = new /\ size = <<size[1], size[2]>>
      BY <1>2, <2>1, GridAssumption
    <3>2. QED
      BY <1>4, <3>1 DEF TrackSizes
  <2>2. CASE l # level
    <3>1. tr[l] = info[l]
      BY <1>2, <2>2
    <3>2. QED
      BY <3>1 DEF GridInv, Tracked
  <2>3. QED
    BY <2>1, <2>2
<1>7. Tracked(tr)
  BY <1>5, <1>6 DEF Tracked
<1>. QED BY <1>7 DEF new

LEMMA LevelKeeps ==
  ASSUME GridInv, NEW level \in BotLevel - 1 .. TopLevel + 1, NEW private \in BOOLEAN,
         NEW dir \in Directions, NEW size \in Sizes, SetLevel(level, private, dir, size)
  PROVE  Tracked(info') /\ MarksIn({top_ignore_level, top_private_level, base})'
<1>1. CASE level \notin Levels
  BY <1>1 DEF SetLevel, GridInv
<1>2. CASE level \in Levels
  <2> DEFINE tr == [info EXCEPT ![level] =
                      [info[level] EXCEPT !.dir = dir, !.w = size[1], !.sp = size[2],
                                          !.offset = (size[1] + size[2]) \div 2]]
  <2>1. Tracked(tr)
    BY <1>2, LevelTracked
  <2>2. /\ info' = WithBlocks(tr, top_private_level', top_ignore_level)
        /\ top_private_level' = (IF private THEN Max({top_private_level, level}) ELSE top_private_level)
        /\ base' = top_ignore_level /\ top_ignore_level' = top_ignore_level
    BY <1>2 DEF SetLevel
  <2>3. /\ top_private_level \in BotLevel - 1 .. TopLevel /\ top_ignore_level \in BotLevel - 1 .. TopLevel
        /\ level \in BotLevel - 1 .. TopLevel
    BY <1>2, GridAssumption DEF GridInv, MarksIn, Levels
  <2>4. top_private_level' \in BotLevel - 1 .. TopLevel
    <3>1. Max({top_private_level, level}) \in {top_private_level, level}
      BY <2>3, MaxOfTwo, GridAssumption
    <3>2. QED
      BY <2>2, <2>3, <3>1
  <2>. HIDE DEF tr
  <2>5. QED
    BY <2>1, <2>2, <2>3, <2>4, BlocksTracked DEF MarksIn
<1>3. QED
  BY <1>1, <1>2

LEMMA IgnoreKeeps ==
  ASSUME GridInv, NEW level \in BotLevel - 2 .. TopLevel + 1, SetTopIgnoreLevel(level)
  PROVE  Tracked(info') /\ MarksIn({top_ignore_level, top_private_level, base})'
<1>1. /\ BotLevel \in Int /\ TopLevel \in Int /\ BotLevel <= TopLevel /\ level \in Int
      /\ {top_ignore_level, top_private_level, base} \subseteq BotLevel - 1 .. TopLevel
  BY GridAssumption DEF GridInv, MarksIn
<1>2. /\ UNCHANGED <<info, top_private_level, base>>
      /\ top_ignore_level' = IF level > TopLevel THEN top_ignore_level ELSE Max({level, BotLevel - 1})
  BY DEF SetTopIgnoreLevel
<1>3. Max({level, BotLevel - 1}) = IF level >= BotLevel - 1 THEN level ELSE BotLevel - 1
  BY <1>1, MaxOfTwo
<1>4. top_ignore_level' \in BotLevel - 1 .. TopLevel
  BY <1>1, <1>2, <1>3
<1>5. QED
  BY <1>1, <1>2, <1>4 DEF GridInv, MarksIn

LEMMA OffsetKeeps ==
  ASSUME GridInv, NEW level, NEW offset \in Offsets, SetTrackOffset(level, offset)
  PROVE  Tracked(info') /\ MarksIn({top_ignore_level, top_private_level, base})'
<1>1. UNCHANGED <<top_ignore_level, top_private_level, base>>
  BY DEF SetTrackOffset
<1>2. CASE level \notin Levels
  BY <1>1, <1>2 DEF SetTrackOffset, GridInv
<1>3. CASE level \in Levels
  <2> DEFINE new == [info[level] EXCEPT !.offset = offset]
  <2>1. PICK S : info \in [Levels -> TrackOf(S)]
    BY DEF GridInv, Tracked
  <2>2. /\ new \in TrackOf(S) /\ new.w = info[level].w /\ new.sp = info[level].sp
    <3>1. info[level] \in TrackOf(S) /\ offset \in Int
      BY <1>3, <2>1, GridAssumption
    <3>2. QED
      BY <3>1, FieldSet, SizeKept, Zenon
  <2>3. info' = [info EXCEPT ![level] = new]
    BY <1>3 DEF SetTrackOffset
  <2>. HIDE DEF new
  <2>4. info' \in [Levels -> TrackOf(S)]
    BY <1>3, <2>1, <2>2, <2>3
  <2>5. \A l \in Levels : info'[l].w = info[l].w /\ info'[l].sp = info[l].sp
    BY <2>1, <2>2, <2>3
  <2>6. QED
    BY <1>1, <2>4, <2>5 DEF GridInv, Tracked
<1>4. QED
  BY <1>2, <1>3

\* Halving and dividing as C++ does, and half tracks, give whole numbers.
LEMMA WholeNumbers ==
  ASSUME NEW S, NEW t \in TrackOf(S), NEW coord \in Int
  PROVE  CoordToHtr(t, coord, "NONE", FALSE) \in Int
<1>1. HalfPitch(t) \in Nat \ {0}
  <2>1. t.w \in Nat \ {0} /\ t.sp \in Nat \ {0}
    BY DEF TrackOf
  <2>2. QED
    BY <2>1 DEF HalfPitch, Pitch
<1>2. coord - t.offset \in Int
  BY DEF TrackOf
<1>3. \A a \in Int : Quot(a, HalfPitch(t)) \in Int
  BY <1>1 DEF Quot
<1>4. QED
  BY <1>2, <1>3 DEF CoordToHtr

LEMMA SignsOf == \A o \in Orientation, i \in 1 .. 2 : Sign(o)[i] \in {-1, 1}
BY DEF Orientation, Sign

ParityList == Seq(Int \X {-1, 1} \X Int)

\* The parities a grid gives are parities a grid takes.
LEMMA ParitiesTyped ==
  ASSUME GridInv
  PROVE  FlipParities \cup BadParities \subseteq ParityList
<1>1. BadParities \subseteq ParityList
  BY GridAssumption DEF ParityList
<1>2. PICK S : info \in [Levels -> TrackOf(S)]
  BY DEF GridInv, Tracked
<1>3. ASSUME NEW x \in Xforms PROVE FlipParity(x) \in ParityList
  <2> DEFINE n == TopLevel - BotLevel + 1
             entry(l) == <<l, info[l].par_scale * Sign(x.orient)[info[l].dir],
                           info[l].par_scale * CoordToHtr(info[l], x.loc[info[l].dir], "NONE", FALSE)
                             + info[l].par_offset>>
  <2>1. x.orient \in Orientation /\ \A i \in 1 .. 2 : x.loc[i] \in Int
    BY GridAssumption DEF Xform, Point
  <2>2. ASSUME NEW l \in Levels PROVE entry(l) \in Int \X {-1, 1} \X Int
    <3>0. l \in Int
      BY GridAssumption DEF Levels
    <3>1. /\ info[l] \in TrackOf(S) /\ info[l].dir \in 1 .. 2 /\ info[l].par_scale \in {-1, 1}
          /\ info[l].par_offset \in Int
      BY <1>2 DEF TrackOf, Directions
    <3>2. Sign(x.orient)[info[l].dir] \in {-1, 1}
      BY <2>1, <3>1, SignsOf
    <3>3. CoordToHtr(info[l], x.loc[info[l].dir], "NONE", FALSE) \in Int
      BY <2>1, <3>1, WholeNumbers
    <3>4. \A a, b \in {-1, 1}, c, d \in Int : a * b \in {-1, 1} /\ a * c + d \in Int
      OBVIOUS
    <3>5. QED
      BY <3>0, <3>1, <3>2, <3>3, <3>4
  <2>. HIDE DEF entry
  <2>3. \A i \in 1 .. n : BotLevel + i - 1 \in Levels
    BY GridAssumption DEF Levels
  <2>4. n \in Nat
    BY GridAssumption
  <2>5. FlipParity(x) = [i \in 1 .. n |-> entry(BotLevel + i - 1)]
    BY DEF FlipParity, entry
  <2>. HIDE DEF n
  <2>6. FlipParity(x) \in [1 .. n -> Int \X {-1, 1} \X Int]
    BY <2>2, <2>3, <2>5
  <2>7. QED
    BY <2>4, <2>6 DEF ParityList
<1>4. FlipParities \subseteq ParityList
  BY <1>3 DEF FlipParities
<1>5. QED
  BY <1>1, <1>4

\* A part of an interval is a finite set of numbers.
LEMMA IntervalPart ==
  ASSUME NEW m \in Int, NEW n \in Int, NEW S, S \subseteq m .. n
  PROVE  S \subseteq Int /\ IsFiniteSet(S)
<1>1. IsFiniteSet(m .. n)
  BY FS_Interval
<1>2. IsFiniteSet(S)
  BY <1>1, FS_Subset
<1>3. QED
  BY <1>2

\* The least and the greatest of finitely many numbers: of the sets without one, the
\* smallest would have none when an element is taken out either.
LEMMA Extremes ==
  ASSUME NEW S, S \subseteq Int, S # {}, IsFiniteSet(S)
  PROVE  /\ Max(S) \in S /\ \A y \in S : y <= Max(S)
         /\ Min(S) \in S /\ \A y \in S : Min(S) <= y
<1> DEFINE Has(T) == /\ \E x \in T : \A y \in T : x >= y
                     /\ \E x \in T : \A y \in T : x <= y
           Bad  == {T \in SUBSET S : T # {} /\ IsFiniteSet(T) /\ ~Has(T)}
           Size == {Cardinality(T) : T \in Bad}
<1>1. SUFFICES ASSUME Bad # {} PROVE FALSE
  <2>1. Has(S)
    BY <1>1
  <2>2. Max(S) \in S /\ \A y \in S : Max(S) >= y
    BY <2>1 DEF Max
  <2>3. Min(S) \in S /\ \A y \in S : Min(S) <= y
    BY <2>1 DEF Min
  <2>4. \A a, b \in Int : a >= b <=> b <= a
    OBVIOUS
  <2>5. QED
    BY <2>2, <2>3, <2>4
<1>2. Size \subseteq Nat /\ Size # {}
  BY <1>1, FS_CardinalityType
<1>3. PICK n \in Size : \A m \in Size : n <= m
  BY <1>2, LeastElement
<1>4. PICK T \in Bad : Cardinality(T) = n
  OBVIOUS
<1>5. PICK x \in T : TRUE
  OBVIOUS
<1> DEFINE U == T \ {x}
<1>6. n \in Nat /\ IsFiniteSet(U) /\ Cardinality(U) = n - 1
  BY <1>2, <1>4, <1>5, FS_RemoveElement
<1>7. ASSUME U \in Bad PROVE FALSE
  <2>1. Cardinality(U) \in Size
    BY <1>7
  <2>2. n <= Cardinality(U)
    BY <1>3, <2>1
  <2>. HIDE DEF U
  <2>3. QED
    BY <1>6, <2>2
<1>8. CASE U = {}
  <2>1. T = {x} /\ x \in Int
    BY <1>5, <1>8
  <2>2. Has(T)
    BY <2>1
  <2>3. QED
    BY <1>4, <2>2
<1>9. CASE U # {}
  <2>1. Has(U)
    BY <1>4, <1>6, <1>7, <1>9
  <2>2. PICK u \in U : \A y \in U : u >= y
    BY <2>1
  <2>3. PICK v \in U : \A y \in U : v <= y
    BY <2>1
  <2>4. /\ T = U \cup {x} /\ x \in Int /\ u \in Int /\ v \in Int /\ U \subseteq Int
    BY <1>4, <1>5
  <2>. HIDE DEF U
  <2>5. \E z \in T : \A y \in T : z >= y
    <3>1. CASE x >= u
      <4>1. \A y \in U : x >= y
        BY <2>2, <2>4, <3>1
      <4>2. QED
        BY <2>4, <4>1
    <3>2. CASE ~(x >= u)
      BY <2>2, <2>4, <3>2
    <3>3. QED
      BY <3>1, <3>2
  <2>6. \E z \in T : \A y \in T : z <= y
    <3>1. CASE x <= v
      <4>1. \A y \in U : x <= y
        BY <2>3, <2>4, <3>1
      <4>2. QED
        BY <2>4, <4>1
    <3>2. CASE ~(x <= v)
      BY <2>3, <2>4, <3>2
    <3>3. QED
      BY <3>1, <3>2
  <2>7. QED
    BY <1>4, <2>5, <2>6
<1>10. QED
  BY <1>8, <1>9

LEMMA FlipKeeps ==
  ASSUME GridInv, NEW parity \in FlipParities \cup BadParities, SetFlipParity(parity)
  PROVE  Tracked(info') /\ MarksIn({top_ignore_level, top_private_level, base})'
<1> DEFINE stops == {Len(parity) + 1} \cup {i \in DOMAIN parity : parity[i][1] \notin Levels}
           stop == Min(stops)
           sets(l) == {i \in 1 .. stop - 1 : parity[i][1] = l}
           last(l) == parity[Max(sets(l))]
           new(l) == [info[l] EXCEPT !.par_scale = last(l)[2], !.par_offset = last(l)[3]]
<1>1. parity \in ParityList /\ Len(parity) \in Nat /\ DOMAIN parity = 1 .. Len(parity)
  BY ParitiesTyped DEF ParityList
<1>2. stop \in Int /\ stop <= Len(parity) + 1
  <2>1. stops \subseteq 1 .. Len(parity) + 1 /\ Len(parity) + 1 \in stops
    BY <1>1
  <2>. HIDE DEF stops
  <2>2. stops \subseteq Int /\ IsFiniteSet(stops)
    <3> DEFINE n == Len(parity) + 1
    <3>1. 1 \in Int /\ n \in Int /\ stops \subseteq 1 .. n
      BY <1>1, <2>1
    <3>. HIDE DEF n
    <3>2. QED
      BY <3>1, IntervalPart, Zenon
  <2>3. QED
    BY <2>1, <2>2, Extremes
<1>3. PICK S : info \in [Levels -> TrackOf(S)]
  BY DEF GridInv, Tracked
<1>4. ASSUME NEW l \in Levels, sets(l) # {}
      PROVE  new(l) \in TrackOf(S) /\ new(l).w = info[l].w /\ new(l).sp = info[l].sp
  <2>1. sets(l) \subseteq 1 .. Len(parity)
    <3>. HIDE DEF stop
    <3>1. QED
      BY <1>1, <1>2
  <2>2. IsFiniteSet(sets(l)) /\ sets(l) \subseteq Int
    <3>. HIDE DEF sets
    <3>1. QED
      BY <1>1, <2>1, IntervalPart
  <2>3. Max(sets(l)) \in 1 .. Len(parity)
    <3>. HIDE DEF sets
    <3>1. QED
      BY <1>4, <2>1, <2>2, Extremes
  <2>4. last(l)[2] \in {-1, 1} /\ last(l)[3] \in Int
    <3>. HIDE DEF sets
    <3>1. last(l) \in Int \X {-1, 1} \X Int
      BY <1>1, <2>3 DEF ParityList
    <3>2. QED
      BY <3>1
  <2>5. info[l] \in TrackOf(S)
    BY <1>3
  <2>. HIDE DEF last
  <2>6. [info[l] EXCEPT !.par_scale = last(l)[2]] \in TrackOf(S)
    BY <2>4, <2>5, FieldSet, Zenon
  <2>7. new(l) \in TrackOf(S)
    BY <2>4, <2>6, FieldSet, Zenon
  <2>8. new(l).w = info[l].w /\ new(l).sp = info[l].sp
    <3>1. \A u, v : /\ [info[l] EXCEPT !.par_scale = u, !.par_offset = v].w = info[l].w
                    /\ [info[l] EXCEPT !.par_scale = u, !.par_offset = v].sp = info[l].sp
      BY <2>5, SizeKept, Zenon
    <3>2. QED
      BY <3>1
  <2>9. QED
    BY <2>7, <2>8
<1>5. /\ info' = [l \in Levels |-> IF sets(l) = {} THEN info[l] ELSE new(l)]
      /\ UNCHANGED <<top_ignore_level, top_private_level, base>>
  BY DEF SetFlipParity
<1>. HIDE DEF new, sets
<1>6. info' \in [Levels -> TrackOf(S)]
  BY <1>3, <1>4, <1>5
<1>7. \A l \in Levels : info'[l].w = info[l].w /\ info'[l].sp = info[l].sp
  BY <1>4, <1>5
<1>8. QED
  BY <1>5, <1>6, <1>7 DEF GridInv, Tracked

LEMMA EditKeeps ==
  ASSUME GridInv, GridEdit, UNCHANGED cv
  PROVE  GridInv'
<1>1. Tracked(info') /\ MarksIn({top_ignore_level, top_private_level, base})'
  BY LevelKeeps, IgnoreKeeps, OffsetKeeps, FlipKeeps DEF GridEdit
<1>2. edits' = edits + 1
  BY DEF GridEdit, SetLevel, SetTopIgnoreLevel, SetTrackOffset, SetFlipParity, Edit
<1>3. QED
  BY <1>1, <1>2 DEF GridInv, cv

LEMMA GridStep ==
  ASSUME GridInv, [Next]_vars
  PROVE  GridInv'
<1>1. ASSUME UNCHANGED grid, UNCHANGED cv PROVE GridInv'
  BY <1>1 DEF GridInv, grid, cv
<1>2. CASE GridEdit /\ UNCHANGED cv
  BY <1>2, EditKeeps
<1>3. CASE (\E q \in Requests : StartSizing(q)) /\ UNCHANGED cv
  BY <1>1, <1>3 DEF StartSizing
<1>4. CASE SizingStep /\ UNCHANGED cv
  BY <1>1, <1>4 DEF SizingStep, More, Fewer, SizingThrows, Sized
<1>5. CASE DrawCall
  <2>1. Draw
    BY <1>5, DrawsFirst
  <2>2. UNCHANGED grid /\ draws' = draws + 1 /\ 2 * edits + draws < MaxCalls
    BY <2>1 DEF Draw
  <2>3. draws' \in 0 .. MaxCalls
    BY <2>2, WiresAssumption DEF GridInv
  <2>4. QED
    BY <2>2, <2>3 DEF GridInv, grid
<1>6. CASE UNCHANGED vars
  BY <1>1, <1>6 DEF vars, gridVars
<1>7. QED
  BY <1>2, <1>3, <1>4, <1>5, <1>6 DEF Next

-----------------------------------------------------------------------------
(***************************************************************************)
(* Wires.                                                                  *)
(***************************************************************************)

Edges(t, i) == WireBounds(t.level, HtrOf(t, i), t.ntr)
TidType == [level : Int, htr : Int, ntr : Nat \ {0}, num : Nat \ {0}, pitch : Int]

LEMMA ArrayParts ==
  ASSUME NEW a \in DOMAIN Arrays
  PROVE  /\ Tid(a) \in TidType /\ Tid(a).ntr = Arrays[a].ntr
         /\ Arrays[a].coord \in Interval
         /\ Copies(Tid(a)) \subseteq Nat /\ IsFiniteSet(Copies(Tid(a))) /\ 0 \in Copies(Tid(a))
         /\ \A i \in Copies(Tid(a)) : HtrOf(Tid(a), i) \in Int
<1>1. Arrays[a] \in [level : Int, htr : Int, ntr : Nat \ {0}, num : Nat \ {0}, pitch : Int,
                     coord : Interval]
  BY WiresAssumption
<1>2. Tid(a) \in TidType /\ Tid(a).ntr = Arrays[a].ntr /\ Arrays[a].coord \in Interval
  BY <1>1 DEF Tid, TidType
<1>3. Tid(a).num \in Nat \ {0} /\ Tid(a).htr \in Int /\ Tid(a).pitch \in Int
  BY <1>2 DEF TidType
<1>4. 0 \in Copies(Tid(a)) /\ Copies(Tid(a)) \subseteq 0 .. Tid(a).num - 1 /\ Copies(Tid(a)) \subseteq Nat
  BY <1>3 DEF Copies
<1>5. IsFiniteSet(Copies(Tid(a)))
  <2>1. Tid(a).num - 1 \in Int
    BY <1>3
  <2>2. IsFiniteSet(0 .. Tid(a).num - 1)
    BY <2>1, FS_Interval
  <2>3. QED
    BY <2>2 DEF Copies
<1>6. ASSUME NEW i \in Copies(Tid(a)) PROVE HtrOf(Tid(a), i) \in Int
  <2>1. i \in Int
    BY <1>4
  <2>2. i * Tid(a).pitch \in Int
    BY <1>3, <2>1
  <2>3. QED
    BY <1>3, <2>2 DEF HtrOf
<1>7. QED
  BY <1>2, <1>4, <1>5, <1>6

\* Every half track has a colour that its level has.
LEMMA LayerIsKey ==
  ASSUME GridInv, NEW l \in Levels, NEW htr \in Int
  PROVE  LayerAt(l, htr) \in Keys /\ HtrParity(l, htr) \in 0 .. NumColors[l] - 1
<1>1. PICK S : info \in [Levels -> TrackOf(S)]
  BY DEF GridInv, Tracked
<1>2. info[l].par_scale \in {-1, 1} /\ info[l].par_offset \in Int /\ NumColors[l] \in Nat \ {0}
  BY <1>1, GridAssumption DEF TrackOf
<1>3. info[l].par_scale * htr + info[l].par_offset \in Int
  BY <1>2
<1>4. \A x \in Int, n \in Nat \ {0} : (x % (2 * n)) \div 2 \in 0 .. n - 1
  <2>1. TAKE x \in Int, n \in Nat \ {0}
  <2>2. 2 * n \in Nat \ {0}
    OBVIOUS
  <2>3. x % (2 * n) \in 0 .. 2 * n - 1
    BY <2>2
  <2>4. \A y \in 0 .. 2 * n - 1 : y \div 2 \in 0 .. n - 1
    OBVIOUS
  <2>5. QED
    BY <2>3, <2>4
<1>5. HtrParity(l, htr) \in 0 .. NumColors[l] - 1
  BY <1>2, <1>3, <1>4 DEF HtrParity
<1>6. QED
  BY <1>2, <1>5 DEF LayerAt, Keys

\* The span of the wires of an array, on the tracks as they are.
LEMMA SpanOf ==
  ASSUME GridInv, NEW a \in DOMAIN Arrays, Tid(a).level \in Levels
  PROVE  WireSpan(info[Tid(a).level], Tid(a).ntr) \in Spans
<1> DEFINE t == info[Tid(a).level]
           s == <<t.w, t.sp>>
<1>1. s \in TrackSizes /\ Tid(a).ntr = Arrays[a].ntr
  BY ArrayParts DEF GridInv, Tracked
<1>2. WireSpan([w |-> s[1], sp |-> s[2]], Arrays[a].ntr) = WireSpan(t, Tid(a).ntr)
  BY <1>1 DEF WireSpan, Pitch
<1>3. QED
  BY <1>1, <1>2 DEF Spans

\* A wire of an array: its layer, and its edges across the direction of the tracks.
LEMMA WireParts ==
  ASSUME GridInv, NEW a \in DOMAIN Arrays, Tid(a).level \in Levels, NEW coord,
         NEW i \in Copies(Tid(a))
  PROVE  LET t == Tid(a)
             d == info[t.level].dir
             e == Edges(t, i)
         IN  /\ d \in 1 .. 2
             /\ Wire(t, coord, i).key = LayerAt(t.level, HtrOf(t, i))
             /\ Wire(t, coord, i).box = MakeBox(d, coord, e)
             /\ LayerAt(t.level, HtrOf(t, i)) \in Keys
             /\ e = <<e[1], e[2]>> /\ e[1] \in Int /\ e[2] \in Int /\ e[1] <= e[2]
             /\ e[2] - e[1] \in Widths /\ (e[2] - e[1]) % 2 = 0
<1> DEFINE t == Tid(a)
           l == t.level
           n == WireSpan(info[l], t.ntr)
           c == HtrToCoord(info[l], HtrOf(t, i))
<1>1. PICK S : info \in [Levels -> TrackOf(S)]
  BY DEF GridInv, Tracked
<1>2. /\ info[l].dir \in 1 .. 2 /\ info[l].w \in Nat \ {0} /\ info[l].sp \in Nat \ {0}
      /\ info[l].offset \in Int /\ t.ntr \in Nat \ {0} /\ HtrOf(t, i) \in Int
      /\ <<info[l].w, info[l].sp>> \in TrackSizes /\ t.ntr = Arrays[a].ntr
  BY <1>1, ArrayParts DEF TrackOf, Directions, TidType, GridInv, Tracked
<1>3. Pitch(info[l]) \in Nat /\ HalfPitch(info[l]) \in Nat
  BY <1>2 DEF Pitch, HalfPitch
<1>4. n \in Nat
  <2>1. (t.ntr - 1) * Pitch(info[l]) \in Nat
    BY <1>2, <1>3
  <2>2. QED
    BY <1>2, <2>1 DEF WireSpan
<1>5. c \in Int
  <2>1. HalfPitch(info[l]) * HtrOf(t, i) \in Int
    BY <1>2, <1>3
  <2>2. QED
    BY <1>2, <2>1 DEF HtrToCoord
<1>6. n \in Spans
  BY SpanOf
<1>7. 2 * (n \div 2) \in Widths
  BY <1>6 DEF Widths
<1>8. Edges(t, i) = <<c - n \div 2, c + n \div 2>>
  BY DEF Edges, WireBounds
<1>9. /\ Wire(t, coord, i).key = LayerAt(l, HtrOf(t, i))
      /\ Wire(t, coord, i).box = MakeBox(info[l].dir, coord, Edges(t, i))
  BY DEF Wire, Edges
<1>10. LayerAt(l, HtrOf(t, i)) \in Keys
  BY <1>2, LayerIsKey
<1>. HIDE DEF n, c
<1>11. /\ Edges(t, i)[2] - Edges(t, i)[1] = 2 * (n \div 2) /\ n \div 2 \in Nat
       /\ Edges(t, i)[1] \in Int /\ Edges(t, i)[2] \in Int
  BY <1>4, <1>5, <1>8
<1>12. QED
  BY <1>2, <1>7, <1>8, <1>9, <1>10, <1>11

-----------------------------------------------------------------------------
(***************************************************************************)
(* Vias and the wires they are drawn with.                                 *)
(***************************************************************************)

Within(a, b) == b[1] <= a[1] /\ a[2] <= b[2]

\* A metal centred in an interval, with its extensions added at both ends.
LEMMA AlongFits ==
  ASSUME NEW a \in Int, NEW b \in Int, a <= b, (b - a) % 2 = 0, NEW m \in Nat
  PROVE  LET c == (a + b) \div 2
             ext == Half(m - (b - a))
         IN  /\ Within(<<c - m \div 2, c + m \div 2>>, <<a - ext, b + ext>>)
             /\ c \in Int /\ ext \in Int
<1>1. PICK h \in Nat : b = a + 2 * h
  <2>1. (b - a) \div 2 \in Nat /\ b = a + 2 * ((b - a) \div 2)
    OBVIOUS
  <2>2. QED
    BY <2>1
<1>2. (a + b) \div 2 = a + h
  BY <1>1
<1>3. Half(m - 2 * h) \in Int /\ m \div 2 - h <= Half(m - 2 * h)
  BY <1>1 DEF Half
<1>4. b - a = 2 * h /\ m \div 2 \in Nat
  BY <1>1
<1>. HIDE DEF Half
<1>5. QED
  BY <1>1, <1>2, <1>3, <1>4 DEF Within

\* A metal no wider than an interval, centred in it.
LEMMA AcrossFits ==
  ASSUME NEW a \in Int, NEW b \in Int, NEW m \in Nat, m <= b - a
  PROVE  LET c == (a + b) \div 2
         IN  /\ Within(<<c - m \div 2, c + m \div 2>>, <<a, b>>)
             /\ c \in Int
BY DEF Within

\* Where the intersection is as long as an interval, it is that interval.
LEMMA WholeOverlap ==
  ASSUME NEW a \in Interval, NEW b \in Interval, b[1] <= b[2],
         Min({a[2], b[2]}) - Max({a[1], b[1]}) = b[2] - b[1]
  PROVE  <<Max({a[1], b[1]}), Min({a[2], b[2]})>> = b
<1>1. a[1] \in Int /\ a[2] \in Int /\ b[1] \in Int /\ b[2] \in Int /\ b = <<b[1], b[2]>>
  BY DEF Interval
<1>2. /\ Max({a[1], b[1]}) \in Int /\ b[1] <= Max({a[1], b[1]})
      /\ Min({a[2], b[2]}) \in Int /\ Min({a[2], b[2]}) <= b[2]
  BY <1>1, LargerOfTwo
<1>3. Max({a[1], b[1]}) = b[1] /\ Min({a[2], b[2]}) = b[2]
  BY <1>1, <1>2
<1>4. QED
  BY <1>1, <1>3

\* Two arrays that may cross, the first on the lower level.
Crossing(a, b) ==
  /\ a \in DOMAIN Arrays /\ b \in DOMAIN Arrays
  /\ Tid(a).level \in Levels /\ Tid(b).level \in Levels
  /\ info[Tid(a).level].dir # info[Tid(b).level].dir

\* Wires that cross in full overlap in the width of both.
LEMMA CrossingBox ==
  ASSUME GridInv, NEW a, NEW b, Crossing(a, b), NEW lc \in Interval, NEW uc \in Interval,
         NEW p \in Pairs(Tid(a), Tid(b)), Filled(Tid(a), lc, Tid(b), uc, p)
  PROVE  /\ Overlap(Tid(a), lc, Tid(b), uc, p) =
              MakeBox(info[Tid(a).level].dir, Edges(Tid(b), p[2]), Edges(Tid(a), p[1]))
         /\ Dim(Overlap(Tid(a), lc, Tid(b), uc, p)) \in [1 .. 2 -> Widths]
<1> DEFINE lo == Tid(a)
           up == Tid(b)
           d0 == info[lo.level].dir
           d1 == info[up.level].dir
           e0 == Edges(lo, p[1])
           e1 == Edges(up, p[2])
           o  == Overlap(lo, lc, up, uc, p)
<1>1. p[1] \in Copies(lo) /\ p[2] \in Copies(up)
  BY DEF Pairs
<1>2. /\ d0 \in 1 .. 2 /\ e0 \in Interval /\ e0[1] <= e0[2] /\ e0[2] - e0[1] \in Widths
      /\ Wire(lo, lc, p[1]).box = MakeBox(d0, lc, e0)
  BY <1>1, WireParts DEF Crossing, Interval
<1>3. /\ d1 \in 1 .. 2 /\ e1 \in Interval /\ e1[1] <= e1[2] /\ e1[2] - e1[1] \in Widths
      /\ Wire(up, uc, p[2]).box = MakeBox(d1, uc, e1)
  <2>1. b \in DOMAIN Arrays /\ Tid(b).level \in Levels
    BY DEF Crossing
  <2>2. /\ d1 \in 1 .. 2 /\ Wire(up, uc, p[2]).box = MakeBox(d1, uc, e1)
        /\ e1 = <<e1[1], e1[2]>> /\ e1[1] \in Int /\ e1[2] \in Int /\ e1[1] <= e1[2]
        /\ e1[2] - e1[1] \in Widths
    BY <1>1, <2>1, WireParts
  <2>3. QED
    BY <2>2 DEF Interval
<1>4. d0 # d1 /\ d1 = 3 - d0
  BY <1>2, <1>3 DEF Crossing
<1>. HIDE DEF e0, e1, d0, d1
<1>5. o = Intersect(MakeBox(d0, lc, e0), MakeBox(d1, uc, e1))
  BY <1>2, <1>3 DEF Overlap
<1> DEFINE from0 == Max({lc[1], e1[1]})
           to0 == Min({lc[2], e1[2]})
           from1 == Max({uc[1], e0[1]})
           to1 == Min({uc[2], e0[2]})
<1>6. /\ o[d0] = <<from0, to0>> /\ o[d1] = <<from1, to1>>
      /\ DOMAIN o = 1 .. 2
  <2>1. {e0[1], uc[1]} = {uc[1], e0[1]} /\ {e0[2], uc[2]} = {uc[2], e0[2]}
    OBVIOUS
  <2>2. /\ o[d0] = <<from0, to0>> /\ o[d1] = <<Max({e0[1], uc[1]}), Min({e0[2], uc[2]})>>
        /\ DOMAIN o = 1 .. 2
    BY <1>2, <1>3, <1>4, <1>5 DEF Intersect, MakeBox
  <2>3. QED
    BY <2>1, <2>2
<1>10. /\ from0 \in Int /\ to0 \in Int /\ from1 \in Int /\ to1 \in Int
       /\ e0[1] \in Int /\ e0[2] \in Int /\ e1[1] \in Int /\ e1[2] \in Int
  <2>1. \A x \in Interval : x[1] \in Int /\ x[2] \in Int
    BY DEF Interval
  <2>2. \A x, y \in Int : Max({x, y}) \in Int /\ Min({x, y}) \in Int
    <3>1. TAKE x \in Int, y \in Int
    <3>2. QED
      BY MaxOfTwo
  <2>3. QED
    BY <1>2, <1>3, <2>1, <2>2
<1>7. /\ Dim(o)[d0] = Dim(MakeBox(d1, uc, e1))[d0]
      /\ Dim(o)[d1] = Dim(MakeBox(d0, lc, e0))[d1]
  BY <1>2, <1>3 DEF Filled, d0, d1
<1>8. /\ Dim(o)[d0] = o[d0][2] - o[d0][1] /\ Dim(o)[d1] = o[d1][2] - o[d1][1]
      /\ Dim(MakeBox(d1, uc, e1))[d0] = e1[2] - e1[1]
      /\ Dim(MakeBox(d0, lc, e0))[d1] = e0[2] - e0[1]
  BY <1>2, <1>3, <1>4 DEF Dim, MakeBox
<1>9. o[d0] = e1
  <2>1. to0 - from0 = e1[2] - e1[1]
    <3>. HIDE DEF o, from0, to0
    <3>1. o[d0][1] = from0 /\ o[d0][2] = to0
      BY <1>6
    <3>2. Dim(o)[d0] = to0 - from0
      BY <1>8, <3>1
    <3>3. Dim(o)[d0] = e1[2] - e1[1]
      BY <1>7, <1>8
    <3>4. QED
      BY <3>2, <3>3
  <2>2. QED
    BY <1>3, <1>6, <2>1, WholeOverlap
<1>11. o[d1] = e0
  <2>1. to1 - from1 = e0[2] - e0[1]
    <3>. HIDE DEF o, from1, to1
    <3>1. o[d1][1] = from1 /\ o[d1][2] = to1
      BY <1>6
    <3>2. Dim(o)[d1] = to1 - from1
      BY <1>8, <3>1
    <3>3. Dim(o)[d1] = e0[2] - e0[1]
      BY <1>7, <1>8
    <3>4. QED
      BY <3>2, <3>3
  <2>2. QED
    BY <1>2, <1>6, <2>1, WholeOverlap
<1>12. o = MakeBox(d0, e1, e0)
  <2>1. o = [i \in 1 .. 2 |-> o[i]]
    BY <1>5 DEF Intersect
  <2>2. \A i \in 1 .. 2 : o[i] = IF i = d0 THEN e1 ELSE e0
    BY <1>2, <1>3, <1>4, <1>9, <1>11
  <2>3. QED
    BY <2>1, <2>2 DEF MakeBox
<1>13. Dim(o) \in [1 .. 2 -> Widths]
  BY <1>2, <1>3, <1>4, <1>8, <1>9, <1>11 DEF Dim
<1>14. QED
  BY <1>12, <1>13 DEF d0, e0, e1

\* The extent of a metal centred in a box.
LEMMA CentredMetal ==
  ASSUME NEW o \in Box, NEW i \in 1 .. 2, o[i][1] <= o[i][2], NEW m \in [1 .. 2 -> Nat]
  PROVE  LET ext == Half(m[i] - Dim(o)[i])
             at == Around(Center(o), m)[i]
         IN  /\ Dim(o)[i] % 2 = 0 => Within(at, <<o[i][1] - ext, o[i][2] + ext>>)
             /\ m[i] <= Dim(o)[i] => Within(at, o[i])
             /\ at \in Interval /\ ext \in Int
<1>1. o[i][1] \in Int /\ o[i][2] \in Int /\ m[i] \in Nat /\ o[i] = <<o[i][1], o[i][2]>>
  BY DEF Box, Interval
<1> DEFINE c == (o[i][1] + o[i][2]) \div 2
<1>2. /\ Dim(o)[i] = o[i][2] - o[i][1]
      /\ Around(Center(o), m)[i] = <<c - m[i] \div 2, c + m[i] \div 2>>
  BY DEF Dim, Around, Center
<1>3. c \in Int /\ m[i] \div 2 \in Int
  BY <1>1
<1>4. Dim(o)[i] % 2 = 0 =>
        Within(<<c - m[i] \div 2, c + m[i] \div 2>>,
               <<o[i][1] - Half(m[i] - Dim(o)[i]), o[i][2] + Half(m[i] - Dim(o)[i])>>)
  BY <1>1, <1>2, AlongFits
<1>5. m[i] <= Dim(o)[i] => Within(<<c - m[i] \div 2, c + m[i] \div 2>>, <<o[i][1], o[i][2]>>)
  BY <1>1, <1>2, AcrossFits
<1>6. Half(m[i] - Dim(o)[i]) \in Int
  BY <1>1, <1>2 DEF Half
<1>. HIDE DEF c
<1>7. <<c - m[i] \div 2, c + m[i] \div 2>> \in Interval
  BY <1>3 DEF Interval
<1>8. QED
  BY <1>1, <1>2, <1>4, <1>5, <1>6, <1>7

\* Each metal of a via on a crossing is within the edges of its wire, and within the part
\* of the wire that is reported as taken.
LEMMA CrossingVia ==
  ASSUME GridInv, NEW a, NEW b, Crossing(a, b), NEW lc \in Interval, NEW uc \in Interval,
         NEW p \in Pairs(Tid(a), Tid(b)), Filled(Tid(a), lc, Tid(b), uc, p),
         IdAt(Tid(a), lc, Tid(b), uc, p) \in ViaIds, NEW extend \in BOOLEAN, NEW sound
  PROVE  LET lo == Tid(a)
             up == Tid(b)
             d0 == info[lo.level].dir
             d1 == info[up.level].dir
             v == Via(IdAt(lo, lc, up, uc, p), MetalAt(lo, lc, up, uc, p, extend),
                      Center(Overlap(lo, lc, up, uc, p)), sound)
             g == Grown(lo, lc, up, uc, p, extend)
         IN  /\ Within(v.metals[1][d0], g[1]) /\ Within(v.metals[1][d1], Edges(lo, p[1]))
             /\ Within(v.metals[2][d1], g[2]) /\ Within(v.metals[2][d0], Edges(up, p[2]))
             /\ \A l, i \in 1 .. 2 : v.metals[l][i] \in Interval
             /\ g[1] \in Interval /\ g[2] \in Interval
<1> DEFINE lo == Tid(a)
           up == Tid(b)
           d0 == info[lo.level].dir
           d1 == info[up.level].dir
           e0 == Edges(lo, p[1])
           e1 == Edges(up, p[2])
           o  == Overlap(lo, lc, up, uc, p)
           m  == MetalAt(lo, lc, up, uc, p, extend)
           id == IdAt(lo, lc, up, uc, p)
           g  == Grown(lo, lc, up, uc, p, extend)
           v  == Via(id, m, Center(o), sound)
<1>1. p[1] \in Copies(lo) /\ p[2] \in Copies(up) /\ a \in DOMAIN Arrays /\ b \in DOMAIN Arrays
      /\ lo.level \in Levels /\ up.level \in Levels
  BY DEF Pairs, Crossing
<1>2. /\ d0 \in 1 .. 2 /\ e0 = <<e0[1], e0[2]>> /\ e0[1] \in Int /\ e0[2] \in Int /\ e0[1] <= e0[2]
      /\ (e0[2] - e0[1]) % 2 = 0
  BY <1>1, WireParts
<1>3. /\ d1 \in 1 .. 2 /\ e1 = <<e1[1], e1[2]>> /\ e1[1] \in Int /\ e1[2] \in Int /\ e1[1] <= e1[2]
      /\ (e1[2] - e1[1]) % 2 = 0
  BY <1>1, WireParts
<1>4. d0 # d1 /\ d1 = 3 - d0 /\ d0 = 3 - d1
  BY <1>2, <1>3 DEF Crossing
<1>5. o = MakeBox(d0, e1, e0) /\ Dim(o) \in [1 .. 2 -> Widths]
  BY CrossingBox
<1>6. MetalsFit(id, Dim(o), d0, extend)
  BY <1>2, <1>5, TechAssumption DEF Directions
<1>7. m = ViaMetal(id, Dim(o), d0, extend)
  BY DEF MetalAt
<1>8. /\ m \in [1 .. 2 -> [1 .. 2 -> Nat]] /\ m[1][d1] <= Dim(o)[d1] /\ m[2][d0] <= Dim(o)[d0]
  BY <1>4, <1>6, <1>7 DEF MetalsFit, Perpendicular
<1>9. g = << <<o[d0][1] - Half(m[1][d0] - Dim(o)[d0]), o[d0][2] + Half(m[1][d0] - Dim(o)[d0])>>,
             <<o[d1][1] - Half(m[2][d1] - Dim(o)[d1]), o[d1][2] + Half(m[2][d1] - Dim(o)[d1])>> >>
  BY DEF Grown, ViaExt
<1>10. v.metals[1] = Around(Center(o), m[1]) /\ v.metals[2] = Around(Center(o), m[2])
  BY DEF Via
<1>. HIDE DEF e0, e1, d0, d1, m, g, v, o, id
<1>11. o \in Box /\ o[d0] = e1 /\ o[d1] = e0
  BY <1>2, <1>3, <1>4, <1>5 DEF MakeBox, Box, Interval
<1>12. Dim(o)[d0] % 2 = 0 /\ Dim(o)[d1] % 2 = 0
  BY <1>2, <1>3, <1>11 DEF Dim
<1>13. m[1] \in [1 .. 2 -> Nat] /\ m[2] \in [1 .. 2 -> Nat]
  BY <1>8
<1>14. /\ Within(Around(Center(o), m[1])[d0], g[1]) /\ Within(Around(Center(o), m[2])[d0], e1)
       /\ Around(Center(o), m[1])[d0] \in Interval /\ Around(Center(o), m[2])[d0] \in Interval
       /\ Half(m[1][d0] - Dim(o)[d0]) \in Int
  BY <1>2, <1>3, <1>8, <1>9, <1>11, <1>12, <1>13, CentredMetal
<1>15. /\ Within(Around(Center(o), m[2])[d1], g[2]) /\ Within(Around(Center(o), m[1])[d1], e0)
       /\ Around(Center(o), m[1])[d1] \in Interval /\ Around(Center(o), m[2])[d1] \in Interval
       /\ Half(m[2][d1] - Dim(o)[d1]) \in Int
  BY <1>2, <1>3, <1>8, <1>9, <1>11, <1>12, <1>13, CentredMetal
<1>16. \A l, i \in 1 .. 2 : v.metals[l][i] \in Interval
  BY <1>2, <1>3, <1>4, <1>10, <1>14, <1>15
<1>17. g[1] \in Interval /\ g[2] \in Interval
  BY <1>2, <1>3, <1>9, <1>11, <1>14, <1>15 DEF Interval
<1>18. QED
  BY <1>10, <1>14, <1>15, <1>16, <1>17 DEF e0, e1, d0, d1, g, v, m, o, id

-----------------------------------------------------------------------------
(***************************************************************************)
(* What has been drawn: it is on layers of the grid, and no wire is taken  *)
(* back, so a via that is covered stays covered.                           *)
(***************************************************************************)

OnKeys(shapes) == \A x \in shapes : x.key \in Keys
ViasTyped(vs) == \A v \in vs : v.sound \in BOOLEAN /\ \A l \in 1 .. 2 : v.id[l] \in Keys

Covers(v, rs) == \A l \in 1 .. 2 : \E r \in rs : r.key = v.id[l] /\ Inside(v.metals[l], r.box)
AllCovered(vs, rs) == \A v \in vs : v.sound => Covers(v, rs)

DrawnInv == OnKeys(rects) /\ OnKeys(pins) /\ ViasTyped(vias) /\ AllCovered(vias, rects)

LEMMA CoverGrows ==
  ASSUME NEW vs, NEW ws, NEW rs, NEW new, AllCovered(vs, rs), AllCovered(ws, rs \cup new)
  PROVE  AllCovered(vs \cup ws, rs \cup new)
BY DEF AllCovered, Covers

\* A box within the two intervals of another.
LEMMA InMadeBox ==
  ASSUME NEW d \in 1 .. 2, NEW e \in 1 .. 2, d # e, NEW along, NEW across, NEW m,
         Within(m[d], along), Within(m[e], across)
  PROVE  Inside(m, MakeBox(d, along, across))
<1>1. \A i \in 1 .. 2 : i = d \/ i = e
  OBVIOUS
<1>2. MakeBox(d, along, across)[d] = along /\ MakeBox(d, along, across)[e] = across
  BY DEF MakeBox
<1>. HIDE DEF MakeBox
<1>3. QED
  BY <1>1, <1>2 DEF Inside, Within

LEMMA WithinTrans ==
  ASSUME NEW a \in Interval, NEW b \in Interval, NEW c \in Interval, Within(a, b), Within(b, c)
  PROVE  Within(a, c)
<1>1. /\ a[1] \in Int /\ a[2] \in Int /\ b[1] \in Int /\ b[2] \in Int /\ c[1] \in Int /\ c[2] \in Int
  BY DEF Interval
<1>2. QED
  BY <1>1 DEF Within

\* The shape of a wire of an array.
LEMMA WireDrawn ==
  ASSUME GridInv, NEW a \in DOMAIN Arrays, Tid(a).level \in Levels, NEW coord
  PROVE  /\ OnKeys(Wires(Tid(a), coord))
         /\ \A i \in Copies(Tid(a)) : \E r \in Wires(Tid(a), coord) :
              /\ r.key = LayerAt(Tid(a).level, HtrOf(Tid(a), i))
              /\ r.box = MakeBox(info[Tid(a).level].dir, coord, Edges(Tid(a), i))
<1> DEFINE t == Tid(a)
           shape(i) == Shape(Wire(t, coord, i).key, Wire(t, coord, i).box)
<1>1. ASSUME NEW i \in Copies(t)
      PROVE  /\ shape(i) \in Wires(t, coord)
             /\ shape(i).key = LayerAt(t.level, HtrOf(t, i)) /\ shape(i).key \in Keys
             /\ shape(i).box = MakeBox(info[t.level].dir, coord, Edges(t, i))
  <2>1. /\ Wire(t, coord, i).key = LayerAt(t.level, HtrOf(t, i))
        /\ Wire(t, coord, i).box = MakeBox(info[t.level].dir, coord, Edges(t, i))
        /\ LayerAt(t.level, HtrOf(t, i)) \in Keys
    BY WireParts
  <2>2. shape(i).key = Wire(t, coord, i).key /\ shape(i).box = Wire(t, coord, i).box
    BY DEF Shape
  <2>3. shape(i) \in Wires(t, coord)
    BY DEF Wires
  <2>. HIDE DEF shape
  <2>4. QED
    BY <2>1, <2>2, <2>3
<1>2. OnKeys(Wires(t, coord))
  BY <1>1 DEF OnKeys, Wires
<1>. HIDE DEF shape
<1>3. QED
  BY <1>1, <1>2

\* Vias on the crossings of two arrays, with wires that reach over the part each takes.
LEMMA CrossingsCovered ==
  ASSUME GridInv, NEW a, NEW b, Crossing(a, b), NEW lc \in Interval, NEW uc \in Interval,
         NEW extend \in BOOLEAN, NEW contain, NEW sound \in BOOLEAN,
         NEW lw \in Interval, NEW uw \in Interval, NEW rs,
         sound => Wires(Tid(a), lw) \cup Wires(Tid(b), uw) \subseteq rs,
         sound => \A p \in Drawn(Tid(a), lc, Tid(b), uc, extend, contain) :
                    /\ Within(Grown(Tid(a), lc, Tid(b), uc, p, extend)[1], lw)
                    /\ Within(Grown(Tid(a), lc, Tid(b), uc, p, extend)[2], uw)
  PROVE  LET new == DrawnVias(Tid(a), lc, Tid(b), uc, extend, contain, sound)
         IN  ViasTyped(new) /\ AllCovered(new, rs)
<1> DEFINE lo == Tid(a)
           up == Tid(b)
           d0 == info[lo.level].dir
           d1 == info[up.level].dir
           id(p) == IdAt(lo, lc, up, uc, p)
           via(p) == Via(id(p), MetalAt(lo, lc, up, uc, p, extend),
                         Center(Overlap(lo, lc, up, uc, p)), sound)
           g(p) == Grown(lo, lc, up, uc, p, extend)
           drawn == Drawn(lo, lc, up, uc, extend, contain)
<1>1. /\ a \in DOMAIN Arrays /\ b \in DOMAIN Arrays /\ lo.level \in Levels /\ up.level \in Levels
      /\ d0 # d1
  BY DEF Crossing
<1>2. ASSUME NEW p \in drawn
      PROVE  /\ p \in Pairs(lo, up) /\ p[1] \in Copies(lo) /\ p[2] \in Copies(up)
             /\ Filled(lo, lc, up, uc, p) /\ id(p) \in ViaIds
  <2>1. p \in Pairs(lo, up) /\ p \in Reached(lo, lc, up, uc) /\ Filled(lo, lc, up, uc, p)
    BY DEF Drawn, Reached
  <2>2. p[1] \in Copies(lo) /\ p[2] \in Copies(up)
    BY <2>1 DEF Pairs
  <2>3. p[1] = p[1] /\ p[2] <= p[2]
    BY <1>1, <2>2, ArrayParts
  <2>4. id(p) \in ViaIds
    BY <2>1, <2>3 DEF Reached
  <2>5. QED
    BY <2>1, <2>2, <2>4
<1>3. ASSUME NEW p \in drawn
      PROVE  /\ id(p) = <<LayerAt(lo.level, HtrOf(lo, p[1])), LayerAt(up.level, HtrOf(up, p[2]))>>
             /\ id(p)[1] \in Keys /\ id(p)[2] \in Keys
  <2>1. p[1] \in Copies(lo) /\ p[2] \in Copies(up)
    BY <1>2
  <2>2. /\ Wire(lo, lc, p[1]).key = LayerAt(lo.level, HtrOf(lo, p[1]))
        /\ LayerAt(lo.level, HtrOf(lo, p[1])) \in Keys /\ d0 \in 1 .. 2
    BY <1>1, <2>1, WireParts
  <2>3. /\ Wire(up, uc, p[2]).key = LayerAt(up.level, HtrOf(up, p[2]))
        /\ LayerAt(up.level, HtrOf(up, p[2])) \in Keys /\ d1 \in 1 .. 2
    BY <1>1, <2>1, WireParts
  <2>4. QED
    BY <2>2, <2>3 DEF IdAt
<1>4. \A p \in drawn : via(p).id = id(p) /\ via(p).sound = sound
  BY DEF Via
<1>5. DrawnVias(lo, lc, up, uc, extend, contain, sound) = {via(p) : p \in drawn}
  BY DEF DrawnVias
<1>6. ViasTyped({via(p) : p \in drawn})
  <2>1. ASSUME NEW p \in drawn
        PROVE  via(p).sound \in BOOLEAN /\ \A l \in 1 .. 2 : via(p).id[l] \in Keys
    <3>1. via(p).sound \in BOOLEAN /\ via(p).id = id(p)
      BY <1>4
    <3>2. id(p)[1] \in Keys /\ id(p)[2] \in Keys
      BY <1>3
    <3>. HIDE DEF via, id
    <3>3. QED
      BY <3>1, <3>2
  <2>. HIDE DEF via
  <2>2. QED
    BY <2>1 DEF ViasTyped
<1>7. ASSUME NEW p \in drawn, sound PROVE Covers(via(p), rs)
  <2>1. /\ Within(via(p).metals[1][d0], g(p)[1]) /\ Within(via(p).metals[1][d1], Edges(lo, p[1]))
        /\ Within(via(p).metals[2][d1], g(p)[2]) /\ Within(via(p).metals[2][d0], Edges(up, p[2]))
        /\ \A l, i \in 1 .. 2 : via(p).metals[l][i] \in Interval
        /\ g(p)[1] \in Interval /\ g(p)[2] \in Interval
    BY <1>2, CrossingVia
  <2>2. Within(g(p)[1], lw) /\ Within(g(p)[2], uw)
    BY <1>7
  <2>3. d0 \in 1 .. 2 /\ d1 \in 1 .. 2
    BY <1>1, <1>2, WireParts
  <2>4. PICK r \in Wires(lo, lw) : /\ r.key = LayerAt(lo.level, HtrOf(lo, p[1]))
                                   /\ r.box = MakeBox(d0, lw, Edges(lo, p[1]))
    BY <1>1, <1>2, WireDrawn
  <2>5. PICK s \in Wires(up, uw) : /\ s.key = LayerAt(up.level, HtrOf(up, p[2]))
                                   /\ s.box = MakeBox(d1, uw, Edges(up, p[2]))
    BY <1>1, <1>2, WireDrawn
  <2>6. r \in rs /\ s \in rs
    BY <1>7
  <2>7. r.key = via(p).id[1] /\ s.key = via(p).id[2]
    BY <1>3, <1>4, <2>4, <2>5
  <2>. HIDE DEF via, g, d0, d1
  <2>8. Within(via(p).metals[1][d0], lw) /\ Within(via(p).metals[2][d1], uw)
    BY <2>1, <2>2, <2>3, WithinTrans
  <2>9. Inside(via(p).metals[1], r.box)
    BY <1>1, <2>1, <2>3, <2>4, <2>8, InMadeBox
  <2>10. Inside(via(p).metals[2], s.box)
    BY <1>1, <2>1, <2>3, <2>5, <2>8, InMadeBox
  <2>11. QED
    BY <2>6, <2>7, <2>9, <2>10 DEF Covers
<1>8. AllCovered({via(p) : p \in drawn}, rs)
  <2>1. \A p \in drawn : via(p).sound = sound
    BY <1>4
  <2>. HIDE DEF via
  <2>2. QED
    BY <1>7, <2>1 DEF AllCovered
<1>9. QED
  BY <1>5, <1>6, <1>8

LEMMA WarrDrawn ==
  ASSUME GridInv, DrawnInv, NEW a \in DOMAIN Arrays, AddWarr(a)
  PROVE  DrawnInv'
<1>1. /\ rects' = rects \cup Wires(Tid(a), Arrays[a].coord) /\ vias' = vias /\ pins' = pins
      /\ Tid(a).level \in Levels
  BY DEF AddWarr
<1>2. OnKeys(Wires(Tid(a), Arrays[a].coord))
  BY <1>1, WireDrawn
<1>3. AllCovered(vias, rects \cup Wires(Tid(a), Arrays[a].coord))
  BY DEF DrawnInv, AllCovered, Covers
<1>4. QED
  BY <1>1, <1>2, <1>3 DEF DrawnInv, OnKeys

LEMMA PinsDrawn ==
  ASSUME GridInv, DrawnInv, NEW a \in DOMAIN Arrays, AddPinArr(a)
  PROVE  DrawnInv'
<1> DEFINE t == Tid(a)
           step == Half(t.pitch * Pitch(info[t.level]))
           htr(i) == t.htr + i * step
           pin(i) == [key |-> LayerAt(t.level, htr(i)),
                      box |-> MakeBox(info[t.level].dir, Arrays[a].coord,
                                      WireBounds(t.level, htr(i), t.ntr))]
<1>1. /\ pins' = pins \cup {pin(i) : i \in Copies(t)} /\ rects' = rects /\ vias' = vias
      /\ t.level \in Levels
  BY DEF AddPinArr
<1>2. step \in Int
  <2>1. PICK S : info \in [Levels -> TrackOf(S)]
    BY DEF GridInv, Tracked
  <2>2. info[t.level].w \in Nat /\ info[t.level].sp \in Nat
    BY <1>1, <2>1 DEF TrackOf
  <2>3. Pitch(info[t.level]) \in Int
    BY <2>2 DEF Pitch
  <2>4. t.pitch \in Int
    BY ArrayParts DEF TidType
  <2>5. t.pitch * Pitch(info[t.level]) \in Int
    BY <2>3, <2>4
  <2>6. \A n \in Int : Half(n) \in Int
    BY DEF Half
  <2>7. QED
    BY <2>5, <2>6
<1>3. ASSUME NEW i \in Copies(t) PROVE htr(i) \in Int
  <2>1. i \in Int /\ t.htr \in Int
    BY ArrayParts DEF TidType
  <2>. HIDE DEF step, t
  <2>2. i * step \in Int
    BY <1>2, <2>1
  <2>3. QED
    BY <2>1, <2>2
<1>4. \A i \in Copies(t) : LayerAt(t.level, htr(i)) \in Keys
  BY <1>1, <1>3, LayerIsKey
<1>5. \A i \in Copies(t) : pin(i).key = LayerAt(t.level, htr(i))
  OBVIOUS
<1>. HIDE DEF pin, htr
<1>6. OnKeys(pins')
  BY <1>1, <1>4, <1>5 DEF DrawnInv, OnKeys
<1>7. QED
  BY <1>1, <1>6 DEF DrawnInv

\* Arrays that the calls do not refuse cross, the one on the lower level first.
LEMMA InOrder ==
  ASSUME GridInv, NEW a \in DOMAIN Arrays, NEW b \in DOMAIN Arrays, Crossable(Tid(a), Tid(b))
  PROVE  /\ Crossing(a, b) /\ Crossing(b, a)
         /\ Tid(a).level < Tid(b).level \/ Tid(b).level < Tid(a).level
         /\ ~(Tid(a).level < Tid(b).level /\ Tid(b).level < Tid(a).level)
<1>1. Tid(a).level \in Int /\ Tid(b).level \in Int
  BY ArrayParts DEF TidType
<1>2. Tid(a).level - Tid(b).level \in {-1, 1}
  BY DEF Crossable
<1>3. QED
  BY <1>1, <1>2 DEF Crossable, Crossing

\* With `contain` the parts taken are within the wires as they are.
LEMMA ViasDrawn ==
  ASSUME GridInv, DrawnInv, NEW a \in DOMAIN Arrays, NEW b \in DOMAIN Arrays,
         NEW extend \in BOOLEAN, NEW contain \in BOOLEAN, AddVias(a, b, extend, contain)
  PROVE  DrawnInv'
<1> DEFINE lo == IF Tid(a).level < Tid(b).level THEN a ELSE b
           up == IF lo = a THEN b ELSE a
           lc == Arrays[lo].coord
           uc == Arrays[up].coord
           drawn == Wires(Tid(lo), lc) \cup Wires(Tid(up), uc) \subseteq rects
           new == DrawnVias(Tid(lo), lc, Tid(up), uc, extend, contain, contain /\ drawn)
<1>1. Crossable(Tid(a), Tid(b)) /\ vias' = vias \cup new /\ rects' = rects /\ pins' = pins
  BY DEF AddVias
<1>2. Crossing(lo, up) /\ lo \in DOMAIN Arrays /\ up \in DOMAIN Arrays
  BY <1>1, InOrder
<1>3. lc \in Interval /\ uc \in Interval
  BY <1>2, ArrayParts
<1>. HIDE DEF lo, up, lc, uc
<1>4. ASSUME contain, NEW p \in Drawn(Tid(lo), lc, Tid(up), uc, extend, contain)
      PROVE  /\ Within(Grown(Tid(lo), lc, Tid(up), uc, p, extend)[1], lc)
             /\ Within(Grown(Tid(lo), lc, Tid(up), uc, p, extend)[2], uc)
  <2>1. p \in Pairs(Tid(lo), Tid(up))
    BY DEF Drawn, Reached
  <2>2. p[1] \in Copies(Tid(lo)) /\ p[2] \in Copies(Tid(up))
    BY <2>1 DEF Pairs
  <2>3. Tid(lo).level \in Levels /\ Tid(up).level \in Levels
    BY <1>2 DEF Crossing
  <2>4. Wire(Tid(lo), lc, p[1]).box[info[Tid(lo).level].dir] = lc
    <3>1. /\ Wire(Tid(lo), lc, p[1]).box
               = MakeBox(info[Tid(lo).level].dir, lc, Edges(Tid(lo), p[1]))
          /\ info[Tid(lo).level].dir \in 1 .. 2
      BY <1>2, <2>2, <2>3, WireParts
    <3>2. QED
      BY <3>1 DEF MakeBox
  <2>5. Wire(Tid(up), uc, p[2]).box[info[Tid(up).level].dir] = uc
    <3>1. /\ Wire(Tid(up), uc, p[2]).box
               = MakeBox(info[Tid(up).level].dir, uc, Edges(Tid(up), p[2]))
          /\ info[Tid(up).level].dir \in 1 .. 2
      BY <1>2, <2>2, <2>3, WireParts
    <3>2. QED
      BY <3>1 DEF MakeBox
  <2>6. QED
    BY <1>4, <2>4, <2>5 DEF Drawn, Within
<1>5. ViasTyped(new) /\ AllCovered(new, rects)
  <2>1. (contain /\ drawn) \in BOOLEAN
    OBVIOUS
  <2>2. /\ (contain /\ drawn) => Wires(Tid(lo), lc) \cup Wires(Tid(up), uc) \subseteq rects
        /\ (contain /\ drawn) => \A p \in Drawn(Tid(lo), lc, Tid(up), uc, extend, contain) :
                    /\ Within(Grown(Tid(lo), lc, Tid(up), uc, p, extend)[1], lc)
                    /\ Within(Grown(Tid(lo), lc, Tid(up), uc, p, extend)[2], uc)
    BY <1>4
  <2>3. QED
    BY <1>2, <1>3, <2>1, <2>2, CrossingsCovered
<1>. HIDE DEF new
<1>6. ViasTyped(vias \cup new)
  BY <1>5 DEF DrawnInv, ViasTyped
<1>7. AllCovered(vias \cup new, rects)
  BY <1>5 DEF DrawnInv, AllCovered
<1>8. QED
  BY <1>1, <1>6, <1>7 DEF DrawnInv

\* The greatest and the least of what a function takes on a finite set, and of one number
\* more.
LEMMA ExtremesOf ==
  ASSUME NEW P, IsFiniteSet(P), NEW f \in [P -> Int], NEW c \in Int
  PROVE  LET S == {f[p] : p \in P} \cup {c}
         IN  /\ Max(S) \in Int /\ Min(S) \in Int /\ Min(S) <= c /\ c <= Max(S)
             /\ \A p \in P : Min(S) <= f[p] /\ f[p] <= Max(S)
<1> DEFINE T == {f[p] : p \in P}
           S == T \cup {c}
<1>1. f \in Surjection(P, T)
  BY DEF Surjection
<1>2. IsFiniteSet(T)
  BY <1>1, FS_Surjection
<1>3. IsFiniteSet(S)
  BY <1>2, FS_AddElement
<1>4. S \subseteq Int /\ S # {} /\ c \in S /\ \A p \in P : f[p] \in S
  OBVIOUS
<1>. HIDE DEF S
<1>5. /\ Max(S) \in S /\ \A y \in S : y <= Max(S)
      /\ Min(S) \in S /\ \A y \in S : Min(S) <= y
  BY <1>3, <1>4, Extremes
<1>6. QED
  BY <1>4, <1>5 DEF S

\* Bounds only grow to meet a wish, or another interval.
LEMMA ReachGrows ==
  ASSUME NEW b \in Interval, NEW wish \in Wish
  PROVE  Reach(b, wish) \in Interval /\ Within(b, Reach(b, wish))
<1>1. b[1] \in Int /\ b[2] \in Int
  BY DEF Interval
<1>2. wish[1] # None => wish[1] \in Int
  BY DEF Wish
<1>3. wish[2] # None => wish[2] \in Int
  BY DEF Wish
<1>4. wish[1] # None => Min({b[1], wish[1]}) \in Int /\ Min({b[1], wish[1]}) <= b[1]
  BY <1>1, <1>2, LargerOfTwo
<1>5. wish[2] # None => Max({b[2], wish[2]}) \in Int /\ b[2] <= Max({b[2], wish[2]})
  BY <1>1, <1>3, LargerOfTwo
<1>6. QED
  BY <1>1, <1>4, <1>5 DEF Reach, Within, Interval

LEMMA HullGrows ==
  ASSUME NEW a \in Interval, NEW b \in Interval
  PROVE  Hull2(a, b) \in Interval /\ Within(a, Hull2(a, b))
<1>1. a[1] \in Int /\ a[2] \in Int /\ b[1] \in Int /\ b[2] \in Int
  BY DEF Interval
<1>2. Min({a[1], b[1]}) \in Int /\ Min({a[1], b[1]}) <= a[1]
  BY <1>1, LargerOfTwo
<1>3. Max({a[2], b[2]}) \in Int /\ a[2] <= Max({a[2], b[2]})
  BY <1>1, LargerOfTwo
<1>4. QED
  BY <1>2, <1>3 DEF Hull2, Within, Interval

\* The bounds returned hold the part that each via takes.
LEMMA BoundsHold ==
  ASSUME GridInv, NEW a, NEW b, Crossing(a, b), NEW lc \in Interval, NEW uc \in Interval,
         NEW extend \in BOOLEAN, NEW contain
  PROVE  LET ans == ViaBounds(Tid(a), lc, Tid(b), uc, extend, contain)
         IN  /\ ans[1] \in Interval /\ ans[2] \in Interval
             /\ \A p \in Drawn(Tid(a), lc, Tid(b), uc, extend, contain) :
                  /\ Within(Grown(Tid(a), lc, Tid(b), uc, p, extend)[1], ans[1])
                  /\ Within(Grown(Tid(a), lc, Tid(b), uc, p, extend)[2], ans[2])
<1> DEFINE lo == Tid(a)
           up == Tid(b)
           drawn == Drawn(lo, lc, up, uc, extend, contain)
           g(p) == Grown(lo, lc, up, uc, p, extend)
           ans == ViaBounds(lo, lc, up, uc, extend, contain)
<1>1. IsFiniteSet(drawn)
  <2>1. a \in DOMAIN Arrays /\ b \in DOMAIN Arrays
    BY DEF Crossing
  <2>2. IsFiniteSet(Copies(lo)) /\ IsFiniteSet(Copies(up))
    BY <2>1, ArrayParts
  <2>3. IsFiniteSet(Copies(lo) \X Copies(up))
    BY <2>2, FS_Product
  <2>4. drawn \subseteq Copies(lo) \X Copies(up)
    BY DEF Drawn, Reached, Pairs
  <2>5. QED
    BY <2>3, <2>4, FS_Subset
<1>2. ASSUME NEW p \in drawn PROVE g(p)[1] \in Interval /\ g(p)[2] \in Interval
  <2>1. p \in Pairs(lo, up) /\ p \in Reached(lo, lc, up, uc) /\ Filled(lo, lc, up, uc, p)
    BY DEF Drawn, Reached
  <2>2. p[1] \in Copies(lo) /\ p[2] \in Copies(up) /\ a \in DOMAIN Arrays /\ b \in DOMAIN Arrays
    BY <2>1 DEF Pairs, Crossing
  <2>3. p[1] = p[1] /\ p[2] <= p[2]
    BY <2>2, ArrayParts
  <2>4. IdAt(lo, lc, up, uc, p) \in ViaIds
    BY <2>1, <2>3 DEF Reached
  <2>5. QED
    BY <2>1, <2>4, CrossingVia
<1>3. ASSUME NEW l \in 1 .. 2
      PROVE  /\ ans[l] \in Interval
             /\ \A p \in drawn : Within(g(p)[l], ans[l])
  <2> DEFINE from == [p \in drawn |-> g(p)[l][1]]
             to == [p \in drawn |-> g(p)[l][2]]
             parts == {g(p) : p \in drawn}
  <2>1. \A p \in drawn : g(p)[l][1] \in Int /\ g(p)[l][2] \in Int
    BY <1>2 DEF Interval
  <2>. HIDE DEF drawn, g
  <2>2. from \in [drawn -> Int] /\ to \in [drawn -> Int]
    BY <2>1
  <2>3. {h[l][1] : h \in parts} = {from[p] : p \in drawn}
    OBVIOUS
  <2>4. {h[l][2] : h \in parts} = {to[p] : p \in drawn}
    OBVIOUS
  <2>5. ans[l] = <<Min({from[p] : p \in drawn} \cup {MaxCoord}), Max({to[p] : p \in drawn} \cup {-MaxCoord})>>
    <3>1. ans[l] = <<Min({h[l][1] : h \in parts} \cup {MaxCoord}), Max({h[l][2] : h \in parts} \cup {-MaxCoord})>>
      BY DEF ViaBounds, g, drawn
    <3>2. QED
      BY <2>3, <2>4, <3>1
  <2>6. MaxCoord \in Int /\ -MaxCoord \in Int
    BY WiresAssumption
  <2>. HIDE DEF from, to
  <2>7. /\ Min({from[p] : p \in drawn} \cup {MaxCoord}) \in Int
        /\ \A p \in drawn : Min({from[q] : q \in drawn} \cup {MaxCoord}) <= from[p]
    BY <1>1, <2>2, <2>6, ExtremesOf
  <2>8. /\ Max({to[p] : p \in drawn} \cup {-MaxCoord}) \in Int
        /\ \A p \in drawn : to[p] <= Max({to[q] : q \in drawn} \cup {-MaxCoord})
    BY <1>1, <2>2, <2>6, ExtremesOf
  <2>9. \A p \in drawn : from[p] = g(p)[l][1] /\ to[p] = g(p)[l][2]
    BY DEF from, to
  <2>. HIDE DEF ans
  <2>10. ans[l] \in Interval
    BY <2>5, <2>7, <2>8 DEF Interval
  <2>11. QED
    BY <2>5, <2>7, <2>8, <2>9, <2>10 DEF Within
<1>4. QED
  BY <1>3

\* The wires of connect_warr_track reach over every via.
LEMMA ConnectedDrawn ==
  ASSUME GridInv, DrawnInv, NEW a \in DOMAIN Arrays, NEW b \in DOMAIN Arrays,
         NEW w_ext \in Bounds, NEW tr_ext \in Bounds, ConnectWires(a, b, w_ext, tr_ext)
  PROVE  DrawnInv'
<1> DEFINE w == Tid(a)
           t == Tid(b)
           al == IF w.level < t.level THEN a ELSE b
           au == IF w.level < t.level THEN b ELSE a
           lo == Tid(al)
           up == Tid(au)
           all == <<-MaxCoord, MaxCoord>>
           whole == Reached(lo, all, up, all) = Pairs(lo, up)
           ans == ViaBounds(lo, all, up, all, TRUE, FALSE)
           w_at == IF w.level > t.level THEN 2 ELSE 1
           w_iv == Reach(Hull2(ans[w_at], Arrays[a].coord), w_ext)
           t_iv == Reach(ans[3 - w_at], tr_ext)
           wires == Wires(w, w_iv) \cup Wires(t, t_iv)
           vs == DrawnVias(lo, all, up, all, TRUE, FALSE, whole)
           g(p) == Grown(lo, all, up, all, p, TRUE)
<1>1. /\ Crossable(w, t) /\ vias' = vias \cup vs /\ pins' = pins
      /\ rects' = IF ~whole THEN rects ELSE rects \cup wires
  <2>1. lo = (IF w.level < t.level THEN w ELSE t) /\ up = (IF w.level < t.level THEN t ELSE w)
    OBVIOUS
  <2>. HIDE DEF w, t
  <2>2. rects' = IF ~whole THEN rects ELSE rects \cup Wires(w, w_iv) \cup Wires(t, t_iv)
    BY <2>1 DEF ConnectWires, w, t
  <2>3. Crossable(w, t) /\ vias' = vias \cup vs /\ pins' = pins
    BY <2>1 DEF ConnectWires, w, t
  <2>. HIDE DEF whole, w_iv, t_iv
  <2>4. QED
    BY <2>2, <2>3
<1>2. /\ Crossing(al, au) /\ w.level \in Levels /\ t.level \in Levels
      /\ w.level < t.level \/ t.level < w.level
      /\ ~(w.level < t.level /\ t.level < w.level)
  BY <1>1, InOrder DEF Crossing
<1>3. all \in Interval /\ Arrays[a].coord \in Interval /\ w_ext \in Wish /\ tr_ext \in Wish
  <2>1. MaxCoord \in Int /\ -MaxCoord \in Int /\ Bounds \subseteq Wish
    BY WiresAssumption
  <2>2. QED
    BY <2>1, ArrayParts DEF Interval
<1>. HIDE DEF all
<1>4. /\ ans[1] \in Interval /\ ans[2] \in Interval
      /\ \A p \in Drawn(lo, all, up, all, TRUE, FALSE) : Within(g(p)[1], ans[1]) /\ Within(g(p)[2], ans[2])
  BY <1>2, <1>3, BoundsHold
<1>5. w_at \in 1 .. 2 /\ 3 - w_at \in 1 .. 2 /\ ans[w_at] \in Interval /\ ans[3 - w_at] \in Interval
  <2>. HIDE DEF w, t, ans
  <2>1. CASE w_at = 1
    <3>1. 3 - w_at = 2
      BY <2>1
    <3>2. QED
      BY <1>4, <2>1, <3>1
  <2>2. CASE w_at = 2
    <3>1. 3 - w_at = 1
      BY <2>2
    <3>2. QED
      BY <1>4, <2>2, <3>1
  <2>3. QED
    BY <2>1, <2>2
<1>. HIDE DEF ans
<1>6. w_iv \in Interval /\ Within(ans[w_at], w_iv) /\ t_iv \in Interval /\ Within(ans[3 - w_at], t_iv)
  <2>1. Hull2(ans[w_at], Arrays[a].coord) \in Interval /\ Within(ans[w_at], Hull2(ans[w_at], Arrays[a].coord))
    BY <1>3, <1>5, HullGrows
  <2>2. w_iv \in Interval /\ Within(Hull2(ans[w_at], Arrays[a].coord), w_iv)
    BY <1>3, <2>1, ReachGrows
  <2>3. t_iv \in Interval /\ Within(ans[3 - w_at], t_iv)
    BY <1>3, <1>5, ReachGrows
  <2>. HIDE DEF w_iv, t_iv, w_at
  <2>4. QED
    BY <1>5, <2>1, <2>2, <2>3, WithinTrans
<1> DEFINE l_iv == IF w.level < t.level THEN w_iv ELSE t_iv
           u_iv == IF w.level < t.level THEN t_iv ELSE w_iv
<1>7. /\ l_iv \in Interval /\ u_iv \in Interval /\ Within(ans[1], l_iv) /\ Within(ans[2], u_iv)
      /\ Wires(lo, l_iv) \cup Wires(up, u_iv) \subseteq wires
  <2>1. CASE w.level < t.level
    <3>1. w_at = 1 /\ 3 - w_at = 2
      BY <1>2, <2>1, ArrayParts DEF TidType
    <3>2. l_iv = w_iv /\ u_iv = t_iv /\ lo = w /\ up = t
      BY <2>1
    <3>. HIDE DEF w_iv, t_iv, w_at, l_iv, u_iv, lo, up, w, t
    <3>3. QED
      BY <1>6, <3>1, <3>2
  <2>2. CASE ~(w.level < t.level)
    <3>1. w_at = 2 /\ 3 - w_at = 1
      BY <1>2, <2>2, ArrayParts DEF TidType
    <3>2. l_iv = t_iv /\ u_iv = w_iv /\ lo = t /\ up = w
      BY <2>2
    <3>. HIDE DEF w_iv, t_iv, w_at, l_iv, u_iv, lo, up, w, t
    <3>3. QED
      BY <1>6, <3>1, <3>2
  <2>3. QED
    BY <2>1, <2>2
<1>8. ASSUME NEW p \in Drawn(lo, all, up, all, TRUE, FALSE)
      PROVE  Within(g(p)[1], l_iv) /\ Within(g(p)[2], u_iv)
  <2>1. p \in Pairs(lo, up) /\ p \in Reached(lo, all, up, all) /\ Filled(lo, all, up, all, p)
    BY DEF Drawn, Reached
  <2>2. /\ p[1] \in Copies(lo) /\ p[2] \in Copies(up)
        /\ al \in DOMAIN Arrays /\ au \in DOMAIN Arrays
    BY <1>2, <2>1 DEF Pairs, Crossing
  <2>3. p[1] = p[1] /\ p[2] <= p[2]
    BY <2>2, ArrayParts
  <2>4. IdAt(lo, all, up, all, p) \in ViaIds
    BY <2>1, <2>3 DEF Reached
  <2>5. g(p)[1] \in Interval /\ g(p)[2] \in Interval
    BY <1>2, <1>3, <2>1, <2>4, CrossingVia
  <2>. HIDE DEF g, l_iv, u_iv, al, au
  <2>6. QED
    BY <1>4, <1>7, <2>5, WithinTrans
<1>9. ViasTyped(vs) /\ AllCovered(vs, rects')
  <2>1. whole \in BOOLEAN
    OBVIOUS
  <2>2. whole => Wires(lo, l_iv) \cup Wires(up, u_iv) \subseteq rects'
    <3>. HIDE DEF whole, wires
    <3>1. QED
      BY <1>1, <1>7
  <2>. HIDE DEF whole, l_iv, u_iv, al, au
  <2>3. QED
    BY <1>2, <1>3, <1>7, <1>8, <2>1, <2>2, CrossingsCovered
<1>10. OnKeys(rects')
  <2>1. OnKeys(Wires(w, w_iv)) /\ OnKeys(Wires(t, t_iv))
    BY <1>2, WireDrawn
  <2>. HIDE DEF w_iv, t_iv, whole, w, t
  <2>2. QED
    BY <1>1, <2>1 DEF DrawnInv, OnKeys
<1>. HIDE DEF vs, whole, wires
<1>11. ViasTyped(vias')
  BY <1>1, <1>9 DEF DrawnInv, ViasTyped
<1>12. AllCovered(vias', rects')
  <2>1. rects \subseteq rects'
    BY <1>1
  <2>2. rects' = rects \cup rects'
    BY <2>1
  <2>3. AllCovered(vs, rects \cup rects') /\ AllCovered(vias, rects)
    BY <1>9, <2>2 DEF DrawnInv
  <2>4. AllCovered(vias \cup vs, rects \cup rects')
    BY <2>3, CoverGrows
  <2>5. QED
    BY <1>1, <2>2, <2>4
<1>13. QED
  BY <1>1, <1>10, <1>11, <1>12 DEF DrawnInv

\* A wire made longer holds what it held.
LEMMA LengthenedGrows ==
  ASSUME NEW b \in Interval, NEW key, NEW width, NEW mode,
         MinLength(key, width, mode = "MIDDLE") \in Nat
  PROVE  /\ Lengthened(b, key, width, mode) \in Interval
         /\ Within(b, Lengthened(b, key, width, mode))
<1> DEFINE least == MinLength(key, width, mode = "MIDDLE")
           len == Max({b[2] - b[1], least})
           mid == Half(b[1] + b[2] - len)
<1>1. b[1] \in Int /\ b[2] \in Int /\ b = <<b[1], b[2]>>
  BY DEF Interval
<1>2. len \in Int /\ b[2] - b[1] <= len
  BY <1>1, LargerOfTwo
<1>3. Lengthened(b, key, width, mode) \in
        {<<b[2] - len, b[2]>>, <<b[1], b[1] + len>>, <<mid, mid + len>>, b}
  BY DEF Lengthened
<1>. HIDE DEF len
<1>4. mid \in Int /\ mid <= b[1] /\ b[2] <= mid + len
  BY <1>1, <1>2 DEF Half
<1>. HIDE DEF mid
<1>5. \A iv \in {<<b[2] - len, b[2]>>, <<b[1], b[1] + len>>, <<mid, mid + len>>, b} :
        iv \in Interval /\ Within(b, iv)
  BY <1>1, <1>2, <1>4 DEF Interval, Within
<1>6. QED
  BY <1>3, <1>5

LEMMA SpanTyped ==
  ASSUME NEW iv \in Interval, NEW num \in Nat, NEW sp \in Int
  PROVE  Span(iv, num, sp) \in Interval
<1>1. sp * (num - 1) \in Int /\ iv[1] \in Int /\ iv[2] \in Int
  BY DEF Interval
<1>2. QED
  BY <1>1 DEF Span, Interval

\* In an array of which one element counts in each direction, the element is not moved.
LEMMA NotMoved ==
  ASSUME NEW box \in Box, NEW at \in [1 .. 2 -> Int], NEW sp \in [1 .. 2 -> Int], NEW m \in [1 .. 2 -> Nat]
  PROVE  /\ Shift(box, <<0 * sp[1], 0 * sp[2]>>) = box
         /\ Around(Plus(at, <<0 * sp[1], 0 * sp[2]>>), m) = Around(at, m)
<1>1. 0 * sp[1] = 0 /\ 0 * sp[2] = 0
  OBVIOUS
<1>2. Shift(box, <<0, 0>>) = box
  <2>1. \A i \in 1 .. 2 : box[i] = <<box[i][1], box[i][2]>> /\ box[i][1] \in Int /\ box[i][2] \in Int
    BY DEF Box, Interval
  <2>2. \A i \in 1 .. 2 : <<0, 0>>[i] = 0
    OBVIOUS
  <2>3. \A i \in 1 .. 2 : <<box[i][1] + <<0, 0>>[i], box[i][2] + <<0, 0>>[i]>> = box[i]
    BY <2>1, <2>2
  <2>4. box = [i \in 1 .. 2 |-> box[i]]
    BY DEF Box
  <2>5. QED
    BY <2>3, <2>4 DEF Shift
<1>3. \A i \in 1 .. 2 : Plus(at, <<0, 0>>)[i] = at[i]
  BY DEF Plus
<1>4. Around(Plus(at, <<0, 0>>), m) = Around(at, m)
  BY <1>3 DEF Around
<1>5. QED
  BY <1>1, <1>2, <1>4

LEMMA BoxParts ==
  ASSUME NEW c \in DOMAIN BoxCalls
  PROVE  LET call == BoxCalls[c]
         IN  /\ call.vdir \in 1 .. 2 /\ call.key \in Keys /\ call.box \in Box
             /\ call.num \in [1 .. 2 -> Nat \ {0}] /\ call.sp \in [1 .. 2 -> Int]
             /\ call.box_ext \in Wish /\ call.tr_ext \in Wish
             /\ \A i \in 1 .. 2 : call.box[i][1] <= call.box[i][2] /\ Dim(call.box)[i] \in Widths
<1>1. /\ BoxCalls[c] \in [vdir : 1 .. 2, key : Keys, box : Box, num : [1 .. 2 -> Nat \ {0}],
                          sp : [1 .. 2 -> Int], box_ext : Wish, tr_ext : Wish, mode : STRING]
      /\ \A i \in 1 .. 2 : BoxCalls[c].box[i][1] <= BoxCalls[c].box[i][2]
  BY WiresAssumption
<1>2. \A i \in 1 .. 2 : Dim(BoxCalls[c].box)[i] \in Widths
  BY DEF Widths
<1>3. QED
  BY <1>1, <1>2

\* A via of which the metal l runs in the direction Dir(l), with its extensions, in a box
\* of even sides.
LEMMA MetalsInBox ==
  ASSUME NEW o \in Box, NEW d \in 1 .. 2, NEW pd \in 1 .. 2, d # pd,
         \A k \in 1 .. 2 : o[k][1] <= o[k][2] /\ Dim(o)[k] % 2 = 0,
         NEW m \in [1 .. 2 -> [1 .. 2 -> Nat]],
         m[pd][d] <= Dim(o)[d], m[d][pd] <= Dim(o)[pd],
         NEW ext, ext[pd] = Half(m[pd][pd] - Dim(o)[pd]), ext[d] = Half(m[d][d] - Dim(o)[d])
  PROVE  /\ \A k \in 1 .. 2 : Within(Around(Center(o), m[k])[k], <<o[k][1] - ext[k], o[k][2] + ext[k]>>)
         /\ Within(Around(Center(o), m[pd])[d], o[d]) /\ Within(Around(Center(o), m[d])[pd], o[pd])
         /\ \A l, k \in 1 .. 2 : Around(Center(o), m[l])[k] \in Interval
         /\ \A k \in 1 .. 2 : o[k][1] - ext[k] \in Int /\ o[k][2] + ext[k] \in Int
<1>1. \A k \in 1 .. 2 : k = d \/ k = pd
  OBVIOUS
<1>2. \A k \in 1 .. 2 : ext[k] = Half(m[k][k] - Dim(o)[k])
  BY <1>1
<1>3. \A k \in 1 .. 2 : m[k] \in [1 .. 2 -> Nat]
  OBVIOUS
<1>4. ASSUME NEW l \in 1 .. 2, NEW k \in 1 .. 2
      PROVE  /\ Within(Around(Center(o), m[l])[k],
                       <<o[k][1] - Half(m[l][k] - Dim(o)[k]), o[k][2] + Half(m[l][k] - Dim(o)[k])>>)
             /\ m[l][k] <= Dim(o)[k] => Within(Around(Center(o), m[l])[k], o[k])
             /\ Around(Center(o), m[l])[k] \in Interval
             /\ Half(m[l][k] - Dim(o)[k]) \in Int
  <2>1. o[k][1] <= o[k][2] /\ Dim(o)[k] % 2 = 0 /\ m[l] \in [1 .. 2 -> Nat]
    BY <1>3
  <2>2. QED
    BY <2>1, CentredMetal
<1>5. ASSUME NEW k \in 1 .. 2 PROVE o[k][1] \in Int /\ o[k][2] \in Int /\ ext[k] \in Int
  <2>1. Half(m[k][k] - Dim(o)[k]) \in Int
    BY <1>4
  <2>2. ext[k] \in Int
    BY <1>2, <2>1
  <2>3. QED
    BY <2>2 DEF Box, Interval
<1>6. ASSUME NEW k \in 1 .. 2
      PROVE  /\ Within(Around(Center(o), m[k])[k], <<o[k][1] - ext[k], o[k][2] + ext[k]>>)
             /\ o[k][1] - ext[k] \in Int /\ o[k][2] + ext[k] \in Int
  <2>1. Within(Around(Center(o), m[k])[k],
               <<o[k][1] - Half(m[k][k] - Dim(o)[k]), o[k][2] + Half(m[k][k] - Dim(o)[k])>>)
    BY <1>4
  <2>2. ext[k] = Half(m[k][k] - Dim(o)[k])
    BY <1>2
  <2>3. Within(Around(Center(o), m[k])[k], <<o[k][1] - ext[k], o[k][2] + ext[k]>>)
    BY <2>1, <2>2
  <2>4. QED
    BY <1>5, <2>3
<1>7. Within(Around(Center(o), m[pd])[d], o[d]) /\ Within(Around(Center(o), m[d])[pd], o[pd])
  BY <1>4
<1>8. \A l, k \in 1 .. 2 : Around(Center(o), m[l])[k] \in Interval
  BY <1>4
<1>9. QED
  BY <1>6, <1>7, <1>8

\* A via between the box and a track fits in the width of both, where the two indexings
\* of its extensions agree.
LEMMA BoxVia ==
  ASSUME GridInv, NEW c \in DOMAIN BoxCalls, NEW b \in DOMAIN Arrays, Tid(b).level \in Levels,
         NEW i \in Copies(Tid(b)), NEW id \in ViaIds
  PROVE  LET d == info[Tid(b).level].dir
             pd == 3 - d
             box == BoxCalls[c].box
             o == MakeBox(d, box[d], Edges(Tid(b), i))
             m == ViaMetal(id, Dim(o), IF pd = 1 THEN pd ELSE d, TRUE)
         IN  /\ d \in 1 .. 2 /\ pd \in 1 .. 2 /\ d # pd
             /\ o \in Box /\ o[d] = box[d] /\ o[pd] = Edges(Tid(b), i)
             /\ \A k \in 1 .. 2 : o[k][1] <= o[k][2]
             /\ Dim(o)[pd] % 2 = 0 /\ Dim(o)[d] = Dim(box)[d]
             /\ m \in [1 .. 2 -> [1 .. 2 -> Nat]]
             /\ m[pd][d] <= Dim(o)[d] /\ m[d][pd] <= Dim(o)[pd]
<1> DEFINE d == info[Tid(b).level].dir
           pd == 3 - d
           e == Edges(Tid(b), i)
           box == BoxCalls[c].box
           o == MakeBox(d, box[d], e)
           m == ViaMetal(id, Dim(o), IF pd = 1 THEN pd ELSE d, TRUE)
<1>1. /\ d \in 1 .. 2 /\ e = <<e[1], e[2]>> /\ e[1] \in Int /\ e[2] \in Int /\ e[1] <= e[2]
      /\ e[2] - e[1] \in Widths /\ (e[2] - e[1]) % 2 = 0
  BY WireParts
<1>2. d # pd /\ pd \in 1 .. 2
  BY <1>1
<1>3. /\ box \in Box /\ box[d][1] <= box[d][2] /\ Dim(box)[d] \in Widths
      /\ Dim(box)[d] = box[d][2] - box[d][1]
  <2>1. /\ box \in Box /\ box[d][1] <= box[d][2] /\ Dim(box)[d] \in Widths
    BY <1>1, BoxParts
  <2>2. QED
    BY <1>1, <2>1 DEF Dim
<1>4. MetalsFit(id, Dim(o), IF pd = 1 THEN pd ELSE d, TRUE) <=>
        /\ m \in [1 .. 2 -> [1 .. 2 -> Nat]]
        /\ m[pd][d] <= Dim(o)[d] /\ m[d][pd] <= Dim(o)[pd]
  <2> DEFINE dir == IF pd = 1 THEN pd ELSE d
             fits == /\ m \in [1 .. 2 -> [1 .. 2 -> Nat]]
                     /\ m[1][2] <= Dim(o)[2] /\ m[2][1] <= Dim(o)[1]
  <2>1. dir = 1 /\ ((d = 1 /\ pd = 2) \/ (d = 2 /\ pd = 1))
    BY <1>1
  <2>2. MetalsFit(id, Dim(o), dir, TRUE) <=> fits
    <3>1. m = ViaMetal(id, Dim(o), dir, TRUE)
      OBVIOUS
    <3>2. Perpendicular(1) = 2
      BY DEF Perpendicular
    <3>. HIDE DEF m, o, dir
    <3>3. QED
      BY <2>1, <3>1, <3>2 DEF MetalsFit
  <2>3. fits <=> /\ m \in [1 .. 2 -> [1 .. 2 -> Nat]]
                 /\ m[pd][d] <= Dim(o)[d] /\ m[d][pd] <= Dim(o)[pd]
    <3>. HIDE DEF m, o, dir, d, pd
    <3>1. CASE d = 1 /\ pd = 2
      BY <3>1
    <3>2. CASE d = 2 /\ pd = 1
      BY <3>2
    <3>3. QED
      BY <2>1, <3>1, <3>2
  <2>. HIDE DEF m, fits
  <2>4. QED
    BY <2>2, <2>3
<1>. HIDE DEF e, box, d, pd
<1>5. o[d] = box[d] /\ o[pd] = e /\ DOMAIN o = 1 .. 2
  BY <1>1, <1>2 DEF MakeBox
<1>6. \A k \in 1 .. 2 : k = d \/ k = pd
  BY <1>1, <1>2
<1>7. o \in Box /\ \A k \in 1 .. 2 : o[k][1] <= o[k][2]
  <2>1. e \in Interval /\ box[d] \in Interval
    BY <1>1, <1>3 DEF Box, Interval
  <2>2. o \in Box
    BY <1>1, <2>1 DEF MakeBox, Box
  <2>. HIDE DEF o
  <2>3. \A k \in 1 .. 2 : o[k][1] <= o[k][2]
    BY <1>1, <1>3, <1>5, <1>6
  <2>4. QED
    BY <2>2, <2>3
<1>. HIDE DEF o
<1>8. Dim(o)[d] = Dim(box)[d] /\ Dim(o)[pd] = e[2] - e[1]
  BY <1>1, <1>2, <1>3, <1>5 DEF Dim
<1>9. Dim(o) \in [1 .. 2 -> Widths]
  <2>1. \A k \in 1 .. 2 : Dim(o)[k] \in Widths
    BY <1>1, <1>3, <1>6, <1>8
  <2>2. Dim(o) = [k \in 1 .. 2 |-> Dim(o)[k]]
    BY DEF Dim
  <2>3. QED
    BY <2>1, <2>2
<1>10. (IF pd = 1 THEN pd ELSE d) \in Directions
  BY <1>1, <1>2 DEF Directions
<1>11. MetalsFit(id, Dim(o), IF pd = 1 THEN pd ELSE d, TRUE)
  BY <1>9, <1>10, TechAssumption
<1>12. Dim(o)[pd] % 2 = 0
  BY <1>1, <1>8
<1>. HIDE DEF m
<1>13. QED
  BY <1>1, <1>2, <1>4, <1>5, <1>7, <1>8, <1>11, <1>12 DEF d, pd, e, box, o, m

\* Vias of an array are alike but for where they are.
LEMMA ViaArrAlike ==
  ASSUME NEW id, NEW metal, NEW at, NEW num, NEW sp, NEW sound, NEW v \in ViaArr(id, metal, at, num, sp, sound)
  PROVE  /\ v.id = id /\ v.sound = sound
         /\ \E i \in 0 .. num[1] - 1, j \in 0 .. num[2] - 1 :
              v = Via(id, metal, Plus(at, <<i * sp[1], j * sp[2]>>), sound)
<1> DEFINE A == 0 .. num[1] - 1
           B == 0 .. num[2] - 1
           e(i, j) == Via(id, metal, Plus(at, <<i * sp[1], j * sp[2]>>), sound)
<1>0. v \in {e(i, j) : i \in A, j \in B}
  BY DEF ViaArr
<1>1. PICK i \in A, j \in B : v = e(i, j)
  <2>. HIDE DEF A, B, e
  <2>1. QED
    BY <1>0
<1>2. v.id = id /\ v.sound = sound
  BY <1>1 DEF Via
<1>3. QED
  BY <1>1, <1>2

LEMMA RectArrAlike ==
  ASSUME NEW key, NEW box, NEW num, NEW sp
  PROVE  /\ \A x \in RectArr(key, box, num, sp) : x.key = key
         /\ num[1] = 1 /\ num[2] = 1 =>
              Shape(key, Shift(box, <<0 * sp[1], 0 * sp[2]>>)) \in RectArr(key, box, num, sp)
<1> DEFINE A == 0 .. num[1] - 1
           B == 0 .. num[2] - 1
           e(i, j) == Shape(key, Shift(box, <<i * sp[1], j * sp[2]>>))
<1>0. RectArr(key, box, num, sp) = {e(i, j) : i \in A, j \in B}
  BY DEF RectArr
<1>1. ASSUME NEW x \in RectArr(key, box, num, sp) PROVE x.key = key
  <2>1. PICK i \in A, j \in B : x = e(i, j)
    <3>. HIDE DEF A, B, e
    <3>1. QED
      BY <1>0
  <2>2. QED
    BY <2>1 DEF Shape
<1>2. ASSUME num[1] = 1, num[2] = 1
      PROVE  Shape(key, Shift(box, <<0 * sp[1], 0 * sp[2]>>)) \in RectArr(key, box, num, sp)
  <2>1. 0 \in 0 .. num[1] - 1 /\ 0 \in 0 .. num[2] - 1
    BY <1>2
  <2>2. e(0, 0) \in {e(i, j) : i \in A, j \in B}
    <3>. HIDE DEF e
    <3>1. QED
      BY <2>1
  <2>3. QED
    BY <1>0, <2>2
<1>3. QED
  BY <1>1, <1>2

\* The boxes and the wires of connect_box_track reach over every via.
LEMMA BoxDrawn ==
  ASSUME GridInv, DrawnInv, NEW c \in DOMAIN BoxCalls, NEW b \in DOMAIN Arrays, ConnectBox(c, b)
  PROVE  DrawnInv'
<1> DEFINE call == BoxCalls[c]
           t == Tid(b)
           d == info[t.level].dir
           pd == Perpendicular(d)
           bl == call.vdir
           tl == 3 - bl
           start == [l \in 1 .. 2 |-> IF l = bl THEN Span(call.box[pd], call.num[pd], call.sp[pd])
                                      ELSE Span(call.box[d], call.num[d], call.sp[d])]
           wire(i) == Wire(t, start[2], i)
           id(i) == ViaIdOf(bl, call.key, wire(i).key)
           overlap(i) == MakeBox(d, call.box[d], wire(i).box[pd])
           metal(i) == ViaMetal(id(i), Dim(overlap(i)), IF bl = 1 THEN pd ELSE d, TRUE)
           ext(i) == ViaExt(metal(i), Dim(overlap(i)), bl, pd, d)
           along == [i \in 1 .. 2 |-> IF i = d THEN call.num[d] ELSE 1]
           done == {i \in Copies(t) : \A j \in 0 .. i : id(j) \in ViaIds}
           whole == done = Copies(t)
           reach(i, o) == <<overlap(i)[o][1] - ext(i)[o], overlap(i)[o][2] + ext(i)[o]>>
           hull(l, o) == <<Min({start[l][1]} \cup {reach(i, o)[1] : i \in Copies(t)}),
                           Max({start[l][2]} \cup {reach(i, o)[2] : i \in Copies(t)})>>
           across == Reach(hull(bl, pd), call.box_ext)
           length == Lengthened(Reach(hull(tl, d), call.tr_ext), TestKey(t.level),
                                WireSpan(info[t.level], t.ntr), call.mode)
           sound == whole /\ bl = pd /\ call.num[d] = 1 /\ Dim(call.box)[d] % 2 = 0
           new(i) == ViaArr(id(i), metal(i), Center(overlap(i)), along, call.sp, sound)
           boxes == RectArr(call.key, MakeBox(d, call.box[d], across), along, call.sp)
<1>1. /\ t.level \in Levels /\ pins' = pins /\ vias' = vias \cup UNION {new(i) : i \in done}
      /\ rects' = IF ~whole THEN rects ELSE rects \cup boxes \cup Wires(t, length)
  <2>1. ConnectBox(c, b)
    OBVIOUS
  <2>2. QED
    BY <2>1, Zenon DEF ConnectBox
<1>2. d \in 1 .. 2 /\ pd = 3 - d /\ pd \in 1 .. 2 /\ d # pd /\ (bl = pd => tl = d)
  <2>1. d \in 1 .. 2
    BY <1>1, ArrayParts, WireParts
  <2>. HIDE DEF d, bl
  <2>2. QED
    BY <2>1 DEF Perpendicular
<1>3. /\ bl \in 1 .. 2 /\ call.key \in Keys /\ call.box \in Box
      /\ call.num \in [1 .. 2 -> Nat \ {0}] /\ call.sp \in [1 .. 2 -> Int]
      /\ call.box_ext \in Wish /\ call.tr_ext \in Wish
  BY BoxParts
<1>4. ASSUME NEW i \in Copies(t)
      PROVE  /\ wire(i).key = LayerAt(t.level, HtrOf(t, i)) /\ wire(i).key \in Keys
             /\ wire(i).box[pd] = Edges(t, i)
  <2>. HIDE DEF start
  <2>1. /\ wire(i).key = LayerAt(t.level, HtrOf(t, i)) /\ wire(i).key \in Keys
        /\ wire(i).box = MakeBox(d, start[2], Edges(t, i))
    BY <1>1, WireParts
  <2>. HIDE DEF wire, d, pd
  <2>2. QED
    BY <1>2, <2>1 DEF MakeBox
<1>5. ASSUME NEW i \in Copies(t)
      PROVE  id(i) = ViaIdOf(bl, call.key, wire(i).key) /\ id(i)[1] \in Keys /\ id(i)[2] \in Keys
  BY <1>3, <1>4 DEF ViaIdOf
<1>6. ViasTyped(UNION {new(i) : i \in done})
  <2>1. ASSUME NEW i \in done, NEW v \in new(i)
        PROVE  v.sound \in BOOLEAN /\ \A l \in 1 .. 2 : v.id[l] \in Keys
    <3>1. sound \in BOOLEAN
      OBVIOUS
    <3>2. id(i)[1] \in Keys /\ id(i)[2] \in Keys
      BY <1>5
    <3>. HIDE DEF id, sound, metal, overlap, along, done
    <3>3. v.id = id(i) /\ v.sound = sound
      BY ViaArrAlike
    <3>. HIDE DEF new
    <3>4. QED
      BY <3>1, <3>2, <3>3
  <2>. HIDE DEF new, done
  <2>2. QED
    BY <2>1 DEF ViasTyped
<1>7. OnKeys(rects')
  <2>1. OnKeys(boxes)
    <3> DEFINE mb == MakeBox(d, call.box[d], across)
    <3>. HIDE DEF along, call, mb
    <3>1. \A x \in RectArr(call.key, mb, along, call.sp) : x.key = call.key
      BY RectArrAlike
    <3>2. \A x \in boxes : x.key = call.key
      BY <3>1 DEF mb
    <3>. HIDE DEF boxes
    <3>3. QED
      BY <1>3, <3>2 DEF OnKeys
  <2>2. OnKeys(Wires(t, length))
    BY <1>1, WireDrawn
  <2>. HIDE DEF boxes, length, whole
  <2>3. QED
    BY <1>1, <2>1, <2>2 DEF DrawnInv, OnKeys
<1>8. ASSUME sound PROVE \A i \in done : \A v \in new(i) : Covers(v, rects')
  <2>1. bl = pd /\ call.num[d] = 1 /\ Dim(call.box)[d] % 2 = 0 /\ whole
    BY <1>8
  <2>2. along[1] = 1 /\ along[2] = 1
    BY <2>1
  <2>3. rects' = rects \cup boxes \cup Wires(t, length)
    <3>. HIDE DEF whole, boxes, length
    <3>1. QED
      BY <1>1, <2>1
  <2>4. bl = pd /\ tl = d /\ Dim(call.box)[d] % 2 = 0
    BY <1>2, <2>1
  <2>5. ASSUME NEW i \in Copies(t) PROVE id(i) \in ViaIds
    <3>1. i \in done
      BY <2>1
    <3>2. i \in 0 .. i
      BY ArrayParts
    <3>. HIDE DEF id
    <3>3. QED
      BY <3>1, <3>2
  <2>6. ASSUME NEW i \in Copies(t)
        PROVE  /\ overlap(i) \in Box /\ overlap(i)[d] = call.box[d] /\ overlap(i)[pd] = Edges(t, i)
               /\ metal(i) \in [1 .. 2 -> [1 .. 2 -> Nat]]
               /\ \A k \in 1 .. 2 : /\ Within(Around(Center(overlap(i)), metal(i)[k])[k], reach(i, k))
                                    /\ reach(i, k)[1] \in Int /\ reach(i, k)[2] \in Int
               /\ Within(Around(Center(overlap(i)), metal(i)[pd])[d], call.box[d])
               /\ Within(Around(Center(overlap(i)), metal(i)[d])[pd], Edges(t, i))
               /\ \A l, k \in 1 .. 2 : Around(Center(overlap(i)), metal(i)[l])[k] \in Interval
    <3>1. id(i) \in ViaIds
      BY <2>5
    <3>2. overlap(i) = MakeBox(d, call.box[d], Edges(t, i))
      BY <1>4
    <3>3. metal(i) = ViaMetal(id(i), Dim(overlap(i)), IF pd = 1 THEN pd ELSE d, TRUE)
      BY <2>4
    <3> DEFINE o == MakeBox(d, call.box[d], Edges(t, i))
               m == ViaMetal(id(i), Dim(o), IF 3 - d = 1 THEN 3 - d ELSE d, TRUE)
    <3>4. /\ o \in Box /\ o[d] = call.box[d] /\ o[3 - d] = Edges(t, i)
          /\ \A k \in 1 .. 2 : o[k][1] <= o[k][2]
          /\ Dim(o)[3 - d] % 2 = 0 /\ Dim(o)[d] = Dim(call.box)[d]
          /\ m \in [1 .. 2 -> [1 .. 2 -> Nat]]
          /\ m[3 - d][d] <= Dim(o)[d] /\ m[d][3 - d] <= Dim(o)[3 - d]
      <4>. HIDE DEF id
      <4>1. QED
        BY <1>1, <3>1, BoxVia
    <3>5. m = metal(i) /\ o = overlap(i)
      <4>. HIDE DEF d, pd, overlap, id
      <4>1. QED
        BY <1>2, <3>2, <3>3
    <3>. HIDE DEF o, m
    <3>6. /\ overlap(i) \in Box /\ overlap(i)[d] = call.box[d] /\ overlap(i)[pd] = Edges(t, i)
          /\ metal(i) \in [1 .. 2 -> [1 .. 2 -> Nat]]
          /\ metal(i)[pd][d] <= Dim(overlap(i))[d] /\ metal(i)[d][pd] <= Dim(overlap(i))[pd]
          /\ \A k \in 1 .. 2 : overlap(i)[k][1] <= overlap(i)[k][2]
          /\ Dim(overlap(i))[pd] % 2 = 0 /\ Dim(overlap(i))[d] = Dim(call.box)[d]
      <4>. HIDE DEF d, pd, overlap, metal, call
      <4>1. QED
        BY <1>2, <3>4, <3>5
    <3>7. /\ ext(i)[pd] = Half(metal(i)[pd][pd] - Dim(overlap(i))[pd])
          /\ ext(i)[d] = Half(metal(i)[d][d] - Dim(overlap(i))[d])
      <4>. HIDE DEF d, pd, overlap, metal, bl
      <4>1. QED
        BY <1>2, <2>4 DEF ViaExt
    <3>8. \A k \in 1 .. 2 : Dim(overlap(i))[k] % 2 = 0
      <4>. HIDE DEF d, pd, overlap, call
      <4>1. \A k \in 1 .. 2 : k = d \/ k = pd
        BY <1>2
      <4>2. QED
        BY <2>4, <3>6, <4>1
    <3>. HIDE DEF d, pd, overlap, metal, ext, call
    <3>9. /\ \A k \in 1 .. 2 : Within(Around(Center(overlap(i)), metal(i)[k])[k], reach(i, k))
          /\ \A k \in 1 .. 2 : /\ overlap(i)[k][1] - ext(i)[k] \in Int
                               /\ overlap(i)[k][2] + ext(i)[k] \in Int
          /\ Within(Around(Center(overlap(i)), metal(i)[pd])[d], overlap(i)[d])
          /\ Within(Around(Center(overlap(i)), metal(i)[d])[pd], overlap(i)[pd])
          /\ \A l, k \in 1 .. 2 : Around(Center(overlap(i)), metal(i)[l])[k] \in Interval
      BY <1>2, <3>6, <3>7, <3>8, MetalsInBox
    <3>10. \A k \in 1 .. 2 : reach(i, k)[1] \in Int /\ reach(i, k)[2] \in Int
      BY <3>9
    <3>. HIDE DEF reach
    <3>11. QED
      BY <3>6, <3>9, <3>10
  <2>. HIDE DEF overlap, metal, ext, id, wire
  <2>7. ASSUME NEW k \in 1 .. 2
        PROVE  /\ hull(k, k) \in Interval
               /\ \A i \in Copies(t) : reach(i, k) \in Interval /\ Within(reach(i, k), hull(k, k))
    <3> DEFINE from == [i \in Copies(t) |-> reach(i, k)[1]]
               to == [i \in Copies(t) |-> reach(i, k)[2]]
    <3>1. \A i \in Copies(t) : reach(i, k) = <<reach(i, k)[1], reach(i, k)[2]>>
      OBVIOUS
    <3>2. \A i \in Copies(t) : reach(i, k)[1] \in Int /\ reach(i, k)[2] \in Int
      <4>. HIDE DEF reach, t
      <4>1. QED
        BY <2>6
    <3>3. start[k] \in Interval
      <4>1. Span(call.box[pd], call.num[pd], call.sp[pd]) \in Interval
        <5>1. call.box[pd] \in Interval /\ call.num[pd] \in Nat /\ call.sp[pd] \in Int
          BY <1>2, <1>3 DEF Box
        <5>2. QED
          BY <5>1, SpanTyped
      <4>2. Span(call.box[d], call.num[d], call.sp[d]) \in Interval
        <5>1. call.box[d] \in Interval /\ call.num[d] \in Nat /\ call.sp[d] \in Int
          BY <1>2, <1>3 DEF Box
        <5>2. QED
          BY <5>1, SpanTyped
      <4>3. QED
        BY <4>1, <4>2
    <3>4. start[k][1] \in Int /\ start[k][2] \in Int
      BY <3>3 DEF Interval
    <3>5. IsFiniteSet(Copies(t))
      BY ArrayParts
    <3>6. hull(k, k) = <<Min({reach(i, k)[1] : i \in Copies(t)} \cup {start[k][1]}),
                         Max({reach(i, k)[2] : i \in Copies(t)} \cup {start[k][2]})>>
      <4>1. \A S, T : S \cup T = T \cup S
        OBVIOUS
      <4>. HIDE DEF reach, start
      <4>2. QED
        BY <4>1
    <3>. HIDE DEF reach, start, t, hull
    <3>7. from \in [Copies(t) -> Int] /\ to \in [Copies(t) -> Int]
      BY <3>2
    <3>8. /\ {reach(i, k)[1] : i \in Copies(t)} = {from[i] : i \in Copies(t)}
          /\ {reach(i, k)[2] : i \in Copies(t)} = {to[i] : i \in Copies(t)}
      OBVIOUS
    <3>9. \A i \in Copies(t) : from[i] = reach(i, k)[1] /\ to[i] = reach(i, k)[2]
      OBVIOUS
    <3>. HIDE DEF from, to
    <3>10. /\ Min({from[i] : i \in Copies(t)} \cup {start[k][1]}) \in Int
           /\ \A i \in Copies(t) : Min({from[j] : j \in Copies(t)} \cup {start[k][1]}) <= from[i]
      BY <3>4, <3>5, <3>7, ExtremesOf
    <3>11. /\ Max({to[i] : i \in Copies(t)} \cup {start[k][2]}) \in Int
           /\ \A i \in Copies(t) : to[i] <= Max({to[j] : j \in Copies(t)} \cup {start[k][2]})
      BY <3>4, <3>5, <3>7, ExtremesOf
    <3>12. hull(k, k) = <<Min({from[i] : i \in Copies(t)} \cup {start[k][1]}),
                          Max({to[i] : i \in Copies(t)} \cup {start[k][2]})>>
      BY <3>6, <3>8
    <3>13. hull(k, k) \in Interval
      BY <3>10, <3>11, <3>12 DEF Interval
    <3>14. \A i \in Copies(t) : reach(i, k) \in Interval
      BY <3>1, <3>2 DEF Interval
    <3>15. \A i \in Copies(t) : Within(reach(i, k), hull(k, k))
      BY <3>9, <3>10, <3>11, <3>12 DEF Within
    <3>16. QED
      BY <3>13, <3>14, <3>15
  <2>8. /\ across \in Interval /\ Within(hull(pd, pd), across)
        /\ length \in Interval /\ Within(hull(d, d), length)
    <3>1. hull(pd, pd) \in Interval /\ hull(d, d) \in Interval
      BY <1>2, <2>7
    <3>2. across = Reach(hull(pd, pd), call.box_ext)
      BY <2>4
    <3>3. length = Lengthened(Reach(hull(d, d), call.tr_ext), TestKey(t.level),
                                WireSpan(info[t.level], t.ntr), call.mode)
      BY <2>4
    <3>4. WireSpan(info[t.level], t.ntr) \in Spans
      BY <1>1, SpanOf
    <3>5. MinLength(TestKey(t.level), WireSpan(info[t.level], t.ntr), call.mode = "MIDDLE") \in Nat
      <4>1. (call.mode = "MIDDLE") \in BOOLEAN
        OBVIOUS
      <4>2. QED
        BY <1>1, <3>4, <4>1, TechAssumption
    <3>. HIDE DEF hull, across, length, t, call
    <3>6. across \in Interval /\ Within(hull(pd, pd), across)
      BY <1>3, <3>1, <3>2, ReachGrows
    <3>7. /\ Reach(hull(d, d), call.tr_ext) \in Interval
          /\ Within(hull(d, d), Reach(hull(d, d), call.tr_ext))
      BY <1>3, <3>1, ReachGrows
    <3>8. length \in Interval /\ Within(Reach(hull(d, d), call.tr_ext), length)
      BY <3>3, <3>5, <3>7, LengthenedGrows
    <3>9. QED
      BY <3>1, <3>6, <3>7, <3>8, WithinTrans
  <2>9. ASSUME NEW i \in done, NEW v \in new(i) PROVE Covers(v, rects')
    <3> DEFINE o == overlap(i)
               m == metal(i)
               mb == MakeBox(d, call.box[d], across)
               at(l) == Around(Center(o), m[l])
    <3>1. i \in Copies(t)
      OBVIOUS
    <3>2. /\ o \in Box /\ m \in [1 .. 2 -> [1 .. 2 -> Nat]]
          /\ \A k \in 1 .. 2 : Within(at(k)[k], reach(i, k))
          /\ Within(at(pd)[d], call.box[d]) /\ Within(at(d)[pd], Edges(t, i))
          /\ \A l, k \in 1 .. 2 : at(l)[k] \in Interval
      <4>. HIDE DEF reach, t, d, pd, call
      <4>1. QED
        BY <2>6, <3>1
    <3>3. Center(o) \in [1 .. 2 -> Int]
      <4>. HIDE DEF o
      <4>1. \A k \in 1 .. 2 : o[k][1] \in Int /\ o[k][2] \in Int
        BY <3>2 DEF Box, Interval
      <4>2. ASSUME NEW k \in 1 .. 2 PROVE (o[k][1] + o[k][2]) \div 2 \in Int
        <5>1. o[k][1] \in Int /\ o[k][2] \in Int
          BY <4>1
        <5>2. \A x, y \in Int : (x + y) \div 2 \in Int
          OBVIOUS
        <5>3. QED
          BY <5>1, <5>2
      <4>3. QED
        BY <4>2 DEF Center
    <3>4. v = Via(id(i), m, Plus(Center(o), <<0 * call.sp[1], 0 * call.sp[2]>>), sound)
      <4>. HIDE DEF along, m, o, call, sound, done
      <4>1. PICK x \in 0 .. along[1] - 1, y \in 0 .. along[2] - 1 :
               v = Via(id(i), m, Plus(Center(o), <<x * call.sp[1], y * call.sp[2]>>), sound)
        BY ViaArrAlike DEF m, o
      <4>. HIDE DEF new
      <4>2. x = 0 /\ y = 0
        BY <2>2, <4>1
      <4>3. QED
        BY <4>1, <4>2
    <3>5. v.id = id(i) /\ \A l \in 1 .. 2 : v.metals[l] = at(l)
      <4>. HIDE DEF id, m, o, call, sound
      <4>1. v.id = id(i)
        BY <3>4 DEF Via
      <4>2. \A l \in 1 .. 2 : v.metals[l] = Around(Plus(Center(o), <<0 * call.sp[1], 0 * call.sp[2]>>), m[l])
        BY <3>4 DEF Via
      <4>3. ASSUME NEW l \in 1 .. 2
            PROVE  Around(Plus(Center(o), <<0 * call.sp[1], 0 * call.sp[2]>>), m[l]) = at(l)
        <5>1. m[l] \in [1 .. 2 -> Nat]
          BY <3>2
        <5>2. QED
          BY <1>3, <3>2, <3>3, <5>1, NotMoved
      <4>4. QED
        BY <4>1, <4>2, <4>3
    <3>6. mb \in Box /\ call.box[d] \in Interval
      <4>. HIDE DEF across, d, call
      <4>1. call.box[d] \in Interval
        BY <1>2, <1>3 DEF Box
      <4>2. QED
        BY <1>2, <2>8, <4>1 DEF MakeBox, Box
    <3>7. Shape(call.key, mb) \in boxes
      <4>1. Shift(mb, <<0 * call.sp[1], 0 * call.sp[2]>>) = mb
        <5>. HIDE DEF mb
        <5>1. QED
          BY <1>3, <3>3, <3>6, NotMoved
      <4>2. Shape(call.key, Shift(mb, <<0 * call.sp[1], 0 * call.sp[2]>>)) \in boxes
        <5>. HIDE DEF along, across, call, d
        <5>1. QED
          BY <2>2, RectArrAlike
      <4>3. QED
        BY <4>1, <4>2
    <3>8. PICK r \in Wires(t, length) : /\ r.key = LayerAt(t.level, HtrOf(t, i))
                                        /\ r.box = MakeBox(d, length, Edges(t, i))
      <4>. HIDE DEF length
      <4>1. QED
        BY <1>1, <3>1, WireDrawn
    <3>9. id(i)[pd] = call.key /\ id(i)[d] = r.key
      <4>1. id(i) = ViaIdOf(pd, call.key, r.key)
        BY <1>4, <1>5, <2>4, <3>1, <3>8
      <4>. HIDE DEF pd, d, call
      <4>2. CASE pd = 1
        <5>1. d = 2
          BY <1>2, <4>2
        <5>2. QED
          BY <4>1, <4>2, <5>1 DEF ViaIdOf
      <4>3. CASE pd = 2
        <5>1. d = 1
          BY <1>2, <4>3
        <5>2. QED
          BY <4>1, <4>3, <5>1 DEF ViaIdOf
      <4>4. QED
        BY <1>2, <4>2, <4>3
    <3>. HIDE DEF o, m, at
    <3>10. Within(at(pd)[pd], across)
      <4>. HIDE DEF reach, hull, across, t, d, pd
      <4>1. Within(at(pd)[pd], reach(i, pd)) /\ at(pd)[pd] \in Interval
        BY <1>2, <3>2
      <4>2. /\ reach(i, pd) \in Interval /\ Within(reach(i, pd), hull(pd, pd))
            /\ hull(pd, pd) \in Interval
        BY <1>2, <2>7, <3>1
      <4>3. QED
        BY <2>8, <4>1, <4>2, WithinTrans
    <3>11. Within(at(d)[d], length)
      <4>. HIDE DEF reach, hull, length, t, d, pd
      <4>1. Within(at(d)[d], reach(i, d)) /\ at(d)[d] \in Interval
        BY <1>2, <3>2
      <4>2. /\ reach(i, d) \in Interval /\ Within(reach(i, d), hull(d, d))
            /\ hull(d, d) \in Interval
        BY <1>2, <2>7, <3>1
      <4>3. QED
        BY <2>8, <4>1, <4>2, WithinTrans
    <3>. HIDE DEF d, pd, across, length, boxes
    <3>12. Inside(at(pd), mb)
      BY <1>2, <3>2, <3>10, InMadeBox DEF mb
    <3>13. Inside(at(d), r.box)
      BY <1>2, <3>2, <3>8, <3>11, InMadeBox
    <3>14. Shape(call.key, mb).key = call.key /\ Shape(call.key, mb).box = mb
      BY DEF Shape
    <3>15. Shape(call.key, mb) \in rects' /\ r \in rects'
      BY <2>3, <3>7, <3>8
    <3>16. \A l \in 1 .. 2 : l = d \/ l = pd
      BY <1>2
    <3>. HIDE DEF mb, id, call
    <3>17. QED
      BY <1>2, <3>5, <3>9, <3>12, <3>13, <3>14, <3>15, <3>16 DEF Covers
  <2>10. QED
    BY <2>9
<1>9. AllCovered(UNION {new(i) : i \in done}, rects')
  <2>1. ASSUME NEW i \in done, NEW v \in new(i), v.sound PROVE Covers(v, rects')
    <3>. HIDE DEF sound, done, id, metal, overlap, along
    <3>1. v.sound = sound
      BY ViaArrAlike
    <3>. HIDE DEF new
    <3>2. QED
      BY <1>8, <2>1, <3>1
  <2>. HIDE DEF new, done
  <2>2. QED
    BY <2>1 DEF AllCovered
<1> DEFINE vs == UNION {new(i) : i \in done}
<1>. HIDE DEF vs, whole, boxes, length
<1>10. ViasTyped(vias') /\ AllCovered(vias', rects')
  <2>1. vias' = vias \cup vs /\ ViasTyped(vs) /\ AllCovered(vs, rects')
    BY <1>1, <1>6, <1>9 DEF vs
  <2>2. rects' = rects \cup rects'
    BY <1>1
  <2>3. AllCovered(vs, rects \cup rects') /\ AllCovered(vias, rects)
    BY <2>1, <2>2 DEF DrawnInv
  <2>4. AllCovered(vias \cup vs, rects \cup rects')
    BY <2>3, CoverGrows
  <2>5. ViasTyped(vias \cup vs)
    BY <2>1 DEF DrawnInv, ViasTyped
  <2>6. QED
    BY <2>1, <2>2, <2>4, <2>5
<1>11. QED
  BY <1>1, <1>7, <1>10 DEF DrawnInv

LEMMA ViaParts ==
  ASSUME NEW v \in DOMAIN ViaCalls
  PROVE  LET call == ViaCalls[v]
             metal == ViaMetal(call.id, call.dim, 1, TRUE)
         IN  /\ call.id \in Keys \X Keys /\ call.at \in Point /\ call.layers \in BOOLEAN
             /\ call.num \in [1 .. 2 -> Nat \ {0}] /\ call.sp \in [1 .. 2 -> Int]
             /\ metal \in [1 .. 2 -> [1 .. 2 -> Nat]]
<1>1. ViaCalls[v] \in [id : Keys \X Keys, at : Point, dim : [1 .. 2 -> Nat], layers : BOOLEAN,
                       num : [1 .. 2 -> Nat \ {0}], sp : [1 .. 2 -> Int]]
  BY WiresAssumption
<1>2. MetalsFit(ViaCalls[v].id, ViaCalls[v].dim, 1, TRUE)
  BY TechAssumption
<1>3. QED
  BY <1>1, <1>2 DEF MetalsFit

\* The metals of add_via_arr are drawn themselves.
LEMMA ViaArrDrawn ==
  ASSUME DrawnInv, NEW v \in DOMAIN ViaCalls, AddViaArr(v)
  PROVE  DrawnInv'
<1> DEFINE call == ViaCalls[v]
           metal == ViaMetal(call.id, call.dim, 1, TRUE)
           new == ViaArr(call.id, metal, call.at, call.num, call.sp, call.layers)
           shape(x, l) == Shape(x.id[l], x.metals[l])
           shapes == {shape(x, l) : x \in new, l \in 1 .. 2}
<1>1. /\ vias' = vias \cup new /\ pins' = pins
      /\ rects' = IF ~call.layers THEN rects ELSE rects \cup shapes
  BY DEF AddViaArr
<1>2. /\ call.id[1] \in Keys /\ call.id[2] \in Keys /\ call.at[1] \in Int /\ call.at[2] \in Int
      /\ call.layers \in BOOLEAN /\ call.num \in [1 .. 2 -> Nat \ {0}] /\ call.sp \in [1 .. 2 -> Int]
      /\ metal \in [1 .. 2 -> [1 .. 2 -> Nat]]
  <2>1. /\ call.id \in Keys \X Keys /\ call.at \in Point /\ call.layers \in BOOLEAN
        /\ call.num \in [1 .. 2 -> Nat \ {0}] /\ call.sp \in [1 .. 2 -> Int]
        /\ metal \in [1 .. 2 -> [1 .. 2 -> Nat]]
    BY ViaParts
  <2>. HIDE DEF metal, call
  <2>2. QED
    BY <2>1 DEF Point
<1>. HIDE DEF call, metal
<1>3. ASSUME NEW x \in new
      PROVE  /\ x.id = call.id /\ x.sound = call.layers
             /\ \A l \in 1 .. 2 : Inside(x.metals[l], x.metals[l])
  <2>1. x.id = call.id /\ x.sound = call.layers
    BY ViaArrAlike
  <2>2. PICK i \in 0 .. call.num[1] - 1, j \in 0 .. call.num[2] - 1 :
              x = Via(call.id, metal, Plus(call.at, <<i * call.sp[1], j * call.sp[2]>>), call.layers)
    BY ViaArrAlike
  <2> DEFINE at == Plus(call.at, <<i * call.sp[1], j * call.sp[2]>>)
  <2>3. \A k \in 1 .. 2 : at[k] \in Int
    <3>1. i \in Int /\ j \in Int /\ call.sp[1] \in Int /\ call.sp[2] \in Int
      BY <1>2, <2>2
    <3>2. i * call.sp[1] \in Int /\ j * call.sp[2] \in Int
      BY <3>1
    <3>3. QED
      BY <1>2, <3>2 DEF Plus
  <2>. HIDE DEF at
  <2>4. ASSUME NEW l \in 1 .. 2 PROVE Inside(x.metals[l], x.metals[l])
    <3>1. x.metals[l] = Around(at, metal[l])
      BY <2>2 DEF Via, at
    <3>2. ASSUME NEW k \in 1 .. 2
          PROVE  Around(at, metal[l])[k][1] \in Int /\ Around(at, metal[l])[k][2] \in Int
      <4>1. at[k] \in Int /\ metal[l][k] \in Nat
        BY <1>2, <2>3
      <4>2. metal[l][k] \div 2 \in Int
        BY <4>1
      <4>3. QED
        BY <4>1, <4>2 DEF Around
    <3>3. QED
      BY <3>1, <3>2 DEF Inside
  <2>5. QED
    BY <2>1, <2>4
<1>. HIDE DEF new
<1>4. ViasTyped(vias')
  <2>1. \A x \in new : x.sound \in BOOLEAN /\ x.id[1] \in Keys /\ x.id[2] \in Keys
    BY <1>2, <1>3
  <2>2. ViasTyped(new)
    BY <2>1 DEF ViasTyped
  <2>3. QED
    BY <1>1, <2>2 DEF DrawnInv, ViasTyped
<1>5. OnKeys(rects')
  <2>1. ASSUME NEW r \in shapes PROVE r.key \in Keys
    <3>1. PICK x \in new, l \in 1 .. 2 : r = shape(x, l)
      <4>. HIDE DEF shape
      <4>1. QED
        OBVIOUS
    <3>2. r.key = x.id[l]
      BY <3>1 DEF Shape
    <3>3. x.id[l] \in Keys
      BY <1>2, <1>3
    <3>4. QED
      BY <3>2, <3>3
  <2>. HIDE DEF shapes
  <2>2. QED
    BY <1>1, <2>1 DEF DrawnInv, OnKeys
<1>6. AllCovered(new, rects')
  <2>1. ASSUME NEW x \in new, x.sound, NEW l \in 1 .. 2
        PROVE  \E r \in rects' : r.key = x.id[l] /\ Inside(x.metals[l], r.box)
    <3>1. rects' = rects \cup shapes
      BY <1>1, <1>3, <2>1
    <3>2. shape(x, l) \in shapes
      <4>. HIDE DEF shape
      <4>1. QED
        OBVIOUS
    <3>3. shape(x, l).key = x.id[l] /\ shape(x, l).box = x.metals[l]
      BY DEF Shape
    <3>4. Inside(x.metals[l], x.metals[l])
      BY <1>3
    <3>. HIDE DEF shape, shapes
    <3>5. QED
      BY <3>1, <3>2, <3>3, <3>4
  <2>2. QED
    BY <2>1 DEF AllCovered, Covers
<1>. HIDE DEF shapes
<1>7. AllCovered(vias', rects')
  <2>1. rects' = rects \cup rects'
    BY <1>1
  <2>2. AllCovered(new, rects \cup rects') /\ AllCovered(vias, rects)
    BY <1>6, <2>1 DEF DrawnInv
  <2>3. AllCovered(vias \cup new, rects \cup rects')
    BY <2>2, CoverGrows
  <2>4. QED
    BY <1>1, <2>1, <2>3
<1>8. QED
  BY <1>1, <1>4, <1>5, <1>7 DEF DrawnInv

LEMMA InitDrawn == Init => DrawnInv
BY DEF Init, DrawnInv, OnKeys, ViasTyped, AllCovered

LEMMA DrawnStep ==
  ASSUME GridInv, DrawnInv, [Next]_vars
  PROVE  DrawnInv'
<1>1. ASSUME UNCHANGED cv PROVE DrawnInv'
  BY <1>1 DEF cv, DrawnInv, OnKeys, ViasTyped, AllCovered, Covers
<1>2. CASE DrawCall
  BY <1>2, WarrDrawn, PinsDrawn, ViasDrawn, ConnectedDrawn, BoxDrawn, ViaArrDrawn DEF DrawCall
<1>3. QED
  BY <1>1, <1>2 DEF Next, vars

-----------------------------------------------------------------------------
(***************************************************************************)
(* Least common multiples.  A number that a and b divide is a multiple of  *)
(* the least such number, m: what is left of dividing it by m is one that  *)
(* both divide, and smaller.  a * b is a multiple of m, the factor divides *)
(* a and b, and the greatest number that does gives no more than m.        *)
(***************************************************************************)

Positive == Nat \ {0}

\* Dividing is having a quotient.
LEMMA DividesMeans ==
  ASSUME NEW a \in Positive, NEW n \in Nat
  PROVE  /\ n \div a \in Nat /\ n % a \in 0 .. a - 1 /\ n = a * (n \div a) + (n % a)
         /\ Divides(a, n) <=> \E k \in Nat : n = a * k
         /\ Divides(a, n) => n = a * (n \div a)
<1>1. /\ n \div a \in Nat /\ n % a \in 0 .. a - 1 /\ n = a * (n \div a) + (n % a)
  <2>1. a \in Int /\ a > 0 /\ n \in Int /\ n >= 0
    BY DEF Positive
  <2>2. \A x, y \in Int : y > 0 => x % y \in 0 .. y - 1 /\ x = y * (x \div y) + (x % y)
    OBVIOUS
  <2>3. \A x, y \in Int : y > 0 /\ x >= 0 => x \div y \in Nat
    OBVIOUS
  <2>. QED BY <2>1, <2>2, <2>3
<1>2. ASSUME Divides(a, n) PROVE n \div a \in Nat /\ n = a * (n \div a)
  <2> DEFINE q == n \div a
  <2>1. n = a * q + 0 /\ a * q \in Int /\ q \in Nat
    BY <1>1, <1>2 DEF Divides, Positive
  <2> HIDE DEF q
  <2>2. n = a * q
    BY <2>1
  <2>. QED BY <2>1, <2>2 DEF q
<1>3. ASSUME NEW k \in Nat, n = a * k PROVE Divides(a, n)
  <2> DEFINE d == n \div a
             r == n % a
  <2>1. d \in Nat /\ r \in 0 .. a - 1 /\ a * k = a * d + r /\ a \in Nat /\ a > 0
    BY <1>1, <1>3 DEF Positive
  <2>2. r = a * (k - d)
    BY <2>1
  <2>3. ~(k - d >= 1)
    <3>1. k - d >= 1 => a * (k - d) >= a
      BY <2>1
    <3>2. QED BY <2>1, <2>2, <3>1
  <2>4. ~(k - d <= -1)
    <3>1. k - d <= -1 => a * (k - d) <= -a
      BY <2>1
    <3>2. QED BY <2>1, <2>2, <3>1
  <2>5. k - d = 0
    BY <2>1, <2>3, <2>4
  <2>6. r = 0
    BY <2>2, <2>5, <2>1
  <2>. QED BY <2>6 DEF Divides
<1>4. QED BY <1>1, <1>2, <1>3

LEMMA DividesChain ==
  ASSUME NEW a \in Positive, NEW b \in Positive, NEW n \in Nat, Divides(a, b), Divides(b, n)
  PROVE  Divides(a, n)
<1>1. PICK k \in Nat : b = a * k
  BY DividesMeans DEF Positive
<1>2. PICK m \in Nat : n = b * m
  BY DividesMeans
<1>3. n = a * (k * m) /\ k * m \in Nat
  BY <1>1, <1>2 DEF Positive
<1>4. QED BY <1>3, DividesMeans

\* What is left of a multiple of a after dividing it by a multiple of a is one.
LEMMA DividesRest ==
  ASSUME NEW a \in Positive, NEW l \in Positive, NEW n \in Nat, Divides(a, l), Divides(a, n)
  PROVE  Divides(a, n % l)
<1>1. PICK k \in Nat : l = a * k
  BY DividesMeans DEF Positive
<1>2. PICK m \in Nat : n = a * m
  BY DividesMeans
<1> DEFINE q == n \div l
<1>3. q \in Nat /\ n % l \in Nat /\ n = l * q + (n % l)
  BY DividesMeans
<1> HIDE DEF q
<1>4. n % l = a * (m - k * q) /\ m - k * q \in Int
  <2>1. a \in Int
    BY DEF Positive
  <2>2. n % l = a * m - (a * k) * q
    <3>1. \A x, y, z \in Int : x = y + z => z = x - y
      OBVIOUS
    <3>2. (a * k) * q \in Int /\ n \in Int /\ n = (a * k) * q + (n % l)
      BY <1>1, <1>3, <2>1
    <3>. QED BY <1>2, <1>3, <3>1, <3>2
  <2>3. (a * k) * q = a * (k * q) /\ a * m - a * (k * q) = a * (m - k * q)
    BY <2>1, <1>3
  <2>. QED BY <2>2, <2>3, <1>3
<1>5. m - k * q >= 0
  <2>1. \A x \in Int : x <= -1 => a * x <= -a
    BY DEF Positive
  <2>2. m - k * q <= -1 => n % l <= -a
    BY <1>4, <2>1
  <2>. QED BY <1>3, <1>4, <2>2 DEF Positive
<1>6. QED BY <1>3, <1>4, <1>5, DividesMeans

\* The quotient of the product by the greatest common divisor is the least common
\* multiple, and divides every other one.
LEMMA LcmExact ==
  ASSUME NEW a \in Positive, NEW b \in Positive
  PROVE  /\ Lcm(a, b) \in Positive
         /\ \A n \in Nat : Divides(Lcm(a, b), n) <=> Divides(a, n) /\ Divides(b, n)
<1> DEFINE Common == {n \in Positive : Divides(a, n) /\ Divides(b, n)}
           D == {d \in 1 .. a : a % d = 0 /\ b % d = 0}
           g == Max(D)
<1>0. a \in Nat /\ b \in Nat /\ a > 0 /\ b > 0 /\ a \in Positive /\ b \in Positive
  BY DEF Positive
<1>1. a * b \in Common
  <2>1. a * b \in Positive
    BY <1>0 DEF Positive
  <2>2. a * b = b * a /\ a * b \in Nat
    BY <1>0
  <2>. QED BY <1>0, <2>1, <2>2, DividesMeans
<1>2. PICK m \in Common : \A n \in Common : m <= n
  <2>1. Common \subseteq Nat /\ Common # {}
    BY <1>1 DEF Positive
  <2>. HIDE DEF Common
  <2>. QED BY <2>1, LeastElement
<1>3. m \in Positive /\ m \in Nat /\ Divides(a, m) /\ Divides(b, m)
  BY <1>2 DEF Positive
<1>4. ASSUME NEW n \in Nat, Divides(a, n), Divides(b, n) PROVE Divides(m, n)
  <2>1. n % m \in 0 .. m - 1 /\ Divides(a, n % m) /\ Divides(b, n % m)
    BY <1>3, <1>4, DividesMeans, DividesRest
  <2>2. n % m \in Nat /\ n % m < m
    BY <2>1, <1>3
  <2>3. n % m \notin Common
    BY <1>2, <1>3, <2>2
  <2>. QED BY <2>1, <2>2, <2>3 DEF Positive, Divides
<1>5. PICK d \in Nat : a * b = m * d
  <2>1. a * b \in Nat /\ Divides(m, a * b)
    BY <1>1, <1>4 DEF Positive
  <2>. QED BY <1>3, <2>1, DividesMeans
<1>6. d \in Positive
  BY <1>0, <1>3, <1>5, <1>1 DEF Positive
<1>7. PICK i \in Nat : m = a * i
  BY <1>3, DividesMeans
<1>8. PICK j \in Nat : m = b * j
  BY <1>3, DividesMeans
<1>9. b = d * i
  <2>1. a * b = a * (i * d)
    BY <1>5, <1>7, <1>0
  <2>2. \A x, y \in Int : a * x = a * y => x = y
    BY <1>0
  <2>. QED BY <2>1, <2>2, <1>0
<1>10. a = d * j
  <2>1. b * a = b * (j * d)
    BY <1>5, <1>8, <1>0
  <2>2. \A x, y \in Int : b * x = b * y => x = y
    BY <1>0
  <2>. QED BY <2>1, <2>2, <1>0
<1>11. d \in D
  <2>1. Divides(d, a) /\ Divides(d, b)
    BY <1>0, <1>6, <1>9, <1>10, DividesMeans
  <2>2. d <= a
    <3>1. j >= 1
      BY <1>10, <1>0
    <3>2. \A x \in Nat : x >= 1 => d * x >= d
      BY <1>6
    <3>. QED BY <3>1, <3>2, <1>10
  <2>. QED BY <1>6, <2>1, <2>2, <1>0 DEF Divides, Positive
<1>12. g \in D /\ \A e \in D : g >= e
  <2>1. D \subseteq Int /\ IsFiniteSet(D) /\ D # {}
    <3>1. D \subseteq 1 .. a /\ 1 \in Int /\ a \in Int
      BY <1>0
    <3>. HIDE DEF D
    <3>. QED BY <3>1, <1>11, IntervalPart
  <2>. HIDE DEF D
  <2>. QED BY <2>1, Extremes
<1>13. g \in Positive /\ Divides(g, a) /\ Divides(g, b) /\ d <= g
  BY <1>0, <1>11, <1>12 DEF Positive, Divides
<1> HIDE DEF g, D
<1>14. PICK u \in Nat : a = g * u
  BY <1>13, <1>0, DividesMeans
<1>15. PICK v \in Nat : b = g * v
  BY <1>13, <1>0, DividesMeans
<1>16. a \div g = u
  <2> DEFINE w == a \div g
  <2>1. w \in Nat /\ a = g * w
    BY <1>13, <1>0, DividesMeans DEF Divides
  <2>. HIDE DEF w
  <2>2. \A x, y \in Int : g * x = g * y => x = y
    BY <1>13 DEF Positive
  <2>3. w = u
    BY <1>14, <2>1, <2>2
  <2>. QED BY <2>3 DEF w
<1>17. u * b \in Common
  <2>1. u >= 1 /\ u * b \in Positive
    <3>1. u # 0
      BY <1>14, <1>13, <1>0 DEF Positive
    <3>2. u >= 1
      BY <3>1
    <3>3. u * b >= 1 /\ u * b \in Nat
      BY <3>2, <1>0
    <3>. QED BY <3>2, <3>3 DEF Positive
  <2>2. u * b = b * u /\ u * b \in Nat
    BY <1>0
  <2>3. u * b = a * v
    <3>1. u * b = u * (g * v) /\ a * v = (g * u) * v
      BY <1>14, <1>15
    <3>2. u * (g * v) = (g * u) * v
      BY <1>13 DEF Positive
    <3>. QED BY <3>1, <3>2
  <2>. QED BY <1>0, <2>1, <2>2, <2>3, DividesMeans
<1>18. m <= u * b
  BY <1>2, <1>17
<1>19. g * (u * b) = m * d
  <2>1. g * (u * b) = (g * u) * b
    BY <1>13, <1>0 DEF Positive
  <2>. QED BY <2>1, <1>14, <1>5
<1>20. u * b = m
  <2>1. SUFFICES ASSUME u * b > m PROVE FALSE
    BY <1>18, <1>17, <1>3 DEF Positive
  <2>2. \A x, y \in Nat : x > y => g * x > g * y
    BY <1>13 DEF Positive
  <2>3. g * (u * b) > g * m
    BY <2>1, <2>2, <1>3, <1>0
  <2>4. \A x \in Nat : x >= d => m * x >= m * d
    BY <1>3, <1>6 DEF Positive
  <2>5. m * g >= m * d
    BY <2>4, <1>13 DEF Positive
  <2>6. m * g = g * m
    BY <1>3, <1>13 DEF Positive
  <2>7. m * d \in Nat /\ g * m \in Nat /\ g * (u * b) \in Nat
    BY <1>0, <1>3, <1>13, <1>5 DEF Positive
  <2>. QED BY <1>19, <2>3, <2>5, <2>6, <2>7
<1>21. Lcm(a, b) = m
  BY <1>16, <1>20 DEF Lcm, g, D
<1>22. ASSUME NEW n \in Nat, Divides(m, n) PROVE Divides(a, n) /\ Divides(b, n)
  BY <1>0, <1>3, <1>22, DividesChain
<1>. HIDE DEF Common
<1>23. QED BY <1>3, <1>4, <1>21, <1>22

\* The common multiples of a number and those of a set are the multiples of their fold.
LEMMA FoldExact ==
  ASSUME NEW start \in Positive, NEW U, U \subseteq Positive, IsFiniteSet(U)
  PROVE  /\ FoldSet(Lcm, start, U) \in Positive
         /\ \A n \in Nat : Divides(FoldSet(Lcm, start, U), n)
                            <=> Divides(start, n) /\ \A u \in U : Divides(u, n)
<1> DEFINE Parts == SUBSET U
           pick(s) == CHOOSE x \in s : TRUE
           Body(g, s) == IF s = {} THEN start ELSE Lcm(pick(s), g[s \ {pick(s)}])
           F == CHOOSE f : f = [s \in Parts |-> Body(f, s)]
           rank == [s \in Parts |-> Cardinality(s)]
           D == [q \in [Parts -> Positive] \X Parts |-> Body(q[1], q[2])]
<1>1. FoldSet(Lcm, start, U) = F[U]
  BY DEF FoldSet, MapThenFoldSet
<1>2. ASSUME NEW s \in Parts
      PROVE  /\ IsFiniteSet(s) /\ rank[s] \in Nat
             /\ s # {} => /\ pick(s) \in s /\ pick(s) \in Positive /\ s \ {pick(s)} \in Parts
                          /\ rank[s \ {pick(s)}] < rank[s]
  <2>1. IsFiniteSet(s) /\ Cardinality(s) \in Nat
    BY FS_Subset, FS_CardinalityType
  <2>2. ASSUME s # {}
        PROVE  /\ pick(s) \in s
               /\ s \ {pick(s)} \in Parts
    BY <2>2
  <2>. HIDE DEF pick
  <2>3. ASSUME s # {} PROVE Cardinality(s \ {pick(s)}) = Cardinality(s) - 1
    BY <2>1, <2>2, <2>3, FS_RemoveElement
  <2>. QED BY <2>1, <2>2, <2>3
<1>. HIDE DEF pick
<1>3. ASSUME NEW g \in [Parts -> Positive], NEW s \in Parts
      PROVE  D[<<g, s>>] = Body(g, s) /\ Body(g, s) \in Positive
  <2>1. s # {} => Lcm(pick(s), g[s \ {pick(s)}]) \in Positive
    <3>1. s # {} => pick(s) \in Positive /\ g[s \ {pick(s)}] \in Positive
      <4>. HIDE DEF Parts
      <4>. QED BY <1>2
    <3>. QED BY <3>1, LcmExact
  <2>2. Body(g, s) \in Positive
    BY <2>1
  <2>. HIDE DEF Body, Parts
  <2>. QED BY <2>2
<1>4. LooksDown(Parts, Positive, rank, D)
  <2>1. rank \in [Parts -> Nat]
    <3>. HIDE DEF Parts
    <3>. QED BY <1>2
  <2>2. D \in [[Parts -> Positive] \X Parts -> Positive]
    <3>. HIDE DEF Body, Parts
    <3>. QED BY <1>3
  <2>3. ASSUME NEW g \in [Parts -> Positive], NEW h \in [Parts -> Positive], NEW s \in Parts,
               \A t \in Parts : rank[t] < rank[s] => g[t] = h[t]
        PROVE  D[<<g, s>>] = D[<<h, s>>]
    <3>. HIDE DEF rank, Parts
    <3>1. s # {} => g[s \ {pick(s)}] = h[s \ {pick(s)}]
      BY <1>2, <2>3
    <3>2. Body(g, s) = Body(h, s)
      BY <3>1
    <3>. HIDE DEF D, Body
    <3>. QED BY <3>2, <1>3
  <2>. HIDE DEF rank, D, Body, Parts
  <2>. QED BY <2>1, <2>2, <2>3 DEF LooksDown
<1>5. F \in [Parts -> Positive] /\ \A s \in Parts : F[s] = Body(F, s)
  <2>0. Positive # {}
    BY DEF Positive
  <2>. HIDE DEF Parts, rank, D, Body
  <2>1. PICK f \in [Parts -> Positive] : \A s \in Parts : f[s] = D[<<f, s>>]
    BY <1>4, <2>0, RecursiveExists
  <2>2. f = [s \in Parts |-> Body(f, s)]
    BY <2>1, <1>3
  <2>3. F = [s \in Parts |-> Body(F, s)]
    BY <2>2
  <2>. HIDE DEF F
  <2>4. \A s \in Parts : F[s] = Body(F, s)
    BY <2>3
  <2>5. ASSUME NEW s \in Parts PROVE F[s] \in Positive
    <3> DEFINE Bad == {rank[t] : t \in {t \in Parts : F[t] \notin Positive}}
    <3>1. Bad \subseteq Nat
      BY <1>2
    <3>2. SUFFICES ASSUME Bad # {} PROVE FALSE
      BY <3>1
    <3>3. PICK r \in Bad : \A k \in Bad : r <= k
      <4>. HIDE DEF Bad
      <4>. QED BY <3>1, <3>2, LeastElement
    <3>4. PICK t \in Parts : rank[t] = r /\ F[t] \notin Positive
      OBVIOUS
    <3>5. t # {}
      BY <2>4, <3>4 DEF Body
    <3>6. F[t \ {pick(t)}] \in Positive
      <4>1. t \ {pick(t)} \in Parts /\ rank[t \ {pick(t)}] < rank[t] /\ rank[t] \in Nat
            /\ rank[t \ {pick(t)}] \in Nat
        BY <1>2, <3>5
      <4>2. ~(r <= rank[t \ {pick(t)}])
        BY <3>4, <4>1
      <4>. QED BY <3>3, <4>1, <4>2
    <3>. QED BY <1>2, <2>4, <3>4, <3>5, <3>6, LcmExact DEF Body
  <2>. QED BY <2>3, <2>4, <2>5
<1>. HIDE DEF F
<1> DEFINE Right(s) == \A n \in Nat : Divides(F[s], n)
                                       <=> Divides(start, n) /\ \A u \in s : Divides(u, n)
<1>6. ASSUME NEW s \in Parts PROVE Right(s)
  <2> DEFINE Bad == {rank[t] : t \in {t \in Parts : ~Right(t)}}
  <2>1. Bad \subseteq Nat
    <3>. HIDE DEF Parts, rank, Right
    <3>. QED BY <1>2
  <2>2. SUFFICES ASSUME Bad # {} PROVE FALSE
    <3>. HIDE DEF Parts, rank, Right
    <3>. QED OBVIOUS
  <2>3. PICK r \in Bad : \A k \in Bad : r <= k
    <3>. HIDE DEF Bad
    <3>. QED BY <2>1, <2>2, LeastElement
  <2>4. PICK t \in Parts : rank[t] = r /\ ~Right(t)
    <3>. HIDE DEF Parts, rank, Right
    <3>. QED OBVIOUS
  <2>5. t # {}
    <3>1. ASSUME t = {} PROVE Right(t)
      <4>1. F[t] = start
        BY <1>5, <3>1
      <4>. QED BY <3>1, <4>1
    <3>. QED BY <2>4, <3>1
  <2> DEFINE x == pick(t)
             v == t \ {x}
  <2>6. x \in t /\ x \in Positive /\ v \in Parts /\ rank[v] < rank[t] /\ rank[t] \in Nat /\ rank[v] \in Nat
    <3>. HIDE DEF Parts, rank
    <3>. QED BY <1>2, <2>5
  <2>7. F[t] = Lcm(x, F[v]) /\ F[v] \in Positive
    <3>1. F[t] = Body(F, t)
      <4>. HIDE DEF Parts, Body
      <4>. QED BY <1>5
    <3>. QED BY <1>5, <2>5, <2>6, <3>1
  <2>8. Right(v)
    <3>. HIDE DEF Parts, rank, Right, v
    <3>1. ~(r <= rank[v])
      BY <2>4, <2>6
    <3>. QED BY <2>3, <2>6, <3>1
  <2>9. ASSUME NEW n \in Nat
        PROVE  Divides(F[t], n) <=> Divides(start, n) /\ \A u \in t : Divides(u, n)
    <3>1. Divides(F[t], n) <=> Divides(x, n) /\ Divides(F[v], n)
      BY <2>6, <2>7, LcmExact
    <3>2. Divides(F[v], n) <=> Divides(start, n) /\ \A u \in v : Divides(u, n)
      BY <2>8
    <3>3. \A u : u \in t <=> u = x \/ u \in v
      BY <2>6
    <3>. HIDE DEF v, x
    <3>. QED BY <3>1, <3>2, <3>3
  <2>. QED BY <2>4, <2>9
<1>7. QED
  <2>1. U \in Parts
    OBVIOUS
  <2>2. Right(U) /\ F[U] \in Positive
    <3>. HIDE DEF Parts, Right
    <3>. QED BY <1>5, <1>6, <2>1
  <2>. QED BY <1>1, <2>2

-----------------------------------------------------------------------------
(***************************************************************************)
(* The block pitches.  They are a function of the levels by recursion, each*)
(* the fold of Lcm over the pitches of the levels below in its group.      *)
(***************************************************************************)

\* The levels that share their blocks with l, up to l.
Group(tr, private, ignore, l) ==
  {m \in Levels : /\ ignore < m /\ m <= l /\ (m <= private) = (l <= private)
                  /\ tr[m].dir = tr[l].dir}

Steps(tr, l, i) == Pitch(tr[l]) \div i

\* The multiples of a block are the common multiples of the pitches of its group.
LeastOf(blk, tr, private, ignore, l) ==
  IF l <= ignore THEN blk = <<-1, -1>>
  ELSE /\ blk \in [1 .. 2 -> Positive]
       /\ \A i \in 1 .. 2, n \in Nat :
            Divides(blk[i], n) <=> \A m \in Group(tr, private, ignore, l) : Divides(Steps(tr, m, i), n)

LEMMA StepsPositive ==
  ASSUME NEW tr, Tracked(tr), NEW l \in Levels, NEW i \in 1 .. 2
  PROVE  Steps(tr, l, i) \in Positive
<1>1. tr[l].w \in Nat \ {0} /\ tr[l].sp \in Nat \ {0}
  BY DEF Tracked, TrackOf
<1>2. \A p \in Nat : p >= 2 => p \div 1 \in Nat \ {0} /\ p \div 2 \in Nat \ {0}
  OBVIOUS
<1>3. Pitch(tr[l]) \in Nat /\ Pitch(tr[l]) >= 2
  BY <1>1 DEF Pitch
<1>4. i = 1 \/ i = 2
  OBVIOUS
<1>5. QED BY <1>2, <1>3, <1>4 DEF Steps, Positive

LEMMA BlocksLeast ==
  ASSUME NEW tr, Tracked(tr), NEW private \in Int, NEW ignore \in Int
  PROVE  \A l \in Levels : LeastOf(BlockPitches(tr, private, ignore)[l], tr, private, ignore, l)
<1> DEFINE High == {l \in Levels : l > ignore}
           T == [1 .. 2 -> Positive]
           below(l) == {m \in Levels : /\ GroupStart(l, private, ignore) <= m /\ m < l
                                       /\ tr[m].dir = tr[l].dir}
           Body(g, l) == [i \in 1 .. 2 |-> FoldSet(Lcm, Pitch(tr[l]) \div i, {g[m][i] : m \in below(l)})]
           F == CHOOSE f : f = [l \in Levels |-> IF l <= ignore THEN <<-1, -1>> ELSE Body(f, l)]
           rank == [l \in High |-> l - BotLevel]
           D == [q \in [High -> T] \X High |-> Body(q[1], q[2])]
<1>1. BlockPitches(tr, private, ignore) = F
  BY DEF BlockPitches
<1>2. BotLevel \in Int /\ TopLevel \in Int /\ Levels = BotLevel .. TopLevel
  BY GridAssumption DEF Levels
<1>3. ASSUME NEW l \in High
      PROVE  /\ l \in Levels /\ l \in Int /\ rank[l] \in Nat /\ rank[l] = l - BotLevel
             /\ below(l) = Group(tr, private, ignore, l) \ {l}
             /\ below(l) \subseteq High /\ IsFiniteSet(below(l))
  <2>1. l \in Levels /\ l \in Int /\ l > ignore /\ rank[l] = l - BotLevel /\ rank[l] \in Nat
    BY <1>2
  <2>2. ASSUME NEW m \in Levels, m < l
        PROVE  GroupStart(l, private, ignore) <= m <=> ignore < m /\ (m <= private) = (l <= private)
    <3>1. Max({ignore, private}) = IF ignore >= private THEN ignore ELSE private
      BY MaxOfTwo
    <3>2. m \in Int
      BY <1>2
    <3>. QED BY <2>1, <2>2, <3>1, <3>2 DEF GroupStart
  <2>3. below(l) = Group(tr, private, ignore, l) \ {l}
    <3>1. ASSUME NEW m PROVE m \in below(l) <=> m \in Group(tr, private, ignore, l) \ {l}
      <4>1. m \in Levels => m \in Int /\ (m < l <=> m <= l /\ m # l)
        BY <1>2, <2>1
      <4>. QED BY <2>2, <4>1 DEF Group
    <3>. HIDE DEF below
    <3>. QED BY <3>1
  <2>4. below(l) \subseteq High
    <3>1. below(l) \subseteq {m \in Levels : ignore < m}
      BY <2>3 DEF Group
    <3>2. \A m \in Levels : m \in Int /\ (ignore < m <=> m > ignore)
      BY <1>2
    <3>. HIDE DEF below
    <3>. QED BY <3>1, <3>2
  <2>5. IsFiniteSet(below(l))
    BY <1>2, IntervalPart
  <2>. HIDE DEF below, rank
  <2>. QED BY <2>1, <2>3, <2>4, <2>5
<1>4. ASSUME NEW g \in [High -> T], NEW l \in High
      PROVE  /\ D[<<g, l>>] = Body(g, l) /\ Body(g, l) \in T
  <2>1. ASSUME NEW i \in 1 .. 2
        PROVE  FoldSet(Lcm, Pitch(tr[l]) \div i, {g[m][i] : m \in below(l)}) \in Positive
    <3> DEFINE U == {g[m][i] : m \in below(l)}
               B == below(l)
    <3>0. B \subseteq High /\ IsFiniteSet(B) /\ l \in Levels
      BY <1>3
    <3>1. U \subseteq Positive
      <4>. HIDE DEF below
      <4>. QED BY <3>0
    <3>2. IsFiniteSet(U)
      <4> DEFINE h == [m \in B |-> g[m][i]]
      <4>1. U = {h[m] : m \in B}
        OBVIOUS
      <4>. HIDE DEF B, U, h
      <4>2. h \in Surjection(B, {h[m] : m \in B})
        BY DEF h, Surjection
      <4>. QED BY <3>0, <4>1, <4>2, FS_Surjection
    <3>3. Pitch(tr[l]) \div i \in Positive
      BY <3>0, StepsPositive DEF Steps
    <3>. HIDE DEF U, B
    <3>4. FoldSet(Lcm, Pitch(tr[l]) \div i, U) \in Positive
      BY <3>1, <3>2, <3>3, FoldExact
    <3>. QED BY <3>4 DEF U
  <2>2. Body(g, l) \in T
    <3>. HIDE DEF below
    <3>. QED BY <2>1
  <2>. HIDE DEF Body, High, T
  <2>. QED BY <2>2
<1>5. LooksDown(High, T, rank, D)
  <2>1. rank \in [High -> Nat]
    <3>. HIDE DEF High
    <3>. QED BY <1>3
  <2>2. D \in [[High -> T] \X High -> T]
    <3>. HIDE DEF Body, High, T
    <3>. QED BY <1>4
  <2>3. ASSUME NEW g \in [High -> T], NEW h \in [High -> T], NEW l \in High,
               \A m \in High : rank[m] < rank[l] => g[m] = h[m]
        PROVE  D[<<g, l>>] = D[<<h, l>>]
    <3>1. ASSUME NEW m \in below(l) PROVE g[m] = h[m]
      <4>1. m \in High /\ m < l
        BY <1>3
      <4>2. rank[m] < rank[l]
        BY <1>2, <1>3, <4>1
      <4>. HIDE DEF rank, below
      <4>. QED BY <2>3, <4>1, <4>2
    <3>2. \A i \in 1 .. 2 : {g[m][i] : m \in below(l)} = {h[m][i] : m \in below(l)}
      <4>. HIDE DEF below
      <4>. QED BY <3>1
    <3>3. Body(g, l) = Body(h, l)
      <4>. HIDE DEF below
      <4>. QED BY <3>2
    <3>. HIDE DEF D, Body
    <3>. QED BY <3>3, <1>4
  <2>. HIDE DEF rank, D, Body, High, T
  <2>. QED BY <2>1, <2>2, <2>3 DEF LooksDown
<1>6. F = [l \in Levels |-> IF l <= ignore THEN <<-1, -1>> ELSE Body(F, l)]
  <2>0. [i \in 1 .. 2 |-> 1] \in T
    BY DEF Positive
  <2>1. PICK f \in [High -> T] : \A l \in High : f[l] = D[<<f, l>>]
    <3>. HIDE DEF High, T, rank, D
    <3>. QED BY <1>5, <2>0, RecursiveExists
  <2> DEFINE w == [l \in Levels |-> IF l <= ignore THEN <<-1, -1>> ELSE f[l]]
  <2>2. ASSUME NEW l \in High PROVE Body(f, l) = Body(w, l)
    <3>1. \A m \in High : w[m] = f[m]
      BY <1>2
    <3>2. \A i \in 1 .. 2 : {f[m][i] : m \in below(l)} = {w[m][i] : m \in below(l)}
      <4>1. below(l) \subseteq High
        BY <1>3
      <4>. HIDE DEF below, w
      <4>. QED BY <3>1, <4>1
    <3>. HIDE DEF below, w
    <3>. QED BY <3>2
  <2>3. ASSUME NEW l \in Levels
        PROVE  w[l] = IF l <= ignore THEN <<-1, -1>> ELSE Body(w, l)
    <3>1. CASE l <= ignore
      BY <3>1
    <3>2. CASE ~(l <= ignore)
      <4>1. l \in High /\ w[l] = f[l]
        BY <1>2, <3>2
      <4>. HIDE DEF w, Body, High, D, T
      <4>. QED BY <1>4, <2>1, <2>2, <3>2, <4>1
    <3>. QED BY <3>1, <3>2
  <2>4. w = [l \in Levels |-> IF l <= ignore THEN <<-1, -1>> ELSE Body(w, l)]
    <3>1. w = [l \in Levels |-> w[l]]
      OBVIOUS
    <3>. HIDE DEF w, Body
    <3>. QED BY <2>3, <3>1
  <2>. HIDE DEF w, Body
  <2>. QED BY <2>4
<1>. HIDE DEF F, D
<1> DEFINE Right(l) == LeastOf(F[l], tr, private, ignore, l)
<1>7. ASSUME NEW l \in Levels, l <= ignore PROVE Right(l)
  BY <1>6, <1>7 DEF LeastOf
<1>8. ASSUME NEW l \in High, \A m \in below(l) : Right(m) PROVE Right(l)
  <2> DEFINE B == below(l)
  <2>1. /\ l \in Levels /\ ~(l <= ignore) /\ B \subseteq High /\ IsFiniteSet(B)
        /\ B = Group(tr, private, ignore, l) \ {l}
    BY <1>2, <1>3
  <2>2. F[l] = Body(F, l)
    <3>. HIDE DEF Body
    <3>. QED BY <1>6, <2>1
  <2>3. \A m \in B : ~(m <= ignore) /\ m \in Levels
    BY <1>2, <2>1
  <2>4. ASSUME NEW i \in 1 .. 2
        PROVE  /\ F[l][i] \in Positive
               /\ \A n \in Nat : Divides(F[l][i], n) <=>
                    \A m \in Group(tr, private, ignore, l) : Divides(Steps(tr, m, i), n)
    <3> DEFINE U == {F[m][i] : m \in B}
    <3>1. F[l][i] = FoldSet(Lcm, Steps(tr, l, i), U)
      BY <2>2 DEF Steps
    <3>. HIDE DEF B, F
    <3>2. U \subseteq Positive
      BY <1>8, <2>3 DEF LeastOf, B
    <3>3. IsFiniteSet(U)
      <4> DEFINE h == [m \in B |-> F[m][i]]
      <4>1. U = {h[m] : m \in B}
        OBVIOUS
      <4>. HIDE DEF U, h
      <4>2. h \in Surjection(B, {h[m] : m \in B})
        BY DEF h, Surjection
      <4>. QED BY <2>1, <4>1, <4>2, FS_Surjection
    <3>4. Steps(tr, l, i) \in Positive
      BY <2>1, StepsPositive
    <3>. HIDE DEF U
    <3>5. /\ F[l][i] \in Positive
          /\ \A n \in Nat : Divides(F[l][i], n) <=> Divides(Steps(tr, l, i), n) /\ \A u \in U : Divides(u, n)
      BY <3>1, <3>2, <3>3, <3>4, FoldExact
    <3>6. ASSUME NEW n \in Nat
          PROVE  Divides(F[l][i], n) <=>
                    \A m \in Group(tr, private, ignore, l) : Divides(Steps(tr, m, i), n)
      <4>1. (\A u \in U : Divides(u, n)) <=> \A m \in B : Divides(F[m][i], n)
        BY DEF U
      <4>2. ASSUME NEW m \in B
            PROVE  Divides(F[m][i], n) <=> \A k \in Group(tr, private, ignore, m) : Divides(Steps(tr, k, i), n)
        BY <1>8, <2>3 DEF LeastOf, B
      <4>3. l \in Group(tr, private, ignore, l)
        BY <1>2, <2>1 DEF Group
      <4>4. ASSUME NEW m \in B PROVE Group(tr, private, ignore, m) \subseteq Group(tr, private, ignore, l)
        <5>1. m \in Group(tr, private, ignore, l)
          BY <2>1
        <5>2. \A k \in Levels : k <= m => k <= l
          BY <1>2, <2>1, <5>1 DEF Group
        <5>. QED BY <5>1, <5>2 DEF Group
      <4>5. ASSUME NEW k \in B PROVE k \in Group(tr, private, ignore, k)
        BY <1>2, <2>3, <2>1 DEF Group
      <4>. QED BY <2>1, <3>5, <4>1, <4>2, <4>3, <4>4, <4>5
    <3>. QED BY <3>5, <3>6
  <2>5. F[l] = [i \in 1 .. 2 |-> F[l][i]]
    BY <2>2
  <2>6. F[l] \in [1 .. 2 -> Positive]
    <3>. HIDE DEF Body
    <3>. QED BY <2>4, <2>5
  <2>. QED BY <2>1, <2>4, <2>6 DEF LeastOf
<1>9. ASSUME NEW l \in High PROVE Right(l)
  <2> DEFINE Bad == {rank[m] : m \in {m \in High : ~Right(m)}}
  <2>1. Bad \subseteq Nat
    <3>. HIDE DEF High, rank, Right
    <3>. QED BY <1>3
  <2>2. SUFFICES ASSUME Bad # {} PROVE FALSE
    <3>. HIDE DEF High, rank, Right
    <3>. QED OBVIOUS
  <2>3. PICK r \in Bad : \A k \in Bad : r <= k
    <3>. HIDE DEF Bad
    <3>. QED BY <2>1, <2>2, LeastElement
  <2>4. PICK m \in High : rank[m] = r /\ ~Right(m)
    <3>. HIDE DEF High, rank, Right
    <3>. QED OBVIOUS
  <2>5. ASSUME NEW k \in below(m) PROVE Right(k)
    <3>1. k \in High /\ rank[k] < rank[m] /\ rank[k] \in Nat /\ rank[m] \in Nat
      <4>1. k \in High /\ k < m
        BY <1>3
      <4>. QED BY <1>2, <1>3, <4>1
    <3>2. ~(r <= rank[k])
      <4>. HIDE DEF rank
      <4>. QED BY <2>4, <3>1
    <3>. HIDE DEF High, rank, Right
    <3>. QED BY <2>3, <3>1, <3>2
  <2>. HIDE DEF High, rank, Right, below
  <2>. QED BY <1>8, <2>4, <2>5
<1>10. QED
  <2>1. ASSUME NEW l \in Levels PROVE Right(l)
    <3>1. l <= ignore \/ l \in High
      BY <1>2
    <3>. HIDE DEF High, Right
    <3>. QED BY <1>7, <1>9, <3>1
  <2>. QED BY <1>1, <2>1

\* The pitches kept for each level are right for those ignored when they were computed.
BlocksInv == \A l \in Levels : LeastOf(info[l].blk_pitch, info, top_private_level, base, l)

\* What the pitches of blocks depend on.
SameSizes(tr, new) ==
  \A l \in Levels : new[l].dir = tr[l].dir /\ new[l].w = tr[l].w /\ new[l].sp = tr[l].sp

LEMMA LeastSame ==
  ASSUME NEW tr, NEW new, SameSizes(tr, new), NEW private, NEW ignore, NEW l \in Levels, NEW blk
  PROVE  LeastOf(blk, new, private, ignore, l) = LeastOf(blk, tr, private, ignore, l)
<1>1. Group(new, private, ignore, l) = Group(tr, private, ignore, l)
  BY DEF Group, SameSizes
<1>2. \A m \in Group(tr, private, ignore, l), i \in 1 .. 2 : Steps(new, m, i) = Steps(tr, m, i)
  BY DEF Group, SameSizes, Steps, Pitch
<1>3. QED
  BY <1>1, <1>2 DEF LeastOf

\* Computing the blocks again makes them right.
LEMMA BlocksRight ==
  ASSUME NEW tr, Tracked(tr), NEW private \in Int, NEW ignore \in Int
  PROVE  LET new == WithBlocks(tr, private, ignore)
         IN  \A l \in Levels : LeastOf(new[l].blk_pitch, new, private, ignore, l)
<1> DEFINE blk == BlockPitches(tr, private, ignore)
           new == WithBlocks(tr, private, ignore)
<1>1. PICK S : tr \in [Levels -> TrackOf(S)]
  BY DEF Tracked
<1>2. ASSUME NEW l \in Levels
      PROVE  new[l].dir = tr[l].dir /\ new[l].w = tr[l].w /\ new[l].sp = tr[l].sp /\ new[l].blk_pitch = blk[l]
  <2>1. new[l] = [tr[l] EXCEPT !.blk_pitch = blk[l]]
    BY DEF WithBlocks
  <2>2. tr[l] \in TrackOf(S)
    BY <1>1
  <2>. HIDE DEF new, blk
  <2>3. QED
    BY <2>1, <2>2 DEF TrackOf
<1>3. SameSizes(tr, new)
  BY <1>2 DEF SameSizes
<1>4. \A l \in Levels : LeastOf(blk[l], tr, private, ignore, l)
  BY BlocksLeast
<1>. HIDE DEF new, blk
<1>5. \A l \in Levels : LeastOf(new[l].blk_pitch, new, private, ignore, l)
  BY <1>2, <1>3, <1>4, LeastSame
<1>. QED BY <1>5 DEF new

\* A call that leaves the sizes and the blocks leaves the blocks right.
LEMMA SameKeepsBlocks ==
  ASSUME BlocksInv, SameSizes(info, info'), \A l \in Levels : info'[l].blk_pitch = info[l].blk_pitch,
         UNCHANGED <<top_private_level, base>>
  PROVE  BlocksInv'
BY LeastSame DEF BlocksInv

LEMMA SetKeepsBlocks ==
  ASSUME GridInv, BlocksInv, NEW level \in BotLevel - 1 .. TopLevel + 1, NEW private \in BOOLEAN,
         NEW dir \in Directions, NEW size \in Sizes, SetLevel(level, private, dir, size)
  PROVE  BlocksInv'
<1>1. CASE level \notin Levels
  BY <1>1, SameKeepsBlocks DEF SetLevel, SameSizes
<1>2. CASE level \in Levels
  <2> DEFINE off == (size[1] + size[2]) \div 2
             new == [info[level] EXCEPT !.dir = dir, !.w = size[1], !.sp = size[2], !.offset = off]
             tr == [info EXCEPT ![level] = new]
  <2>1. /\ info' = WithBlocks(tr, top_private_level', top_ignore_level)
        /\ base' = top_ignore_level
    BY <1>2 DEF SetLevel
  <2>2. Tracked(tr)
    BY <1>2, LevelTracked
  <2>3. top_ignore_level \in Int /\ top_private_level' \in Int
    <3>1. MarksIn({top_ignore_level, top_private_level, base}) /\ MarksIn({top_ignore_level, top_private_level, base})'
      BY LevelKeeps DEF GridInv
    <3>2. QED
      BY <3>1 DEF MarksIn
  <2>. HIDE DEF tr
  <2>4. QED
    BY <2>1, <2>2, <2>3, BlocksRight DEF BlocksInv
<1>3. QED
  BY <1>1, <1>2

LEMMA OffsetKeepsBlocks ==
  ASSUME GridInv, BlocksInv, NEW level, NEW offset, SetTrackOffset(level, offset)
  PROVE  BlocksInv'
<1>1. UNCHANGED <<top_private_level, base>>
  BY DEF SetTrackOffset
<1>2. PICK S : info \in [Levels -> TrackOf(S)]
  BY DEF GridInv, Tracked
<1>3. ASSUME NEW l \in Levels
      PROVE  /\ info'[l].dir = info[l].dir /\ info'[l].w = info[l].w /\ info'[l].sp = info[l].sp
             /\ info'[l].blk_pitch = info[l].blk_pitch
  <2>1. info[l] \in TrackOf(S)
    BY <1>2
  <2>2. info'[l] = info[l] \/ info'[l] = [info[l] EXCEPT !.offset = offset]
    BY <1>2 DEF SetTrackOffset
  <2>3. QED
    BY <2>1, <2>2 DEF TrackOf
<1>4. QED
  BY <1>1, <1>3, SameKeepsBlocks DEF SameSizes

LEMMA FlipKeepsBlocks ==
  ASSUME GridInv, BlocksInv, NEW parity, SetFlipParity(parity)
  PROVE  BlocksInv'
<1>1. UNCHANGED <<top_private_level, base>>
  BY DEF SetFlipParity
<1>2. PICK S : info \in [Levels -> TrackOf(S)]
  BY DEF GridInv, Tracked
<1>3. ASSUME NEW l \in Levels
      PROVE  /\ info'[l].dir = info[l].dir /\ info'[l].w = info[l].w /\ info'[l].sp = info[l].sp
             /\ info'[l].blk_pitch = info[l].blk_pitch
  <2>1. info[l] \in TrackOf(S)
    BY <1>2
  <2>2. \E u, v : info'[l] = info[l] \/ info'[l] = [info[l] EXCEPT !.par_scale = u, !.par_offset = v]
    BY DEF SetFlipParity
  <2>3. QED
    BY <2>1, <2>2 DEF TrackOf
<1>4. QED
  BY <1>1, <1>3, SameKeepsBlocks DEF SameSizes

LEMMA BlocksStep ==
  ASSUME GridInv, BlocksInv, [Next]_vars
  PROVE  BlocksInv'
<1>1. ASSUME UNCHANGED <<info, top_private_level, base>> PROVE BlocksInv'
  BY <1>1 DEF BlocksInv
<1>2. CASE GridEdit
  <2>1. ASSUME NEW level, SetTopIgnoreLevel(level) PROVE BlocksInv'
    BY <1>1, <2>1 DEF SetTopIgnoreLevel
  <2>2. QED
    BY <1>2, <2>1, SetKeepsBlocks, OffsetKeepsBlocks, FlipKeepsBlocks DEF GridEdit
<1>3. CASE \E q \in Requests : StartSizing(q)
  BY <1>1, <1>3 DEF StartSizing, grid
<1>4. CASE SizingStep
  BY <1>1, <1>4 DEF SizingStep, More, Fewer, SizingThrows, Sized, grid
<1>5. CASE DrawCall
  <2>1. Draw
    BY <1>5, DrawsFirst
  <2>2. QED
    BY <1>1, <2>1 DEF Draw, grid
<1>6. CASE UNCHANGED vars
  BY <1>1, <1>6 DEF vars, gridVars, grid
<1>7. QED
  BY <1>2, <1>3, <1>4, <1>5, <1>6 DEF Next

LEMMA InitBlocks == Init => BlocksInv
<1> DEFINE tr == [l \in Levels |-> NewTrack(InitTracks[l])]
<1>1. Tracked(tr)
  BY InitTracked
<1>2. BotLevel - 1 \in Int
  BY GridAssumption
<1>. HIDE DEF tr
<1>3. ASSUME Init PROVE BlocksInv
  <2>1. info = WithBlocks(tr, BotLevel - 1, BotLevel - 1) /\ top_private_level = BotLevel - 1 /\ base = BotLevel - 1
    BY <1>3 DEF Init, GridInit, tr
  <2>2. QED
    BY <1>1, <1>2, <2>1, BlocksRight DEF BlocksInv
<1>4. QED
  BY <1>3

\* The level below with the other direction.
LEMMA LowerLevel ==
  ASSUME GridInv, NEW l \in Levels, LowerOrthogonal(l) >= BotLevel
  PROVE  LowerOrthogonal(l) \in Levels /\ LowerOrthogonal(l) < l
<1> DEFINE Other == {m \in Levels : m < l /\ info[m].dir # info[l].dir}
           U == {BotLevel - 1} \cup Other
<1>1. BotLevel \in Int /\ TopLevel \in Int /\ Levels = BotLevel .. TopLevel
  BY GridAssumption DEF Levels
<1>2. U \subseteq BotLevel - 1 .. TopLevel /\ BotLevel - 1 \in U
  BY <1>1
<1>3. U \subseteq Int /\ IsFiniteSet(U)
  <2> DEFINE b == BotLevel - 1
  <2>1. b \in Int /\ TopLevel \in Int /\ U \subseteq b .. TopLevel
    BY <1>1, <1>2
  <2>. HIDE DEF b, U
  <2>2. QED
    BY <2>1, IntervalPart
<1>. HIDE DEF U
<1>4. LowerOrthogonal(l) \in U
  <2>1. Max(U) \in U
    BY <1>2, <1>3, Extremes
  <2>2. QED
    BY <2>1 DEF LowerOrthogonal, U
<1>5. QED
  BY <1>1, <1>4 DEF U

\* The pitches of a level are the least multiples of those of its group.
LEMMA PitchesLeast ==
  ASSUME GridInv, BlocksInv, NEW l \in Levels, l > base
  PROVE  /\ LeastBlocks(l)
         /\ \A i \in 1 .. 2 : Divides(Pitch(info[l]) \div i, info[l].blk_pitch[i])
<1>1. base \in Int /\ l \in Int /\ ~(l <= base)
  BY GridAssumption DEF GridInv, MarksIn, Levels
<1>2. GroupUpTo(l) = Group(info, top_private_level, base, l)
  BY DEF GroupUpTo, Group
<1>3. l \in GroupUpTo(l)
  BY <1>1 DEF GroupUpTo
<1>4. ASSUME NEW i \in 1 .. 2
      PROVE  /\ info[l].blk_pitch[i] \in Positive
             /\ \A n \in Nat : Divides(info[l].blk_pitch[i], n) <=>
                   \A m \in GroupUpTo(l) : Divides(Pitch(info[m]) \div i, n)
  BY <1>1, <1>2 DEF BlocksInv, LeastOf, Steps
<1>5. ASSUME NEW i \in 1 .. 2
      PROVE  LET pitches == {Pitch(info[m]) \div i : m \in GroupUpTo(l)}
                 blk == info[l].blk_pitch[i]
             IN  /\ blk > 0 /\ \A p \in pitches : Divides(p, blk)
                 /\ \A n \in 1 .. blk - 1 : \E p \in pitches : ~Divides(p, n)
                 /\ Divides(Pitch(info[l]) \div i, blk)
  <2> DEFINE blk == info[l].blk_pitch[i]
  <2>1. blk \in Nat /\ blk > 0 /\ blk \in Positive
    BY <1>4 DEF Positive
  <2>. HIDE DEF blk
  <2>2. Divides(blk, blk)
    <3>1. blk = blk * 1
      BY <2>1
    <3>2. QED
      BY <2>1, <3>1, DividesMeans
  <2>3. \A m \in GroupUpTo(l) : Divides(Pitch(info[m]) \div i, blk)
    BY <1>4, <2>1, <2>2 DEF blk
  <2>4. ASSUME NEW n \in 1 .. blk - 1 PROVE \E m \in GroupUpTo(l) : ~Divides(Pitch(info[m]) \div i, n)
    <3>1. n \in Nat /\ n < blk /\ n > 0
      BY <2>1
    <3>2. ~Divides(blk, n)
      <4>1. \A a, b \in Nat : a < b => a % b = a
        OBVIOUS
      <4>2. QED
        BY <2>1, <3>1, <4>1 DEF Divides
    <3>3. QED
      BY <1>4, <3>1, <3>2 DEF blk
  <2>5. QED
    BY <1>3, <2>1, <2>3, <2>4 DEF blk
<1>6. LeastBlocks(l)
  BY <1>5 DEF LeastBlocks
<1>7. QED
  BY <1>5, <1>6

LEMMA BlocksAreOnGrid ==
  ASSUME GridInv, BlocksInv
  PROVE  BlocksOnGrid
<1>1. BotLevel \in Int /\ base \in Int /\ top_private_level \in Int /\ \A l \in Levels : l \in Int
  BY GridAssumption DEF GridInv, MarksIn, Levels
<1>2. ASSUME NEW l \in Levels
      PROVE  IF l <= base THEN info[l].blk_pitch = <<-1, -1>> ELSE LeastBlocks(l)
  <2>1. CASE l <= base
    BY <2>1 DEF BlocksInv, LeastOf
  <2>2. CASE ~(l <= base)
    <3>1. l > base
      BY <1>1, <2>2
    <3>2. QED
      BY <2>2, <3>1, PitchesLeast
  <2>3. QED
    BY <2>1, <2>2
<1>3. ASSUME NEW l \in Levels, BlockDefinedAt(l), LowerOrthogonal(l) > base
      PROVE  WholeBlocks(l)
  <2> DEFINE bot == LowerOrthogonal(l)
  <2>1. bot \in Levels /\ bot < l /\ bot >= BotLevel /\ bot > top_private_level /\ bot > base
    BY <1>3, LowerLevel DEF BlockDefinedAt
  <2>2. bot \in Int /\ l > base /\ top_private_level < bot
    BY <1>1, <2>1
  <2>. HIDE DEF bot
  <2>3. /\ Divides(Pitch(info[l]) \div 1, info[l].blk_pitch[1]) /\ Divides(Pitch(info[l]) \div 2, info[l].blk_pitch[2])
        /\ Divides(Pitch(info[bot]) \div 1, info[bot].blk_pitch[1]) /\ Divides(Pitch(info[bot]) \div 2, info[bot].blk_pitch[2])
    <3>1. \A i \in 1 .. 2 : /\ Divides(Pitch(info[l]) \div i, info[l].blk_pitch[i])
                            /\ Divides(Pitch(info[bot]) \div i, info[bot].blk_pitch[i])
      BY <2>1, <2>2, PitchesLeast
    <3>2. QED
      BY <3>1
  <2>4. \A m \in Levels : Pitch(info[m]) \div 1 = Pitch(info[m])
    <3>1. ASSUME NEW m \in Levels PROVE Pitch(info[m]) \in Int
      <4>1. info[m].w \in Int /\ info[m].sp \in Int
        BY DEF GridInv, Tracked, TrackOf
      <4>2. QED
        BY <4>1 DEF Pitch
    <3>2. QED
      BY <3>1
  <2>5. ASSUME NEW i \in 1 .. 2
        PROVE  /\ Divides(TopTrackPitches(l)[i], BlkSize(l, FALSE, <<FALSE, FALSE>>)[i])
               /\ Divides(TopTrackPitches(l)[i] \div 2, BlkSize(l, FALSE, <<TRUE, TRUE>>)[i])
    <3>1. TopTrackPitches(l)[i] = Pitch(info[IF i = info[l].dir THEN bot ELSE l])
      BY DEF TopTrackPitches, bot
    <3>2. BlkSize(l, FALSE, <<FALSE, FALSE>>)[i] = info[IF i = info[l].dir THEN bot ELSE l].blk_pitch[1]
      <4>1. ~<<FALSE, FALSE>>[i]
        <5>1. i = 1 \/ i = 2
          OBVIOUS
        <5>2. ~<<FALSE, FALSE>>[1] /\ ~<<FALSE, FALSE>>[2]
          OBVIOUS
        <5>3. QED
          BY <5>1, <5>2
      <4>2. QED
        BY <2>1, <2>2, <4>1 DEF BlkSize, bot
    <3>3. BlkSize(l, FALSE, <<TRUE, TRUE>>)[i] = info[IF i = info[l].dir THEN bot ELSE l].blk_pitch[2]
      <4>1. <<TRUE, TRUE>>[i]
        <5>1. i = 1 \/ i = 2
          OBVIOUS
        <5>2. <<TRUE, TRUE>>[1] /\ <<TRUE, TRUE>>[2]
          OBVIOUS
        <5>3. QED
          BY <5>1, <5>2
      <4>2. QED
        BY <2>1, <2>2, <4>1 DEF BlkSize, bot
    <3>4. QED
      BY <2>1, <2>3, <2>4, <3>1, <3>2, <3>3
  <2>6. QED
    BY <2>5 DEF WholeBlocks
<1>4. QED
  BY <1>2, <1>3 DEF BlocksOnGrid

-----------------------------------------------------------------------------
(***************************************************************************)
(* Half tracks and coordinates, spaces in half pitches, bounds of arrays.  *)
(***************************************************************************)

LEMMA QuotExact ==
  ASSUME NEW h \in Positive, NEW k \in Int
  PROVE  Quot(h * k, h) = k /\ Rem(h * k, h) = 0
<1>1. h \in Nat /\ h > 0
  BY DEF Positive
<1>2. ASSUME NEW j \in Nat PROVE (h * j) \div h = j
  <2> DEFINE n == h * j
             q == n \div h
  <2>1. n \in Nat
    BY <1>1
  <2>2. Divides(h, n)
    BY <2>1, DividesMeans
  <2>3. q \in Nat /\ n = h * q
    BY <2>1, <2>2, DividesMeans
  <2>4. \A x, y \in Int : h * x = h * y => x = y
    BY <1>1
  <2>. HIDE DEF q
  <2>5. QED
    BY <2>3, <2>4 DEF q
<1>3. CASE k >= 0
  <2>1. h * k >= 0 /\ (h * k) \div h = k
    BY <1>1, <1>2, <1>3
  <2>2. QED
    BY <2>1, <1>1 DEF Quot, Rem
<1>4. CASE ~(k >= 0)
  <2>1. -k \in Nat /\ h * k = -(h * (-k)) /\ ~(h * k >= 0) /\ h * k \in Int
    <3>1. \A x \in Int : x <= -1 => h * x <= -1
      BY <1>1
    <3>2. QED
      BY <1>1, <1>4, <3>1
  <2>2. (-(h * k)) = h * (-k)
    BY <1>1, <2>1
  <2>3. (h * (-k)) \div h = -k
    BY <1>2, <2>1
  <2>4. Quot(h * k, h) = -((-(h * k)) \div h)
    BY <2>1 DEF Quot
  <2>5. Quot(h * k, h) = k
    BY <2>2, <2>3, <2>4
  <2>6. QED
    BY <1>1, <2>5 DEF Rem
<1>5. QED
  BY <1>3, <1>4

\* Dividing a number that is not negative rounds down.
LEMMA QuotDown ==
  ASSUME NEW h \in Positive, NEW a \in Nat
  PROVE  /\ Quot(a, h) \in Nat /\ h * Quot(a, h) <= a /\ a < h * (Quot(a, h) + 1)
         /\ Rem(a, h) = a - h * Quot(a, h)
<1> DEFINE q == a \div h
<1>1. h \in Nat /\ h > 0 /\ q \in Nat /\ a % h \in 0 .. h - 1 /\ a = h * q + (a % h)
  BY DividesMeans DEF Positive
<1>2. Quot(a, h) = q
  BY DEF Quot
<1>. HIDE DEF q
<1>3. h * (q + 1) = h * q + h /\ h * q \in Nat
  BY <1>1
<1>4. h * q <= a /\ a < h * (q + 1)
  BY <1>1, <1>3
<1>5. QED
  BY <1>1, <1>2, <1>4 DEF Rem

LEMMA SizesOf ==
  ASSUME NEW S, NEW t \in TrackOf(S), NEW ntr \in 1 .. 2
  PROVE  /\ t.w \in Nat \ {0} /\ t.sp \in Nat \ {0} /\ t.offset \in Int /\ t.dir \in 1 .. 2
         /\ HalfPitch(t) \in Positive /\ Pitch(t) \in Nat
         /\ WireSpan(t, ntr) \in Nat /\ WireSpan(t, ntr) \div 2 \in Nat
<1>1. t.w \in Nat \ {0} /\ t.sp \in Nat \ {0} /\ t.offset \in Int /\ t.dir \in 1 .. 2
  BY DEF TrackOf, Directions
<1>2. Pitch(t) \in Nat /\ Pitch(t) >= 2
  BY <1>1 DEF Pitch
<1>3. HalfPitch(t) \in Positive
  <2>1. \A p \in Nat : p >= 2 => p \div 2 \in Nat \ {0}
    OBVIOUS
  <2>2. QED
    BY <1>2, <2>1 DEF HalfPitch, Positive
<1>4. WireSpan(t, ntr) \in Nat
  <2>1. ntr = 1 \/ ntr = 2
    OBVIOUS
  <2>2. 0 * Pitch(t) = 0 /\ 1 * Pitch(t) = Pitch(t)
    BY <1>2
  <2>3. QED
    BY <1>1, <1>2, <2>1, <2>2 DEF WireSpan
<1>5. \A n \in Nat : n \div 2 \in Nat
  OBVIOUS
<1>6. QED
  BY <1>1, <1>2, <1>3, <1>4, <1>5

\* A half track is on track, and its coordinate leads back to it.
LEMMA TracksOnTrack ==
  ASSUME NEW S, NEW t \in TrackOf(S), NEW htr \in Int
  PROVE  /\ OnTrack(t, HtrToCoord(t, htr))
         /\ CoordToHtr(t, HtrToCoord(t, htr), "NONE", FALSE) = htr
<1> DEFINE h == HalfPitch(t)
<1>1. h \in Positive /\ t.offset \in Int /\ h \in Int
  BY SizesOf DEF Positive
<1>. HIDE DEF h
<1>2. (h * htr + t.offset) - t.offset = h * htr
  BY <1>1
<1>3. HtrToCoord(t, htr) - t.offset = h * htr
  BY <1>2 DEF HtrToCoord, h
<1>4. Quot(h * htr, h) = htr /\ Rem(h * htr, h) = 0
  BY <1>1, QuotExact
<1>5. QED
  BY <1>3, <1>4 DEF OnTrack, CoordToHtr, h

\* A wire is moved as the transformation moves its centre.
LEMMA TracksMoved ==
  ASSUME NEW S, NEW t \in TrackOf(S), t.offset = 0, NEW htr \in Int, NEW x \in Xform,
         OnTrack(t, x.loc[Perpendicular(t.dir)])
  PROVE  LET d == Perpendicular(t.dir)
         IN  HtrToCoord(t, TransformHtr(t, htr, x)) = Sign(x.orient)[d] * HtrToCoord(t, htr) + x.loc[d]
<1> DEFINE h == HalfPitch(t)
           d == Perpendicular(t.dir)
           at == x.loc[d]
           s == Sign(x.orient)[d]
           q == Quot(at, h)
<1>1. h \in Positive /\ h \in Int
  BY SizesOf DEF Positive
<1>2. d \in 1 .. 2
  BY SizesOf DEF Perpendicular
<1>3. at \in Int /\ s \in {-1, 1} /\ x.orient \in Orientation
  BY <1>2, SignsOf DEF Xform, Point
<1>4. q \in Int
  <2>1. \A a \in Int : a \div h \in Int
    BY <1>1 DEF Positive
  <2>2. QED
    BY <1>1, <1>3, <2>1 DEF Quot
<1>5. at - t.offset = at
  BY <1>3
<1>6. at = h * q
  <2>1. Rem(at, h) = 0
    BY <1>5 DEF OnTrack
  <2>2. h * q \in Int
    BY <1>1, <1>4
  <2>. HIDE DEF q, at, h
  <2>3. Rem(at, h) = at - h * q
    BY DEF Rem, q
  <2>4. QED
    BY <1>3, <2>1, <2>2, <2>3
<1>7. CoordToHtr(t, at, "NONE", FALSE) = q
  BY <1>5 DEF CoordToHtr
<1>8. TransformHtr(t, htr, x) = s * htr + q
  BY <1>7 DEF TransformHtr
<1>. HIDE DEF h, d, at, s, q
<1>9. h * (s * htr + q) = s * (h * htr) + h * q
  BY <1>1, <1>3, <1>4
<1>10. \A n \in Int : HtrToCoord(t, n) = h * n
  BY <1>1 DEF HtrToCoord, h
<1>11. s * htr + q \in Int
  BY <1>3, <1>4
<1>12. HtrToCoord(t, TransformHtr(t, htr, x)) = s * HtrToCoord(t, htr) + at
  BY <1>6, <1>8, <1>9, <1>10, <1>11
<1>13. QED
  BY <1>12 DEF s, at, d

\* Rounding up gives the first wire at or after a coordinate, rounding down the last
\* one before it.
LEMMA NextWiresFound ==
  ASSUME GridInv, NEW l \in Levels, NEW ntr \in 1 .. 2, NEW c \in Nat
  PROVE  NextWires(l, info[l].offset + WireSpan(info[l], ntr) \div 2 + c, ntr)
<1> DEFINE t == info[l]
           h == HalfPitch(t)
           s == WireSpan(t, ntr) \div 2
           o == t.offset
           coord == o + s + c
           up == Quot(2 * s + c, h)
           down == Quot(c, h)
           r == Rem(2 * s + c, h)
<1>1. PICK S : t \in TrackOf(S)
  BY DEF GridInv, Tracked
<1>2. h \in Positive /\ h \in Int /\ s \in Nat /\ o \in Int
  BY <1>1, SizesOf DEF Positive
<1>. HIDE DEF h, s, o
<1>3. 2 * s + c \in Nat
  BY <1>2
<1>4. /\ up \in Nat /\ h * up <= 2 * s + c /\ 2 * s + c < h * (up + 1) /\ r = 2 * s + c - h * up
      /\ down \in Nat /\ h * down <= c /\ c < h * (down + 1)
  BY <1>2, <1>3, QuotDown
<1>5. (coord + 1 * s) - o = 2 * s + c /\ (coord + (-1) * s) - o = c
  BY <1>2
<1>. HIDE DEF coord
<1>6. FindNextHtr(t, coord, ntr, "GREATER_EQ", FALSE) = up + One(r # 0)
  <2>1. CoordToHtr(t, coord + 1 * s, "GREATER_EQ", FALSE) = up + One(r # 0)
    BY <1>5 DEF CoordToHtr, h, o
  <2>2. QED
    BY <2>1 DEF FindNextHtr, s
<1>7. FindNextHtr(t, coord, ntr, "LESS_EQ", FALSE) = down
  <2>1. CoordToHtr(t, coord + (-1) * s, "LESS_EQ", FALSE) = down
    BY <1>5 DEF CoordToHtr, h, o
  <2>2. QED
    BY <2>1 DEF FindNextHtr, s
<1>. HIDE DEF up, down, r
<1> DEFINE above == up + One(r # 0)
<1>8. above \in Nat /\ 2 * s + c <= h * above /\ h * (above - 1) < 2 * s + c
  <2>1. CASE r = 0
    <3>1. above = up
      BY <1>4, <2>1 DEF One
    <3>2. h * (up - 1) = h * up - h /\ h * up \in Nat /\ h > 0
      BY <1>2, <1>4 DEF Positive
    <3>3. h * up = 2 * s + c
      BY <1>2, <1>4, <2>1, <3>2
    <3>4. QED
      BY <1>2, <1>4, <3>1, <3>2, <3>3
  <2>2. CASE r # 0
    <3>1. above = up + 1 /\ above - 1 = up
      BY <1>4, <2>2 DEF One
    <3>2. h * up \in Nat /\ h * (up + 1) \in Nat
      BY <1>2, <1>4
    <3>3. h * up < 2 * s + c
      BY <1>2, <1>4, <2>2, <3>2
    <3>4. QED
      BY <1>2, <1>4, <3>1, <3>2, <3>3
  <2>3. QED
    BY <2>1, <2>2
<1>9. \A htr \in Int : WireBounds(l, htr, ntr) = <<(h * htr + o) - s, (h * htr + o) + s>>
  BY DEF WireBounds, HtrToCoord, h, o, s
<1>. HIDE DEF above
<1>10. /\ WireBounds(l, above, ntr)[1] >= coord /\ WireBounds(l, above - 1, ntr)[1] < coord
  <2>1. h * above \in Int /\ h * (above - 1) \in Int
    BY <1>2, <1>8
  <2>2. (h * above + o) - s >= (o + s) + c /\ (h * (above - 1) + o) - s < (o + s) + c
    BY <1>2, <1>8, <2>1
  <2>3. QED
    BY <1>8, <1>9, <2>2 DEF coord
<1>11. /\ WireBounds(l, down, ntr)[2] <= coord /\ WireBounds(l, down + 1, ntr)[2] > coord
  <2>1. h * down \in Int /\ h * (down + 1) \in Int
    BY <1>2, <1>4
  <2>2. (h * down + o) + s <= (o + s) + c /\ (h * (down + 1) + o) + s > (o + s) + c
    BY <1>2, <1>4, <2>1
  <2>3. QED
    BY <1>4, <1>9, <2>2 DEF coord
<1>12. QED
  BY <1>6, <1>7, <1>10, <1>11 DEF NextWires, coord, above, o, s

\* A number of half pitches that was rounded up covers the space beyond the track's own.
LEMMA SpaceCovered ==
  ASSUME NEW S, NEW t \in TrackOf(S), NEW space \in Int
  PROVE  t.sp + HalfPitch(t) * SpaceToHtr(t, space) >= space
<1> DEFINE h == HalfPitch(t)
           x == Max({space - t.sp, 0})
           q == (x + h - 1) \div h
<1>1. h \in Positive /\ h \in Nat /\ h > 0 /\ t.sp \in Nat
  BY SizesOf DEF Positive
<1>2. x \in Nat /\ space - t.sp <= x
  BY <1>1, MaxOfTwo
<1>3. SpaceToHtr(t, space) = q
  BY DEF SpaceToHtr, CeilDiv
<1>. HIDE DEF x, h
<1>4. x + h - 1 \in Nat
  BY <1>1, <1>2
<1>5. q \in Nat /\ (x + h - 1) % h \in 0 .. h - 1 /\ x + h - 1 = h * q + ((x + h - 1) % h)
  BY <1>1, <1>4, DividesMeans
<1>. HIDE DEF q
<1>6. h * q \in Nat
  BY <1>1, <1>5
<1>7. h * q >= x
  <2> DEFINE r == (x + h - 1) % h
  <2>1. r \in Int /\ r <= h - 1 /\ x + h - 1 = h * q + r
    BY <1>1, <1>5
  <2>. HIDE DEF r
  <2>2. QED
    BY <1>1, <1>2, <1>6, <2>1
<1>8. t.sp + h * q >= space
  BY <1>1, <1>2, <1>6, <1>7
<1>9. QED
  BY <1>3, <1>8 DEF h

\* The tables have whole numbers.
LEMMA SpaceWhole ==
  ASSUME NEW key, NEW width \in Int, NEW type
  PROVE  MinSpace(key, width, type, FALSE) \in Int
<1> DEFINE table == SpaceRules[IF type \in DOMAIN SpaceRules THEN type ELSE "DIFF_COLOR"]
           rules == table[key]
           fits == FirstFit(rules, width)
           at == IF fits = {} THEN Len(rules) ELSE Min(fits)
<1>1. CASE key \notin DOMAIN table
  BY <1>1 DEF MinSpace
<1>2. CASE key \in DOMAIN table
  <2>1. rules \in Seq(Int \X Int) /\ rules # << >>
    BY <1>2, RulesAssumption
  <2>. HIDE DEF table, rules
  <2>2. Len(rules) \in 1 .. Len(rules) /\ DOMAIN rules = 1 .. Len(rules) /\ Len(rules) \in Int
    BY <2>1
  <2>3. fits \subseteq 1 .. Len(rules)
    BY <2>2 DEF FirstFit
  <2>. HIDE DEF fits
  <2>4. fits # {} => Min(fits) \in fits
    <3> DEFINE n == Len(rules)
    <3>0. 1 \in Int /\ n \in Int /\ fits \subseteq 1 .. n
      BY <2>2, <2>3
    <3>. HIDE DEF n
    <3>1. fits \subseteq Int /\ IsFiniteSet(fits)
      BY <3>0, IntervalPart
    <3>2. QED
      BY <3>1, Extremes
  <2>5. at \in 1 .. Len(rules)
    BY <2>2, <2>3, <2>4
  <2>. HIDE DEF at
  <2>6. rules[at][2] \in Int
    BY <2>1, <2>5
  <2>7. MinSpace(key, width, type, FALSE) = rules[at][2]
    BY <1>2 DEF MinSpace, MadeEven, table, rules, at, fits
  <2>8. QED
    BY <2>6, <2>7
<1>3. QED
  BY <1>1, <1>2

\* The extensions of a via between the wires of two levels are whole numbers.
LEMMA ExtensionWhole ==
  ASSUME GridInv, NEW l \in Levels, NEW m \in Levels, NEW ntr \in 1 .. 2, Layers(l, m) \in ViaIds
  PROVE  \A i \in 1 .. 2 : ViaExtensions(l, ntr, m, 1)[i] \in Int
<1> DEFINE dir == info[l].dir
           along == info[Min({l, m})].dir
           dim == [i \in 1 .. 2 |-> IF i = dir THEN WireSpan(info[l], ntr) ELSE WireSpan(info[m], 1)]
           metal == ViaMetal(Layers(l, m), dim, along, TRUE)
<1>1. PICK S : info \in [Levels -> TrackOf(S)]
  BY DEF GridInv, Tracked
<1>2. ASSUME NEW k \in Levels, NEW n \in 1 .. 2
      PROVE  WireSpan(info[k], n) \in NarrowSpans /\ WireSpan(info[k], n) \in Nat
  <2>1. <<info[k].w, info[k].sp>> \in TrackSizes
    BY DEF GridInv, Tracked
  <2>2. WireSpan(info[k], n) = WireSpan([w |-> info[k].w, sp |-> info[k].sp], n)
    BY DEF WireSpan, Pitch
  <2>3. WireSpan([w |-> <<info[k].w, info[k].sp>>[1], sp |-> <<info[k].w, info[k].sp>>[2]], n) \in NarrowSpans
    BY <2>1 DEF NarrowSpans
  <2>4. info[k] \in TrackOf(S)
    BY <1>1
  <2>5. QED
    BY <2>2, <2>3, <2>4, SizesOf
<1>3. dim \in [1 .. 2 -> NarrowSpans] /\ dim \in [1 .. 2 -> Nat]
  <2>1. WireSpan(info[l], ntr) \in NarrowSpans /\ WireSpan(info[m], 1) \in NarrowSpans
        /\ WireSpan(info[l], ntr) \in Nat /\ WireSpan(info[m], 1) \in Nat
    BY <1>2
  <2>2. QED
    BY <2>1
<1>4. dir \in 1 .. 2 /\ info[m].dir \in 1 .. 2 /\ along \in Directions
  <2>1. Min({l, m}) \in Levels
    <3>1. l \in Int /\ m \in Int
      BY GridAssumption DEF Levels
    <3>2. Min({l, m}) = l \/ Min({l, m}) = m
      BY <3>1, MaxOfTwo
    <3>3. QED
      BY <3>2
  <2>2. \A k \in Levels : info[k].dir \in Directions
    BY <1>1 DEF TrackOf
  <2>3. QED
    BY <2>1, <2>2 DEF Directions
<1>. HIDE DEF dim, along
<1>5. metal \in [1 .. 2 -> [1 .. 2 -> Nat]]
  BY <1>3, <1>4, MetalAssumption
<1>. HIDE DEF metal
<1>6. \A n \in Int : Half(n) \in Int
  BY DEF Half
<1>7. ASSUME NEW i \in 1 .. 2, NEW d \in 1 .. 2
      PROVE  Half(metal[i][d] - dim[d]) \in Int
  <2>1. metal[i][d] \in Nat /\ dim[d] \in Nat
    BY <1>3, <1>5
  <2>2. metal[i][d] - dim[d] \in Int
    BY <2>1
  <2>3. QED
    BY <1>6, <2>2
<1>8. ViaExtensions(l, ntr, m, 1) = ViaExt(metal, dim, IF l < m THEN 1 ELSE 2, dir, info[m].dir)
  BY DEF ViaExtensions, metal, dim, along
<1>9. QED
  BY <1>4, <1>7, <1>8 DEF ViaExt

\* Whether they are of the tracks that a call changed or not, the tracks are placed right.
LEMMA TracksArePlaced ==
  ASSUME GridInv
  PROVE  TracksPlaced
<1>1. SUFFICES ASSUME NEW l \in Levels
      PROVE  LET t == info[l]
             IN  /\ \A htr \in -3 .. 3 : /\ OnTrack(t, HtrToCoord(t, htr))
                                          /\ CoordToHtr(t, HtrToCoord(t, htr), "NONE", FALSE) = htr
                 /\ t.offset = 0 =>
                      \A x \in Xforms, htr \in -3 .. 3 :
                        LET d == Perpendicular(t.dir)
                        IN  ~FlipsXY(x.orient) /\ OnTrack(t, x.loc[d]) =>
                              HtrToCoord(t, TransformHtr(t, htr, x))
                                = Sign(x.orient)[d] * HtrToCoord(t, htr) + x.loc[d]
                 /\ \A ntr \in 1 .. 2 :
                      /\ \A c \in 0 .. Pitch(t) :
                           NextWires(l, t.offset + WireSpan(t, ntr) \div 2 + c, ntr)
                      /\ \A same \in BOOLEAN :
                           t.sp + HalfPitch(t) * MinSpaceHtr(t, l, ntr, same, FALSE)
                             >= MinSpace(TestKey(l), WireSpan(t, ntr), IF same THEN "SAME_COLOR" ELSE "DIFF_COLOR", FALSE)
                      /\ \A m \in Levels \cap {l - 1, l + 1} : info[m].dir # t.dir /\ Layers(l, m) \in ViaIds =>
                           t.sp + HalfPitch(t) * LineEndSpaceHtr(l, ntr, m)
                             >= 2 * ViaExtensions(l, ntr, m, 1)[IF l < m THEN 1 ELSE 2]
                                + MinSpace(TestKey(l), WireSpan(t, ntr), "LINE_END", FALSE)
  BY DEF TracksPlaced
<1> DEFINE t == info[l]
<1>2. PICK S : info \in [Levels -> TrackOf(S)]
  BY DEF GridInv, Tracked
<1>3. t \in TrackOf(S)
  BY <1>2
<1>4. ASSUME NEW htr \in -3 .. 3
      PROVE  OnTrack(t, HtrToCoord(t, htr)) /\ CoordToHtr(t, HtrToCoord(t, htr), "NONE", FALSE) = htr
  <2>. HIDE DEF t
  <2>1. htr \in Int
    OBVIOUS
  <2>2. QED
    BY <1>3, <2>1, TracksOnTrack
<1>5. ASSUME t.offset = 0, NEW x \in Xforms, NEW htr \in -3 .. 3, OnTrack(t, x.loc[Perpendicular(t.dir)])
      PROVE  HtrToCoord(t, TransformHtr(t, htr, x))
               = Sign(x.orient)[Perpendicular(t.dir)] * HtrToCoord(t, htr) + x.loc[Perpendicular(t.dir)]
  <2>1. x \in Xform /\ htr \in Int
    BY GridAssumption
  <2>. HIDE DEF t
  <2>2. QED
    BY <1>3, <1>5, <2>1, TracksMoved
<1>6. ASSUME NEW ntr \in 1 .. 2, NEW c \in 0 .. Pitch(t)
      PROVE  NextWires(l, t.offset + WireSpan(t, ntr) \div 2 + c, ntr)
  <2>1. c \in Nat
    BY <1>3, SizesOf
  <2>2. QED
    BY <2>1, NextWiresFound
<1>7. ASSUME NEW ntr \in 1 .. 2, NEW same \in BOOLEAN
      PROVE  t.sp + HalfPitch(t) * MinSpaceHtr(t, l, ntr, same, FALSE)
               >= MinSpace(TestKey(l), WireSpan(t, ntr), IF same THEN "SAME_COLOR" ELSE "DIFF_COLOR", FALSE)
  <2> DEFINE type == IF same THEN "SAME_COLOR" ELSE "DIFF_COLOR"
             space == MinSpace(TestKey(l), WireSpan(t, ntr), type, FALSE)
  <2>1. WireSpan(t, ntr) \in Int
    BY <1>3, SizesOf
  <2>. HIDE DEF t, type
  <2>2. space \in Int
    BY <2>1, SpaceWhole
  <2>3. MinSpaceHtr(t, l, ntr, same, FALSE) = SpaceToHtr(t, space)
    BY DEF MinSpaceHtr, type
  <2>. HIDE DEF space
  <2>4. t.sp + HalfPitch(t) * SpaceToHtr(t, space) >= space
    BY <1>3, <2>2, SpaceCovered
  <2>5. QED
    BY <2>3, <2>4 DEF space, type
<1>8. ASSUME NEW ntr \in 1 .. 2, NEW m \in Levels \cap {l - 1, l + 1}, info[m].dir # t.dir, Layers(l, m) \in ViaIds
      PROVE  t.sp + HalfPitch(t) * LineEndSpaceHtr(l, ntr, m)
               >= 2 * ViaExtensions(l, ntr, m, 1)[IF l < m THEN 1 ELSE 2]
                  + MinSpace(TestKey(l), WireSpan(t, ntr), "LINE_END", FALSE)
  <2> DEFINE own == IF l < m THEN 1 ELSE 2
             ext == ViaExtensions(l, ntr, m, 1)[own]
             space == MinSpace(TestKey(l), WireSpan(t, ntr), "LINE_END", FALSE)
  <2>1. WireSpan(t, ntr) \in Int
    BY <1>3, SizesOf
  <2>2. space \in Int
    BY <2>1, SpaceWhole
  <2>3. own \in 1 .. 2 /\ ext \in Int
    BY <1>8, ExtensionWhole
  <2>4. LineEndSpaceHtr(l, ntr, m) = SpaceToHtr(t, 2 * ext + space)
    BY DEF LineEndSpaceHtr
  <2>. HIDE DEF t, space, ext
  <2>5. 2 * ext + space \in Int
    BY <2>2, <2>3
  <2>6. t.sp + HalfPitch(t) * SpaceToHtr(t, 2 * ext + space) >= 2 * ext + space
    BY <1>3, <2>5, SpaceCovered
  <2>7. QED
    BY <2>4, <2>6 DEF ext, space, t
<1>9. QED
  BY <1>4, <1>5, <1>6, <1>7, <1>8

\* The element of a set that none is below is its minimum.
LEMMA LeastIs ==
  ASSUME NEW U, U \subseteq Int, NEW x \in U
  PROVE  /\ (\A y \in U : x <= y) => Min(U) = x
         /\ (\A y \in U : y <= x) => Max(U) = x
<1>1. ASSUME \A y \in U : x <= y PROVE Min(U) = x
  <2>1. Min(U) \in U /\ \A y \in U : Min(U) <= y
    BY <1>1 DEF Min
  <2>2. x <= Min(U) /\ Min(U) <= x /\ x \in Int /\ Min(U) \in Int
    BY <1>1, <2>1
  <2>3. QED
    BY <2>2
<1>2. ASSUME \A y \in U : y <= x PROVE Max(U) = x
  <2>1. \A y \in U : x >= y
    BY <1>2
  <2>2. Max(U) \in U /\ \A y \in U : Max(U) >= y
    BY <2>1 DEF Max
  <2>3. x >= Max(U) /\ Max(U) >= x /\ x \in Int /\ Max(U) \in Int
    BY <2>1, <2>2
  <2>4. QED
    BY <2>3
<1>3. QED
  BY <1>1, <1>2

\* The bounds of an array on tracks of an even pitch are those of its first and last wire.
LEMMA ArraysAreBounded ==
  ASSUME GridInv
  PROVE  ArraysBounded
<1>1. SUFFICES ASSUME NEW a \in DOMAIN Arrays, Tid(a).level \in Levels, Pitch(info[Tid(a).level]) % 2 = 0
      PROVE  LET t == Tid(a)
                 bounds(i) == WireBounds(t.level, HtrOf(t, i), t.ntr)
             IN  TidBounds(t) = <<Min({bounds(i)[1] : i \in Copies(t)}), Max({bounds(i)[2] : i \in Copies(t)})>>
  BY DEF ArraysBounded
<1> DEFINE t == Tid(a)
           k == info[t.level]
           h == HalfPitch(k)
           s == WireSpan(k, t.ntr) \div 2
           at == h * t.htr + k.offset
           last == t.num - 1
           p == t.pitch
           d == (last * p) * h
           bounds(i) == WireBounds(t.level, HtrOf(t, i), t.ntr)
           Lower == {bounds(i)[1] : i \in Copies(t)}
           Upper == {bounds(i)[2] : i \in Copies(t)}
<1>2. /\ last \in Nat /\ Copies(t) = 0 .. last /\ p \in Int /\ t.htr \in Int /\ t.ntr \in Nat \ {0}
      /\ last = 0 \/ last > 0
  BY ArrayParts DEF TidType, Copies
<1>3. PICK S : k \in TrackOf(S)
  BY <1>1 DEF GridInv, Tracked
<1>4. /\ h \in Nat /\ h > 0 /\ k.offset \in Int /\ k.w \in Nat /\ Pitch(k) \in Nat
  BY <1>3, SizesOf DEF Positive
<1>5. Pitch(k) = 2 * h
  BY <1>1, <1>4 DEF HalfPitch
<1>6. s \in Int
  <2>1. (t.ntr - 1) * Pitch(k) \in Int
    BY <1>2, <1>4
  <2>2. WireSpan(k, t.ntr) \in Int
    BY <1>4, <2>1 DEF WireSpan
  <2>3. \A n \in Int : n \div 2 \in Int
    OBVIOUS
  <2>4. QED
    BY <2>2, <2>3
<1>7. at \in Int /\ d \in Int
  BY <1>2, <1>4
<1>8. \A i \in Copies(t) : bounds(i) = <<at + (i * p) * h - s, at + (i * p) * h + s>>
  <2>1. TAKE i \in Copies(t)
  <2>2. i \in Int
    BY <1>2
  <2>3. h * (t.htr + i * p) = h * t.htr + (i * p) * h
    BY <1>2, <1>4, <2>2
  <2>4. h * t.htr \in Int /\ (i * p) * h \in Int
    BY <1>2, <1>4, <2>2
  <2>5. HtrToCoord(k, HtrOf(t, i)) = (h * t.htr + (i * p) * h) + k.offset
    BY <2>3 DEF HtrToCoord, HtrOf
  <2>6. (h * t.htr + (i * p) * h) + k.offset = at + (i * p) * h
    BY <1>4, <2>4
  <2>7. bounds(i) = <<HtrToCoord(k, HtrOf(t, i)) - s, HtrToCoord(k, HtrOf(t, i)) + s>>
    BY DEF WireBounds
  <2>. HIDE DEF h, at, k, s, bounds
  <2>8. HtrToCoord(k, HtrOf(t, i)) = at + (i * p) * h
    BY <2>5, <2>6
  <2> DEFINE x == HtrToCoord(k, HtrOf(t, i))
             y == (i * p) * h
  <2>9. y \in Int /\ x = at + y /\ bounds(i) = <<x - s, x + s>>
    BY <2>4, <2>7, <2>8
  <2>. HIDE DEF x, y
  <2>10. bounds(i) = <<at + y - s, at + y + s>>
    BY <1>6, <1>7, <2>9
  <2>11. QED
    BY <2>10 DEF y
<1>. HIDE DEF k, s, at, p, last
<1>9. WireBounds(t.level, t.htr, t.ntr) = <<at - s, at + s>>
  <2>1. 0 \in Copies(t) /\ HtrOf(t, 0) = t.htr
    BY <1>2 DEF HtrOf, p
  <2>2. bounds(0) = <<at + (0 * p) * h - s, at + (0 * p) * h + s>>
    BY <1>8, <2>1
  <2>3. (0 * p) * h = 0
    BY <1>2, <1>4
  <2>4. QED
    BY <1>6, <1>7, <2>1, <2>2, <2>3
<1>10. Half((last * p) * Pitch(k)) = d
  <2>1. (last * p) * Pitch(k) = 2 * d
    BY <1>2, <1>4, <1>5
  <2>2. \A n \in Int : Half(2 * n) = n
    <3>1. TAKE n \in Int
    <3>2. n >= 0 => (2 * n) \div 2 = n /\ 2 * n >= 0
      OBVIOUS
    <3>3. ~(n >= 0) => (-(2 * n)) \div 2 = -n /\ ~(2 * n >= 0)
      OBVIOUS
    <3>4. QED
      BY <3>2, <3>3 DEF Half
  <2>. HIDE DEF d
  <2>3. QED
    BY <1>7, <2>1, <2>2
<1>11. TidBounds(t) = IF d > 0 THEN <<at - s, at + s + d>> ELSE <<at - s + d, at + s>>
  BY <1>9, <1>10 DEF TidBounds, k, p, last
<1>12. ASSUME NEW i \in Copies(t)
       PROVE  /\ (i * p) * h \in Int
              /\ d > 0 => 0 <= (i * p) * h /\ (i * p) * h <= d
              /\ ~(d > 0) => d <= (i * p) * h /\ (i * p) * h <= 0
  <2>1. i \in Nat /\ i <= last /\ last \in Nat
    BY <1>2
  <2> DEFINE e == p * h
  <2>2. (i * p) * h = i * e /\ d = last * e /\ e \in Int
    BY <1>2, <1>4, <2>1
  <2>3. \A x \in Int : /\ x >= 0 => 0 <= i * x /\ i * x <= last * x
                       /\ x <= 0 => last * x <= i * x /\ i * x <= 0
    <3>1. \A x \in Nat, j \in Nat : x * j >= 0
      OBVIOUS
    <3>2. TAKE x \in Int
    <3>3. last * x - i * x = (last - i) * x /\ last - i \in Nat
      BY <2>1
    <3>4. x >= 0 => (last - i) * x >= 0 /\ i * x >= 0
      BY <2>1, <3>1, <3>3
    <3>5. x <= 0 => (last - i) * (-x) >= 0 /\ i * (-x) >= 0
      BY <2>1, <3>1, <3>3
    <3>6. (last - i) * (-x) = -((last - i) * x) /\ i * (-x) = -(i * x)
      BY <2>1
    <3>7. last * x \in Int /\ i * x \in Int /\ (last - i) * x \in Int
      BY <2>1
    <3>8. QED
      BY <3>3, <3>4, <3>5, <3>6, <3>7
  <2>. HIDE DEF d, e, h
  <2>4. (e >= 0 => 0 <= i * e /\ i * e <= d) /\ (e <= 0 => d <= i * e /\ i * e <= 0)
    BY <2>2, <2>3
  <2>5. d > 0 => e >= 0
    <3>1. \A x \in Int : x <= 0 => last * x <= 0
      <4>1. \A x \in Nat, j \in Nat : x * j >= 0
        OBVIOUS
      <4>2. TAKE x \in Int
      <4>3. x <= 0 => last * (-x) >= 0
        BY <2>1, <4>1
      <4>4. last * (-x) = -(last * x) /\ last * x \in Int
        BY <2>1
      <4>5. QED
        BY <4>3, <4>4
    <3>2. QED
      BY <2>2, <3>1, <1>7
  <2>6. ~(d > 0) => e <= 0 \/ (d = 0 /\ i * e = 0)
    <3>1. \A x \in Int : x > 0 /\ ~(last * x > 0) => last * x = 0 /\ i * x = 0
      <4>1. TAKE x \in Int
      <4>2. ASSUME x > 0, last # 0 PROVE last * x > 0
        BY <2>1, <4>2
      <4>3. last = 0 => i = 0
        BY <2>1
      <4>4. 0 * x = 0
        OBVIOUS
      <4>5. QED
        BY <4>2, <4>3, <4>4
    <3>2. e > 0 /\ ~(d > 0) => d = 0 /\ i * e = 0
      BY <2>2, <3>1
    <3>3. e <= 0 \/ e > 0
      BY <2>2
    <3>4. QED
      BY <3>2, <3>3, Zenon
  <2> DEFINE y == (i * p) * h
             z == i * e
  <2>7. y = z /\ z \in Int
    BY <2>1, <2>2
  <2>. HIDE DEF y
  <2>8. (e >= 0 => 0 <= z /\ z <= d) /\ (e <= 0 => d <= z /\ z <= 0) /\ (~(d > 0) => e <= 0 \/ (d = 0 /\ z = 0))
    BY <2>4, <2>6
  <2>. HIDE DEF z
  <2>9. y \in Int /\ (d > 0 => 0 <= y /\ y <= d) /\ (~(d > 0) => d <= y /\ y <= 0)
    BY <1>7, <2>5, <2>7, <2>8
  <2>10. QED
    BY <2>9 DEF y
<1>13. 0 \in Copies(t) /\ last \in Copies(t) /\ (0 * p) * h = 0
  BY <1>2, <1>4
<1> DEFINE m == [i \in Copies(t) |-> (i * p) * h]
<1>14. /\ \A i \in Copies(t) : m[i] \in Int /\ bounds(i)[1] = at + m[i] - s /\ bounds(i)[2] = at + m[i] + s
       /\ m[0] = 0 /\ m[last] = d
  BY <1>8, <1>12, <1>13
<1>15. \A i \in Copies(t) : (d > 0 => 0 <= m[i] /\ m[i] <= d) /\ (~(d > 0) => d <= m[i] /\ m[i] <= 0)
  BY <1>12
<1>. HIDE DEF m, d, bounds
<1>16. Lower \subseteq Int /\ Upper \subseteq Int
  BY <1>6, <1>7, <1>14
<1>17. at - s \in Lower /\ at - s + d \in Lower /\ at + s \in Upper /\ at + s + d \in Upper
  <2>1. bounds(0)[1] = at - s /\ bounds(0)[2] = at + s
    BY <1>6, <1>7, <1>13, <1>14
  <2>2. bounds(last)[1] = at - s + d /\ bounds(last)[2] = at + s + d
    BY <1>6, <1>7, <1>13, <1>14
  <2>3. bounds(0)[1] \in Lower /\ bounds(0)[2] \in Upper /\ bounds(last)[1] \in Lower /\ bounds(last)[2] \in Upper
    BY <1>13
  <2>4. QED
    BY <2>1, <2>2, <2>3
<1>18. CASE d > 0
  <2>1. \A y \in Lower : at - s <= y
    BY <1>6, <1>7, <1>14, <1>15, <1>18
  <2>2. \A y \in Upper : y <= at + s + d
    BY <1>6, <1>7, <1>14, <1>15, <1>18
  <2>. HIDE DEF Lower, Upper
  <2>3. Min(Lower) = at - s /\ Max(Upper) = at + s + d
    BY <1>16, <1>17, <2>1, <2>2, LeastIs
  <2>4. QED
    BY <1>11, <1>18, <2>3 DEF Lower, Upper, bounds
<1>19. CASE ~(d > 0)
  <2>1. \A y \in Lower : at - s + d <= y
    BY <1>6, <1>7, <1>14, <1>15, <1>19
  <2>2. \A y \in Upper : y <= at + s
    BY <1>6, <1>7, <1>14, <1>15, <1>19
  <2>. HIDE DEF Lower, Upper
  <2>3. Min(Lower) = at - s + d /\ Max(Upper) = at + s
    BY <1>16, <1>17, <2>1, <2>2, LeastIs
  <2>4. QED
    BY <1>11, <1>19, <2>3 DEF Lower, Upper, bounds
<1>20. QED
  BY <1>18, <1>19

-----------------------------------------------------------------------------
\* The variables keep their shape: every shape, pin and via is on layers the grid has, and
\* the tracks are tracks, whatever calls changed them (set_level and its like, the calls
\* of cellview_util.cpp, and get_htr_parity, which gives their colours).
THEOREM AlwaysTypeOK == Spec => []TypeOK
<1>1. ASSUME GridInv, DrawnInv, SearchInv PROVE TypeOK
  <2>1. PICK S : info \in [Levels -> TrackOf(S)]
    BY <1>1 DEF GridInv, Tracked
  <2>2. DOMAIN info = Levels /\ \A l \in Levels : TrackOK(info[l])
    BY <2>1 DEF TrackOK, TrackOf
  <2>3. ASSUME NEW l \in Levels, NEW htr \in -3 .. 3
        PROVE  HtrParity(l, htr) \in 0 .. NumColors[l] - 1
    BY <1>1, LayerIsKey
  <2>4. IterOK
    BY <1>1 DEF SearchInv, CountersOK, IterOK
  <2>5. GridTypeOK
    BY <1>1, <2>2, <2>3, <2>4 DEF GridTypeOK, GridInv, MarksIn
  <2>6. \A k \in Keys : k[1] \in Levels /\ k[2] \in 0 .. NumColors[k[1]] - 1
    <3>1. TAKE k \in Keys
    <3>2. k[1] \in Levels /\ k[2] \in Nat /\ k[2] < NumColors[k[1]]
      BY DEF Keys
    <3>3. NumColors[k[1]] \in Nat
      BY <3>2, GridAssumption
    <3>4. QED
      BY <3>2, <3>3
  <2>7. \A x \in rects \cup pins : x.key[1] \in Levels /\ x.key[2] \in 0 .. NumColors[x.key[1]] - 1
    BY <1>1, <2>6 DEF DrawnInv, OnKeys
  <2>8. \A x \in vias : x.sound \in BOOLEAN /\ \A l \in 1 .. 2 : x.id[l][1] \in Levels
    BY <1>1, <2>6 DEF DrawnInv, ViasTyped
  <2>9. draws \in 0 .. MaxCalls
    BY <1>1 DEF GridInv
  <2>10. QED
    BY <2>5, <2>7, <2>8, <2>9 DEF TypeOK
<1>2. QED
  BY InitSearch, InitGrid, InitDrawn, StepKeeps, GridStep, DrawnStep, <1>1, PTL DEF Spec

\* Each metal of a via that a call drew to its end lies in a wire on its layer and colour,
\* for every grid, technology, array and box: the calls that draw vias extend the wires
\* over them (add_via_on_intersections, connect_warr_track, connect_box_track where its
\* two indexings agree and the box is not odd, add_via_arr).
THEOREM AlwaysViasCovered == Spec => []ViasCovered
<1>1. DrawnInv => ViasCovered
  BY DEF DrawnInv, AllCovered, Covers, ViasCovered
<1>2. QED
  BY InitGrid, InitDrawn, GridStep, DrawnStep, <1>1, PTL DEF Spec

\* The grid's numbers fit together, whatever calls changed it: block pitches are the least
\* that the tracks of their group divide (update_block_pitch), half tracks and coordinates
\* correspond and the next wires are found (coord_to_htr, find_next_htr, transform_htr,
\* get_min_space_htr, get_line_end_space_htr), and arrays have the bounds of their wires
\* (track_id::get_bounds).
THEOREM AlwaysOnGrid == Spec => []OnGrid
<1>1. ASSUME GridInv, BlocksInv PROVE OnGrid
  BY <1>1, BlocksAreOnGrid, TracksArePlaced, ArraysAreBounded DEF OnGrid
<1>2. QED
  BY InitGrid, InitBlocks, GridStep, BlocksStep, <1>1, PTL DEF Spec
=============================================================================
