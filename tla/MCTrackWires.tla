---------------------------- MODULE MCTrackWires ----------------------------
(***************************************************************************)
(* Instance of TrackWires for TLC: three levels with tracks of two         *)
(* pitches, a technology with two colours on the middle level and no via   *)
(* between the second of them and the top level.                           *)
(***************************************************************************)
EXTENDS TrackWires, TLC

MCInitTracks ==
  << [dir |-> 2, w |-> 2, sp |-> 2], [dir |-> 1, w |-> 2, sp |-> 4], [dir |-> 2, w |-> 4, sp |-> 2] >>
MCSizes == {<<2, 2>>, <<4, 6>>}
MCOffsets == {-3, 0}
MCXforms ==
  {MakeXform(<<2, 3>>, "R0"), MakeXform(<<-4, -3>>, "MX"), MakeXform(<<7, 6>>, "R180"),
   MakeXform(<<2, 3>>, "R90")}
MCBadParities == { << <<1, -1, 1>>, <<4, 1, 0>>, <<2, 1, 1>> >> }

MCNumColors == <<1, 2, 1>>
MCSpaceRules ==
  [DIFF_COLOR |-> (<<1, 0>> :> << <<2, 2>>, <<6, 5>> >>) @@ (<<2, 0>> :> << <<4, 4>> >>),
   LINE_END |-> (<<1, 0>> :> << <<8, 3>> >>)]
MCLenRules == (<<1, 0>> :> [w_al |-> << <<4, 20, 6>> >>, md_al |-> << <<9, 0, 9>>, <<12, 0, 13>> >>])
MCViaIds == {<< <<1, 0>>, <<2, 0>> >>, << <<1, 0>>, <<2, 1>> >>, << <<2, 0>>, <<3, 0>> >>}

\* One cut, or a row of them where there is room; each metal is wider than the cuts along
\* its direction, the upper one by more.
MCCuts(n) == IF n >= 6 THEN 6 ELSE 2
MCViaMetal(id, dim, dir, extend) ==
  LET metal == [l \in 1 .. 2 |-> [i \in 1 .. 2 |->
                  MCCuts(dim[i]) + (IF (i = dir) = (l = 1) THEN 2 * l ELSE 0)]]
  IN  IF Min({dim[1], dim[2]}) < 2 \/ (~extend /\ \E l, i \in 1 .. 2 : metal[l][i] > dim[i])
      THEN NoMetal ELSE metal

MCMetalEm(level, width) == <<width, width * width, 10>>
MCViaEm(level, adj, w, adj_w) == IF level = 3 THEN <<0, 0, 0>> ELSE <<w + adj_w, w * adj_w, 10>>

\* Alone; between two levels; with a via no size of which holds; with one of a current
\* too large for any wire.
MCRequests ==
  {[level |-> 2, currents |-> <<9, 30, 1>>, bot |-> 0, top |-> 0],
   [level |-> 2, currents |-> <<12, 90, 3>>, bot |-> 1, top |-> 2],
   [level |-> 3, currents |-> <<5, 5, 5>>, bot |-> 2, top |-> 0],
   [level |-> 1, currents |-> <<5, 5, 50>>, bot |-> 0, top |-> 0]}

MCArrays ==
  << [level |-> 1, htr |-> -1, ntr |-> 1, num |-> 2, pitch |-> 4, coord |-> <<-20, 20>>],
     [level |-> 2, htr |-> 2, ntr |-> 1, num |-> 2, pitch |-> -2, coord |-> <<-30, 30>>],
     [level |-> 3, htr |-> 1, ntr |-> 2, num |-> 1, pitch |-> 2, coord |-> <<-2, 6>>] >>
MCBounds == {<<None, None>>, <<-40, 7>>}
MCBoxCalls ==
  << [vdir |-> 1, key |-> <<1, 0>>, box |-> << <<-2, 2>>, <<-4, 4>> >>, num |-> <<2, 1>>,
      sp |-> <<10, 0>>, box_ext |-> <<None, 9>>, tr_ext |-> <<None, None>>, mode |-> "MIDDLE"],
     [vdir |-> 2, key |-> <<3, 0>>, box |-> << <<-3, 3>>, <<0, 2>> >>, num |-> <<1, 1>>,
      sp |-> <<0, 0>>, box_ext |-> <<None, None>>, tr_ext |-> <<-7, None>>, mode |-> "UPPER"],
     [vdir |-> 1, key |-> <<2, 0>>, box |-> << <<-3, 3>>, <<0, 5>> >>, num |-> <<2, 1>>,
      sp |-> <<-8, 0>>, box_ext |-> <<-9, None>>, tr_ext |-> <<None, 11>>, mode |-> "LOWER"] >>
MCViaCalls ==
  << [id |-> << <<1, 0>>, <<2, 0>> >>, at |-> <<1, 1>>, dim |-> <<2, 4>>, layers |-> TRUE,
      num |-> <<2, 2>>, sp |-> <<8, 12>>] >>
=============================================================================
