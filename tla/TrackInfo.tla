------------------------------ MODULE TrackInfo ------------------------------
(***************************************************************************)
(* cbag::layout::track_info and the functions on it: the tracks of one     *)
(* routing level.  Tracks are counted in half pitches (htr) from `offset`. *)
(* Directions are 1 for horizontal and 2 for vertical tracks.              *)
(***************************************************************************)
EXTENDS Transforms, TechRules

Directions == 1 .. 2
Perpendicular(dir) == 3 - dir

Pitch(t) == t.w + t.sp
HalfPitch(t) == Pitch(t) \div 2

\* The wires that fill num_tr tracks: one, as wide as the tracks together.
WireSpan(t, num_tr) == t.w + (num_tr - 1) * Pitch(t)

HtrToCoord(t, htr) == HalfPitch(t) * htr + t.offset

\* std::div
Quot(a, b) == IF a >= 0 THEN a \div b ELSE -((-a) \div b)
Rem(a, b) == a - b * Quot(a, b)

One(cond) == IF cond THEN 1 ELSE 0

\* A slip: the half track below for the half track above.
CoordToHtr_Floor(t, coord, mode, even) ==
  LET modulus == IF even THEN Pitch(t) ELSE HalfPitch(t)
  IN  Quot(coord - t.offset, modulus)

\* coord_to_htr.  The quotient and remainder are those of C++, so below the offset the
\* roundings are towards it.
CoordToHtr(t, coord, mode, even) ==
  LET modulus == IF even THEN Pitch(t) ELSE HalfPitch(t)
      q == Quot(coord - t.offset, modulus)
      r == Rem(coord - t.offset, modulus)
  IN  CASE mode = "LESS"       -> q - One(r = 0)
        [] mode = "NEAREST"    -> q + One(\/ r > modulus \div 2
                                          \/ r = modulus \div 2 /\ modulus % 2 = 0 /\ q % 2 = 1)
        [] mode = "GREATER_EQ" -> q + One(r # 0)
        [] mode = "GREATER"    -> q + One(r = 0)
        [] OTHER               -> q

\* The mode NONE throws unless the coordinate is on a half track.
OnTrack(t, coord) == Rem(coord - t.offset, HalfPitch(t)) = 0

\* find_next_htr, which refuses the modes NEAREST and NONE.
FindNextHtr(t, coord, ntr, mode, even) ==
  LET sign == IF mode \in {"GREATER_EQ", "GREATER"} THEN 1 ELSE -1
  IN  CoordToHtr(t, coord + sign * (WireSpan(t, ntr) \div 2), mode, even)

\* transform_htr for a transformation that keeps the axes and moves by half tracks.
TransformHtr(t, htr, xform) ==
  LET d == Perpendicular(t.dir)
  IN  Sign(xform.orient)[d] * htr + CoordToHtr(t, xform.loc[d], "NONE", FALSE)

SpaceToHtr(t, space) == CeilDiv(Max({space - t.sp, 0}), HalfPitch(t))

\* get_min_space_htr: a single wire fills its span, so nothing is taken off the space.
MinSpaceHtr(t, level, num_tr, same_color, even) ==
  SpaceToHtr(t, MinSpace(TestKey(level), WireSpan(t, num_tr),
                         IF same_color THEN "SAME_COLOR" ELSE "DIFF_COLOR", even))
=============================================================================
