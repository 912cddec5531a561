--------------------------- MODULE MCDisjointIntvs ---------------------------
(***************************************************************************)
(* DisjointIntvs on the coordinates 0..5: up to five intervals, and a key  *)
(* that cuts two of them with a third in between.                          *)
(***************************************************************************)
EXTENDS DisjointIntvs

MCScales == {-1, 0, 2}
MCShifts == {3}
MCOthers == {<< <<0, 3>>, <<4, 5>> >>,
             << <<0, 1>>, <<1, 2>>, <<3, 4>> >>,
             << <<0, 1>>, <<2, 5>> >>}
=============================================================================
