---------------------------- MODULE MCViaSearch ----------------------------
(***************************************************************************)
(* ViaSearch with four kinds of cut: a square one with several spacings, a *)
(* rectangular one, one that cannot be arrayed and one whose enclosures    *)
(* are too large for most overlaps, so that every branch of the search is  *)
(* taken and two kinds tie.  One kind has the same enclosures in both      *)
(* layers.                                                                 *)
(***************************************************************************)
EXTENDS ViaSearch

Enc(width, encs) == [width |-> width, encs |-> encs]

Square == [cut |-> <<2, 2>>, sp |-> <<2, 2>>, sp2 |-> << <<2, 2>>, <<3, 2>> >>,
           sp3 |-> << <<3, 3>>, <<2, 4>> >>,
           enc |-> << <<Enc(4, {<<1, 0>>, <<0, 1>>}), Enc(MaxInt, {<<1, 1>>, <<2, 0>>})>>,
                      <<Enc(MaxInt, {<<0, 2>>, <<1, 1>>, <<2, 0>>})>> >>]
Rect == [cut |-> <<4, 2>>, sp |-> <<2, 2>>, sp2 |-> << >>, sp3 |-> << >>,
         enc |-> << <<Enc(MaxInt, {<<0, 0>>, <<1, 0>>})>>, <<Enc(MaxInt, {<<0, 1>>})>> >>]
Tall == [Rect EXCEPT !.cut = <<2, 4>>, !.enc[2] = Rect.enc[1]]
Single == [cut |-> <<2, 2>>, sp |-> <<MaxInt, MaxInt>>, sp2 |-> << >>, sp3 |-> << >>,
           enc |-> << <<Enc(MaxInt, {<<0, 0>>})>>, <<Enc(3, {}), Enc(MaxInt, {<<1, 0>>})>> >>]
Wide == [cut |-> <<2, 2>>, sp |-> <<2, 2>>, sp2 |-> << >>, sp3 |-> << >>,
         enc |-> << <<Enc(MaxInt, {<<4, 0>>, <<0, 3>>})>>, <<Enc(MaxInt, {<<3, 3>>})>> >>]

MCInfos == {Square, Rect, Tall, Single, Wide}
MCInfoLists == {<<i>> : i \in MCInfos} \cup {<<i, j>> : i, j \in MCInfos}
MCBoxes == {2, 3, 6, 8, 12} \X {2, 5, 8, 10}
=============================================================================
