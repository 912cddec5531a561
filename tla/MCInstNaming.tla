---------------------------- MODULE MCInstNaming ----------------------------
(***************************************************************************)
(* InstNaming with user names X<n> on both sides of the numbers that the   *)
(* doubling visits, and enough unnamed instances to run into them.         *)
(***************************************************************************)
EXTENDS InstNaming
CONSTANTS A
MCNumbers == {0, 1, 2, 4, 5, 8}
MCOthers == {A}
=============================================================================
