---------------------------- MODULE MCSchCellview ----------------------------
(***************************************************************************)
(* SchCellview with instance names of sizes 1, 2 and 3, the last of them a *)
(* repetition, one name that the parser rejects, and nets of one and two   *)
(* bits: every outcome of update_connection and of resize_nets occurs.     *)
(* Instances are kept in a sorted_map in the order of their names, which   *)
(* Rank gives, with free ranks between and after them for new names.       *)
(***************************************************************************)
EXTENDS SchCellview, SortedMap

CONSTANTS X, X2, X3, bad, t1, t2, net1, net2, net3

MCInstNames == {X, X2, X3, bad}
MCNameSize == [i \in MCInstNames |-> CASE i = X -> 1 [] i = X2 -> 2 [] i = X3 -> 3 [] i = bad -> 0]
MCUnitNames == {X, X2}
MCTerms == {t1, t2}
MCTermSize == [t \in MCTerms |-> IF t = t1 THEN 1 ELSE 2]
MCRank == [i \in MCInstNames |-> CASE i = X -> 1 [] i = X2 -> 2 [] i = X3 -> 4 [] i = bad -> 5]
MCNets == {<<net1>>, <<net2, net3>>}

\* Tabulated, so that TLC works it out once.
ExactTable == {<<S, CallsExactOn(S)>> : S \in SUBSET MapKeys}

\* Whatever instances the edits leave, every call on the vector that holds them is
\* exact: lookups, insertions, removals and renamings to any other name, which rotate
\* the vector between the place of the old name and that of the new one.
InstanceMapExact == <<{MCRank[i] : i \in DOMAIN instances}, TRUE>> \in ExactTable
=============================================================================
