-------------------------------- MODULE Dict --------------------------------
(***************************************************************************)
(* Dictionaries as functions on a finite set of keys: what the calls of    *)
(* cbag::util::sorted_map do to the map, whatever vector stores it.  The   *)
(* modules that use a sorted_map use these operators.                      *)
(***************************************************************************)

EmptyDict == [k \in {} |-> k]
IsDict(f) == f = [k \in DOMAIN f |-> f[k]]
Has(f, k) == k \in DOMAIN f

InsertOrAssign(f, k, v) == [x \in DOMAIN f \cup {k} |-> IF x = k THEN v ELSE f[x]]

\* emplace does not overwrite.
Emplace(f, k, v) == [x \in DOMAIN f \cup {k} |-> IF x \in DOMAIN f THEN f[x] ELSE v]

Erase(f, k) == [x \in DOMAIN f \ {k} |-> f[x]]

\* The entries of f, and those of g whose keys f has not.
Overlay(f, g) == [x \in DOMAIN f \cup DOMAIN g |-> IF x \in DOMAIN f THEN f[x] ELSE g[x]]

\* replace_key when the map has old_key and has not new_key.
ReplaceKey(f, old_key, new_key) ==
  [x \in (DOMAIN f \ {old_key}) \cup {new_key} |-> IF x = new_key THEN f[old_key] ELSE f[x]]
=============================================================================
