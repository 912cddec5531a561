------------------------------ MODULE TechRules ------------------------------
(***************************************************************************)
(* What layout code asks of cbag::layout::tech: the layers of a routing    *)
(* level, minimum spaces and lengths, the via between two layers, and the  *)
(* currents a wire or a via carries.  The tables are read from a file when *)
(* the technology is made and never change.                                *)
(*                                                                         *)
(* A layer and purpose of routing level l is <<l, c>>, c counting the      *)
(* entries of the level's list (its colours) from 0.  A via ID stands for  *)
(* the pair of layers it is looked up with, the lower one first.           *)
(***************************************************************************)
EXTENDS Integers, Sequences, FiniteSetsExt

CONSTANTS
  NumColors,   \* the lay_purp_list of each routing level: how many layers it has
  SpaceRules,  \* per space type and layer: pairs of a wire width and a space
  LenRules,    \* per layer: w_al and md_al, triples of a size, an area and a length
  ViaIds,      \* the pairs of layers that have a via
  ViaMetal(_, _, _, _),     \* get_via_param: via, dimension, direction of the lower metal, extend
  MetalEm(_, _),            \* get_metal_em_specs, of a subclass: level and width
  ViaEm(_, _, _, _)         \* get_via_em_specs of the technology: both levels and widths

\* The file has spaces of two types; the last rule of a list is read without a test.
ASSUME RulesAssumption ==
  /\ {"DIFF_COLOR", "LINE_END"} \subseteq DOMAIN SpaceRules
  /\ \A type \in DOMAIN SpaceRules : \A key \in DOMAIN SpaceRules[type] :
       /\ SpaceRules[type][key] \in Seq(Int \X Int)
       /\ SpaceRules[type][key] # << >>

\* A via is known by the dimensions of its two metals; get_via_param's empty result
\* has none.
NoMetal == << <<0, 0>>, <<0, 0>> >>

FirstFit(rules, size) == {i \in DOMAIN rules : size <= rules[i][1]}

MadeEven(n, even) == IF even /\ n % 2 = 1 THEN n + 1 ELSE n

\* get_min_space: the first rule whose width is not exceeded, the last one for wider
\* wires; 0 for a layer without rules.  Same-colour rules default to the others.
MinSpace(key, width, type, even) ==
  LET table == SpaceRules[IF type \in DOMAIN SpaceRules THEN type ELSE "DIFF_COLOR"]
  IN  IF key \notin DOMAIN table THEN 0
      ELSE LET rules == table[key]
               fits == FirstFit(rules, width)
           IN  MadeEven(rules[IF fits = {} THEN Len(rules) ELSE Min(fits)][2], even)

CeilDiv(x, y) == (x + y - 1) \div y

\* The first rule whose width is not exceeded; nothing for wider wires.
MinLenWidth(w, rules) ==
  LET fits == FirstFit(rules, w)
  IN  IF fits = {} THEN 0
      ELSE LET r == rules[Min(fits)] IN Max({r[3], CeilDiv(r[2], w)})

\* The rules by the larger dimension, applied one after the other for as long as
\* neither the width nor the length reached so far exceeds their size.
MinLenMaxDim(w, len, rules) ==
  LET after[i \in 0 .. Len(rules)] ==
        IF i = 0 THEN [len |-> len, on |-> TRUE]
        ELSE LET r == rules[i]
             IN  IF ~after[i - 1].on \/ Max({w, after[i - 1].len}) > r[1]
                 THEN [after[i - 1] EXCEPT !.on = FALSE]
                 ELSE [after[i - 1] EXCEPT !.len = Max({@, r[3], CeilDiv(r[2], w)})]
  IN  after[Len(rules)].len

MinLength(key, w, even) ==
  IF key \notin DOMAIN LenRules THEN 0
  ELSE MadeEven(MinLenMaxDim(w, MinLenWidth(w, LenRules[key].w_al), LenRules[key].md_al), even)

\* get_test_lay_purp: the layer that stands for a level.
TestKey(level) == <<level, 0>>

\* get_via_id for layers given by direction: the key has the lower one first.
ViaIdOf(vdir, key, adj_key) == IF vdir = 1 THEN <<key, adj_key>> ELSE <<adj_key, key>>

\* get_via_extensions: by how much each metal is longer than the overlap, halved.  The
\* result is indexed by layer, the lower one first; division truncates.
Half(n) == IF n >= 0 THEN n \div 2 ELSE -((-n) \div 2)

ViaExt(metal, dim, vdir, dir, adj_dir) ==
  [i \in 1 .. 2 |->
     LET d == IF i = vdir THEN dir ELSE adj_dir IN Half(metal[i][d] - dim[d])]
=============================================================================
