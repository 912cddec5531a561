----------------------------- MODULE ViaSearch -----------------------------
(***************************************************************************)
(* cbag::layout::via_lookup::get_via_param: the via that fills the overlap *)
(* of two wires.  For each kind of cut of the via ID, via_info searches    *)
(* the cut arrays with a priority queue, largest first, for one that the   *)
(* spacing and enclosure rules allow; the best of the results is returned. *)
(*                                                                         *)
(* A vector is a pair indexed by orientation (1 horizontal, 2 vertical),   *)
(* and a pair of layers is indexed by direction (1 lower, 2 upper).        *)
(***************************************************************************)
EXTENDS Integers, Sequences

CONSTANTS
  MaxInt,     \* the largest offset_t: no spacing allows two cuts
  Boxes,      \* the dimensions of overlaps
  InfoLists   \* the rules of a via ID: sequences of via_info records

Index == {1, 2}
Vector == Nat \X Nat
Spacing == (0 .. MaxInt) \X (0 .. MaxInt)

\* An enclosure rule applies up to a wire width; the last one to wider wires too.
EncRules == Seq([width : Nat, encs : SUBSET Vector]) \ {<< >>}
Info == [cut : (Nat \ {0}) \X (Nat \ {0}), sp : Spacing, sp2 : Seq(Spacing), sp3 : Seq(Spacing),
         enc : [Index -> EncRules]]

ASSUME ViaAssumption ==
  /\ MaxInt \in Nat \ {0}
  /\ Boxes \subseteq (Nat \ {0}) \X (Nat \ {0})
  /\ \A list \in InfoLists : list \in Seq(Info)

VARIABLES
  req,   \* the arguments of the call
  todo,  \* the rules not searched yet, from the one under search
  most,  \* nx_max and ny_max of the search under way, NoArray outside one
  heap,  \* the array sizes in the queue
  sps,   \* the spacings not tried yet for the size at the top
  opt,   \* the best fit among those tried
  ans,   \* the best via so far
  seen   \* what the searches so far returned (history)

vars == <<req, todo, most, heap, sps, opt, ans, seen>>

NoArray == <<0, 0>>
NoFit == [sp |-> <<-1, -1>>, arr |-> <<0, 0>>, dim |-> MaxInt, adj_dim |-> MaxInt]
NoVia == [num |-> <<0, 0>>, cut |-> <<0, 0>>, sp |-> <<0, 0>>, enc |-> << <<0, 0>>, <<0, 0>> >>]

MinOf(S) == CHOOSE x \in S : \A y \in S : x <= y
MaxOf2(a, b) == IF a >= b THEN a ELSE b
ElementsOf(s) == {s[i] : i \in DOMAIN s}

-----------------------------------------------------------------------------
(***************************************************************************)
(* The rules.  The constructor of via_info fills in missing spacings.      *)
(***************************************************************************)

Sp2(info) == IF info.sp2 = << >> THEN <<info.sp>> ELSE info.sp2
Sp3(info) == IF info.sp3 = << >> THEN Sp2(info) ELSE info.sp3

Spacings(info, num) ==
  IF num = <<2, 2>> THEN Sp2(info)
  ELSE IF num[1] > 1 /\ num[2] > 1 THEN Sp3(info) ELSE <<info.sp>>

MinSp(info, i) ==
  MinOf({info.sp[i]} \cup {s[i] : s \in ElementsOf(Sp2(info)) \cup ElementsOf(Sp3(info))})

NMax(dim, w, sp) ==
  IF sp = MaxInt THEN (IF dim > w THEN 1 ELSE 0) ELSE (dim + sp) \div (w + sp)

Most(info, dim) == [i \in Index |-> NMax(dim[i], info.cut[i], MinSp(info, i))]

\* get_arr_dim: 0 when the cuts cannot be arrayed.
ArrDim(n, w, sp) ==
  IF sp = MaxInt THEN (IF n = 1 THEN w ELSE 0) ELSE n * (w + sp) - sp

\* The first rule whose width is not exceeded, the last rule for wider wires.
EncList(rules, width) ==
  LET fits == {i \in DOMAIN rules : width <= rules[i].width}
  IN  rules[IF fits = {} THEN Len(rules) ELSE MinOf(fits)].encs

EncDim(e, arr, i) == 2 * e[i] + arr[i]

\* The lengths along d that a metal may have by one of the enclosures.
EnclosedDims(dim, arr, rules, d, extend) ==
  {EncDim(e, arr, d) : e \in {f \in EncList(rules, dim[3 - d]) :
                                /\ EncDim(f, arr, 3 - d) <= dim[3 - d]
                                /\ extend \/ EncDim(f, arr, d) <= dim[d]}}

\* A slip: the enclosure across the wire not checked.
MetalDim_NoAcross(dim, arr, rules, d, extend) ==
  LET encs == EncList(rules, dim[3 - d])
  IN  IF encs = {} THEN 0 ELSE MaxOf2(MinOf({EncDim(e, arr, d) : e \in encs}), dim[d])

\* get_metal_dim: the length of the metal along d, 0 when no enclosure fits.
MetalDim(dim, arr, rules, d, extend) ==
  LET lengths == EnclosedDims(dim, arr, rules, d, extend)
  IN  IF lengths = {} THEN 0 ELSE MaxOf2(MinOf(lengths), dim[d])

ArrDims(info, num, sp) == [i \in Index |-> ArrDim(num[i], info.cut[i], sp[i])]

\* A slip: each metal measured by the enclosures of the other layer.
Fit_OtherLayer(info, num, sp) ==
  LET arr == ArrDims(info, num, sp)
  IN  [sp |-> sp, arr |-> arr,
       dim |-> MetalDim(req.dim, arr, info.enc[2], req.dir, req.extend),
       adj_dim |-> MetalDim(req.dim, arr, info.enc[1], req.adj_dir, req.extend)]

\* An array of num cuts at the spacing sp, with the lengths of its two metals.
Fit(info, num, sp) ==
  LET arr == ArrDims(info, num, sp)
  IN  [sp |-> sp, arr |-> arr,
       dim |-> MetalDim(req.dim, arr, info.enc[1], req.dir, req.extend),
       adj_dim |-> MetalDim(req.dim, arr, info.enc[2], req.adj_dir, req.extend)]

Rules == UNION {ElementsOf(list) : list \in InfoLists}

\* The metals of the arrays a search may try have lengths that an offset_t can hold.
ASSUME LengthAssumption ==
  \A info \in Rules, dim \in Boxes, l, d \in Index, extend \in BOOLEAN :
    \A num \in (1 .. Most(info, dim)[1]) \X (1 .. Most(info, dim)[2]) :
      \A sp \in ElementsOf(Spacings(info, num)) :
        MetalDim(dim, ArrDims(info, num, sp), info.enc[l], d, extend) <= MaxInt

Fits(f) == f.arr[1] # 0 /\ f.arr[2] # 0 /\ f.dim # 0 /\ f.adj_dim # 0

-----------------------------------------------------------------------------
(***************************************************************************)
(* The queue: by the number of cuts, then by the pair.                     *)
(***************************************************************************)

\* A slip: the number of cuts forgotten.
Before_NoCount(m, n) == m[1] < n[1] \/ (m[1] = n[1] /\ m[2] < n[2])

Before(m, n) ==
  \/ m[1] * m[2] < n[1] * n[2]
  \/ /\ m[1] * m[2] = n[1] * n[2]
     /\ m[1] < n[1] \/ (m[1] = n[1] /\ m[2] < n[2])

Top(h) == CHOOSE n \in h : \A m \in h \ {n} : Before(m, n)

\* What a failed turn pushes, whatever the size it tried.
Smaller == {n \in {<<most[1] - 1, most[2]>>, <<most[1], most[2] - 1>>} : n[1] > 0 /\ n[2] > 0}

-----------------------------------------------------------------------------
(***************************************************************************)
(* via_lookup: the result p of one search against the best so far.         *)
(***************************************************************************)

Score(p) == p.num[1] * p.num[2] * p.cut[1] * p.cut[2]

ViaArrDim(p, d) == p.num[d] * (p.cut[d] + p.sp[d]) - p.sp[d]
ViaMetalDim(p, d, vdir) == ViaArrDim(p, d) + 2 * p.enc[vdir][d]

\* cur_ext_dim: the lengths of the metals of the two layers.
ExtDim(p) == <<ViaMetalDim(p, req.dir, req.vdir), ViaMetalDim(p, req.adj_dir, 3 - req.vdir)>>

\* A slip: one shorter metal taken for two.
Better_Either(p) ==
  \/ Score(p) > Score(ans)
  \/ /\ Score(p) > 0 /\ Score(p) = Score(ans)
     /\ ExtDim(p)[1] <= ExtDim(ans)[1] \/ ExtDim(p)[2] <= ExtDim(ans)[2]

Better(p) ==
  \/ Score(p) > Score(ans)
  \/ /\ Score(p) > 0 /\ Score(p) = Score(ans)
     /\ ExtDim(p)[1] <= ExtDim(ans)[1] /\ ExtDim(p)[2] <= ExtDim(ans)[2]

Return(p) ==
  /\ ans' = IF Better(p) THEN p ELSE ans
  /\ seen' = seen \cup {p}
  /\ todo' = Tail(todo)
  /\ most' = NoArray
  /\ heap' = {} /\ sps' = << >> /\ opt' = NoFit

-----------------------------------------------------------------------------
(***************************************************************************)
(* via_info::get_via_param.                                                *)
(***************************************************************************)

StartSearch ==
  /\ todo # << >> /\ most = NoArray
  /\ LET most_ == Most(Head(todo), req.dim)
     IN  \/ /\ 0 \in {most_[1], most_[2]}
            /\ Return(NoVia)
         \/ /\ 0 \notin {most_[1], most_[2]}
            /\ most' = most_
            /\ heap' = {most_}
            /\ sps' = Spacings(Head(todo), most_)
            /\ UNCHANGED <<todo, opt, ans, seen>>
  /\ UNCHANGED req

\* One spacing: the fit replaces the best one when no metal gets longer.
TrySpacing ==
  /\ sps # << >>
  /\ LET f == Fit(Head(todo), Top(heap), Head(sps))
     IN  opt' = IF Fits(f) /\ f.dim <= opt.dim /\ f.adj_dim <= opt.adj_dim THEN f ELSE opt
  /\ sps' = Tail(sps)
  /\ UNCHANGED <<req, todo, most, heap, ans, seen>>

\* A slip: the pop before the pushes.
Fail_PopFirst ==
  /\ heap # {} /\ sps = << >> /\ opt = NoFit
  /\ heap' = (heap \ {Top(heap)}) \cup Smaller
  /\ sps' = IF heap' = {} THEN << >> ELSE Spacings(Head(todo), Top(heap'))
  /\ UNCHANGED <<req, todo, most, opt, ans, seen>>

\* Nothing fits: push, and pop what is then the top.
Fail ==
  /\ heap # {} /\ sps = << >> /\ opt = NoFit
  /\ heap' = (heap \cup Smaller) \ {Top(heap \cup Smaller)}
  /\ sps' = IF heap' = {} THEN << >> ELSE Spacings(Head(todo), Top(heap'))
  /\ UNCHANGED <<req, todo, most, opt, ans, seen>>

\* The direction of layer l.
LayerDir(l) == IF l = req.vdir THEN req.dir ELSE req.adj_dir

\* The metal of the fit in layer l, as a vector.
FitMetal(l) ==
  LET d == LayerDir(l)
  IN  [i \in Index |-> IF i # d THEN req.dim[i]
                       ELSE IF l = req.vdir THEN opt.dim ELSE opt.adj_dim]

\* A slip: the spacing kept for a single cut.
Via_KeepSpacing ==
  [num |-> Top(heap), cut |-> Head(todo).cut, sp |-> opt.sp,
   enc |-> [l \in Index |-> [i \in Index |-> (FitMetal(l)[i] - opt.arr[i]) \div 2]]]

Via ==
  [num |-> Top(heap), cut |-> Head(todo).cut,
   sp |-> [i \in Index |-> IF Top(heap)[i] = 1 THEN 0 ELSE opt.sp[i]],
   enc |-> [l \in Index |-> [i \in Index |-> (FitMetal(l)[i] - opt.arr[i]) \div 2]]]

Found ==
  /\ heap # {} /\ sps = << >> /\ opt # NoFit
  /\ Return(Via)
  /\ UNCHANGED req

GiveUp ==
  /\ heap = {} /\ most # NoArray
  /\ Return(NoVia)
  /\ UNCHANGED req

-----------------------------------------------------------------------------
\* A call: dir is the direction of the layer at vdir, adj_dir of the other one; the
\* callers refuse two layers of one direction.
Init ==
  /\ \E dim \in Boxes, vdir, dir \in Index, extend \in BOOLEAN :
       req = [dim |-> dim, vdir |-> vdir, dir |-> dir, adj_dir |-> 3 - dir, extend |-> extend]
  /\ todo \in InfoLists
  /\ most = NoArray /\ heap = {} /\ sps = << >> /\ opt = NoFit
  /\ ans = NoVia /\ seen = {}

Next == StartSearch \/ TrySpacing \/ Fail \/ Found \/ GiveUp

\* The call runs to its end without waiting for anything.
Spec == Init /\ [][Next]_vars /\ WF_vars(Next)

-----------------------------------------------------------------------------
(***************************************************************************)
(* Properties.                                                             *)
(***************************************************************************)

\* The shape of the variables.  The via never has the spacing MaxInt, with which
\* its users would overflow.
TypeOK ==
  /\ most \in Vector /\ heap \subseteq Vector \ {NoArray}
  /\ todo \in Seq(Info) /\ sps \in Seq(Vector)
  /\ opt = NoFit \/ opt \in [sp : Vector, arr : Vector, dim : Nat, adj_dim : Nat]
  /\ ans.num \in Vector /\ ans.cut \in Vector
  /\ ans.sp \in (0 .. MaxInt - 1) \X (0 .. MaxInt - 1)
  /\ ans.enc \in [Index -> [Index -> Nat]]

\* The layer l of the via, 1 the lower one, keeps an enclosure of `rules` for its width.
Enclosed(p, l, rules) ==
  \E e \in EncList(rules, req.dim[3 - LayerDir(l)]) : \A i \in Index : e[i] <= p.enc[l][i]

\* Its metal stays in the overlap, along the wire only when it may not extend.
Within(p, l) ==
  LET d == LayerDir(l)
  IN  /\ ViaMetalDim(p, 3 - d, l) <= req.dim[3 - d]
      /\ ~req.extend => ViaMetalDim(p, d, l) <= req.dim[d]

SpacedBy(p, sp) == \A i \in Index : p.sp[i] = IF p.num[i] = 1 THEN 0 ELSE sp[i]
OfKind(p, info) == p.cut = info.cut /\ \E sp \in ElementsOf(Spacings(info, p.num)) : SpacedBy(p, sp)

\* The first list of enclosures is for the lower layer (bot_enc), the second for the
\* upper one (top_enc).
LayersEnclosed(p, info) == \A l \in Index : Enclosed(p, l, info.enc[l])

\* Every via returned has a spacing for its array size and stays in the overlap, and its
\* metals keep the enclosures of their layers in a call from the lower layer, or when
\* the two layers have the same rules: although the enclosures are computed by halving
\* the metals and the spacing of single cuts is dropped.  (In a call from the upper layer
\* the code gives the first list to the caller's layer, which is not its own.)
ViaLegal ==
  ans # NoVia =>
    /\ \A l \in Index : Within(ans, l)
    /\ \E info \in Rules :
         /\ OfKind(ans, info)
         /\ req.vdir = 1 \/ info.enc[1] = info.enc[2] => LayersEnclosed(ans, info)

Feasible(info, num) == \E sp \in ElementsOf(Spacings(info, num)) : Fits(Fit(info, num, sp))

\* The sizes a search tries, <<0, 0>> not among them.
Tried(info) ==
  LET m == Most(info, req.dim)
  IN  {n \in {m, <<m[1] - 1, m[2]>>, <<m[1], m[2] - 1>>} : n[1] > 0 /\ n[2] > 0}

\* A search that returns has considered the three largest arrays in the right order:
\* the best via has at least the cut area of each of them that fits.
BestOfTried ==
  [][todo # << >> /\ todo' = Tail(todo) =>
       \A n \in Tried(Head(todo)) :
         Feasible(Head(todo), n) =>
           n[1] * n[2] * Head(todo).cut[1] * Head(todo).cut[2] <= Score(ans')]_vars

\* No result has a larger cut area than the answer, nor the same area with one metal
\* shorter and the other not longer.
NotDominated ==
  \A p \in seen :
    /\ Score(p) <= Score(ans)
    /\ Score(p) = Score(ans) /\ Score(p) > 0 =>
         \/ \E i \in Index : ExtDim(p)[i] > ExtDim(ans)[i]
         \/ ExtDim(p) = ExtDim(ans)

\* A search with a single row or column, or with one of its three sizes feasible.
Ends(info) ==
  LET m == Most(info, req.dim)
  IN  m[1] <= 1 \/ m[2] <= 1 \/ \E n \in Tried(info) : Feasible(info, n)

\* The call returns if every search of it ends: the queue, which forgets what it
\* popped, neither runs dry before the feasible size nor refills for ever.
ReturnsIfFeasible == (\A i \in DOMAIN todo : Ends(todo[i])) ~> (todo = << >>)

\* The call returns whatever the rules: the tests expect "0 via solutions" when
\* nothing fits.  The code pushes the same two sizes again after it popped them.
Returns == <>(todo = << >>)
=============================================================================
