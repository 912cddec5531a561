-------------------------- MODULE ViaSearch_proofs --------------------------
(***************************************************************************)
(* Proofs about ViaSearch for every set of rules and every overlap: each   *)
(* via returned is legal, none of the results is better than the answer,   *)
(* and a search that returns has passed over no feasible one of its three  *)
(* largest arrays.  Nothing is said here of termination: the search may    *)
(* run for ever, which is what the second run shows.                       *)
(***************************************************************************)
EXTENDS ViaSearch, Recursion, SequenceTheorems, TLAPS

Pos == Nat \ {0}

\* Vectors made by the code are functions or pairs, which are the same.
LEMMA PairOfFunction ==
  ASSUME NEW S, NEW f \in [Index -> S]
  PROVE  f = <<f[1], f[2]>> /\ f \in S \X S
<1>1. f = [i \in {1, 2} |-> f[i]]
  BY DEF Index
<1>2. <<f[1], f[2]>> = [i \in {1, 2} |-> <<f[1], f[2]>>[i]]
  OBVIOUS
<1>3. \A i \in {1, 2} : f[i] = <<f[1], f[2]>>[i]
  OBVIOUS
<1>4. f = <<f[1], f[2]>>
  BY <1>1, <1>2, <1>3
<1>. QED BY <1>4 DEF Index

\* Every non-empty set of natural numbers has a least element, which MinOf is.
LEMMA MinOfNat ==
  ASSUME NEW S, S \subseteq Nat, S # {}
  PROVE  MinOf(S) \in S /\ \A y \in S : MinOf(S) <= y
BY LeastElement DEF MinOf

\* The tail of a sequence.
LEMMA TailElements ==
  ASSUME NEW S, NEW s \in Seq(S), s # << >>
  PROVE  /\ Head(s) \in S /\ Tail(s) \in Seq(S)
         /\ Head(s) \in ElementsOf(s)
         /\ ElementsOf(s) = {Head(s)} \cup ElementsOf(Tail(s))
<1>1. Len(s) \in Nat /\ DOMAIN s = 1 .. Len(s) /\ Len(s) > 0 /\ Head(s) = s[1]
  OBVIOUS
<1>2. /\ Tail(s) \in Seq(S) /\ DOMAIN Tail(s) = 1 .. Len(s) - 1
      /\ \A i \in 1 .. Len(s) - 1 : Tail(s)[i] = s[i + 1]
  BY <1>1
<1>3. ASSUME NEW i \in DOMAIN s PROVE s[i] = Head(s) \/ s[i] \in ElementsOf(Tail(s))
  <2>1. CASE i = 1
    BY <1>1, <2>1
  <2>2. CASE i # 1
    <3>1. i - 1 \in 1 .. Len(s) - 1 /\ (i - 1) + 1 = i
      BY <1>1, <1>3, <2>2
    <3>. QED BY <1>2, <3>1 DEF ElementsOf
  <2>. QED BY <2>1, <2>2
<1>4. ASSUME NEW i \in DOMAIN Tail(s) PROVE Tail(s)[i] \in ElementsOf(s)
  <2>1. i \in 1 .. Len(s) - 1 /\ i + 1 \in DOMAIN s
    BY <1>1, <1>2, <1>4
  <2>. QED BY <1>2, <2>1 DEF ElementsOf
<1>5. Head(s) \in ElementsOf(s) /\ Head(s) \in S
  BY <1>1 DEF ElementsOf
<1>6. ElementsOf(s) \subseteq {Head(s)} \cup ElementsOf(Tail(s))
  BY <1>3 DEF ElementsOf
<1>7. ElementsOf(Tail(s)) \subseteq ElementsOf(s)
  BY <1>4 DEF ElementsOf
<1>. QED BY <1>2, <1>5, <1>6, <1>7

-----------------------------------------------------------------------------
(***************************************************************************)
(* The queue.                                                              *)
(***************************************************************************)

\* The order of the queue is a strict total order on array sizes.
LEMMA BeforeOrder ==
  /\ \A m \in Pos \X Pos : ~Before(m, m)
  /\ \A m, n \in Pos \X Pos : m = n \/ Before(m, n) \/ Before(n, m)
  /\ \A m, n \in Pos \X Pos : ~(Before(m, n) /\ Before(n, m))
  /\ \A l, m, n \in Pos \X Pos : Before(l, m) /\ Before(m, n) => Before(l, n)
<1> DEFINE Area(m) == m[1] * m[2]
<1>1. \A m \in Pos \X Pos : /\ m = <<m[1], m[2]>> /\ m[1] \in Nat /\ m[2] \in Nat
                            /\ Area(m) \in Nat
  BY DEF Pos
<1>2. \A m, n : Before(m, n) <=> \/ Area(m) < Area(n)
                                 \/ /\ Area(m) = Area(n)
                                    /\ m[1] < n[1] \/ (m[1] = n[1] /\ m[2] < n[2])
  BY DEF Before
<1>. HIDE DEF Area
<1>3. \A m \in Pos \X Pos : ~Before(m, m)
  BY <1>1, <1>2
<1>4. \A m, n \in Pos \X Pos : m = n \/ Before(m, n) \/ Before(n, m)
  BY <1>1, <1>2
<1>5. \A m, n \in Pos \X Pos : ~(Before(m, n) /\ Before(n, m))
  BY <1>1, <1>2
<1>6. \A l, m, n \in Pos \X Pos : Before(l, m) /\ Before(m, n) => Before(l, n)
  BY <1>1, <1>2
<1>. QED BY <1>3, <1>4, <1>5, <1>6

\* The top of a queue that is not empty: no queue holds more than three sizes.
LEMMA TopOfQueue ==
  ASSUME NEW a \in Pos \X Pos, NEW b \in Pos \X Pos, NEW c \in Pos \X Pos,
         NEW h, h \subseteq {a, b, c}, h # {}
  PROVE  Top(h) \in h /\ \A m \in h : m = Top(h) \/ Before(m, Top(h))
<1> DEFINE IsTop(n, g) == n \in g /\ \A m \in g \ {n} : Before(m, n)
<1>1. \A g : g \subseteq {a, b} /\ g # {} => \E n : IsTop(n, g)
  <2>1. SUFFICES ASSUME NEW g, g \subseteq {a, b}, g # {} PROVE \E n : IsTop(n, g)
    OBVIOUS
  <2>2. a = b \/ Before(a, b) \/ Before(b, a)
    BY BeforeOrder
  <2>3. CASE a \in g /\ b \in g
    BY <2>1, <2>2, <2>3
  <2>4. CASE a \notin g \/ b \notin g
    BY <2>1, <2>4
  <2>. QED BY <2>3, <2>4
<1>2. \E n : IsTop(n, h)
  <2>1. CASE c \notin h
    BY <1>1, <2>1
  <2>2. CASE h = {c}
    BY <2>2
  <2>3. CASE c \in h /\ h \ {c} # {}
    <3>1. h \ {c} \subseteq {a, b} /\ \A n \in h : n \in Pos \X Pos
      OBVIOUS
    <3>2. PICK t : IsTop(t, h \ {c})
      BY <1>1, <2>3, <3>1
    <3>3. CASE Before(t, c)
      <4>1. ASSUME NEW m \in h \ {c} PROVE Before(m, c)
        BY <3>1, <3>2, <3>3, BeforeOrder
      <4>. QED BY <2>3, <4>1
    <3>4. CASE Before(c, t)
      BY <3>2, <3>4
    <3>. QED BY <3>1, <3>2, <3>3, <3>4, BeforeOrder
  <2>. QED BY <2>1, <2>2, <2>3
<1>3. \E n \in h : \A m \in h \ {n} : Before(m, n)
  BY <1>2
<1>. QED BY <1>3 DEF Top

-----------------------------------------------------------------------------
(***************************************************************************)
(* The rules.                                                              *)
(***************************************************************************)

\* The enclosures that get_enc_list returns are vectors.
LEMMA EncListType ==
  ASSUME NEW rules \in EncRules, NEW width \in Nat
  PROVE  EncList(rules, width) \subseteq Vector
<1> DEFINE fits == {i \in DOMAIN rules : width <= rules[i].width}
           n == IF fits = {} THEN Len(rules) ELSE MinOf(fits)
<1>1. /\ rules \in Seq([width : Nat, encs : SUBSET Vector]) /\ rules # << >>
      /\ DOMAIN rules = 1 .. Len(rules) /\ Len(rules) \in Nat /\ Len(rules) \in DOMAIN rules
  BY DEF EncRules
<1>2. fits # {} => MinOf(fits) \in fits
  <2>1. fits \subseteq Nat
    BY <1>1
  <2>. HIDE DEF fits
  <2>. QED BY <2>1, MinOfNat
<1>3. n \in DOMAIN rules
  BY <1>1, <1>2
<1>4. EncList(rules, width) = rules[n].encs
  BY DEF EncList
<1>. HIDE DEF n
<1>5. rules[n] \in [width : Nat, encs : SUBSET Vector]
  <2> DEFINE R == [width : Nat, encs : SUBSET Vector]
  <2>1. rules \in Seq(R) /\ n \in 1 .. Len(rules)
    BY <1>1, <1>3
  <2>. HIDE DEF R
  <2>2. rules[n] \in R
    BY <2>1
  <2>. QED BY <2>2 DEF R
<1>. QED BY <1>4, <1>5

\* A length that get_metal_dim returns is reached by an enclosure that also fits
\* across the metal; it is the length of the overlap when it may not extend.
LEMMA MetalDimFits ==
  ASSUME NEW dim \in Pos \X Pos, NEW arr \in [Index -> Nat], NEW rules \in EncRules,
         NEW d \in Index, NEW extend \in BOOLEAN
  PROVE  /\ MetalDim(dim, arr, rules, d, extend) \in Nat
         /\ MetalDim(dim, arr, rules, d, extend) # 0 =>
              \E e \in EncList(rules, dim[3 - d]) :
                /\ e \in Vector
                /\ EncDim(e, arr, 3 - d) <= dim[3 - d]
                /\ EncDim(e, arr, d) <= MetalDim(dim, arr, rules, d, extend)
                /\ ~extend => MetalDim(dim, arr, rules, d, extend) = dim[d]
<1> DEFINE lengths == EnclosedDims(dim, arr, rules, d, extend)
           least == MinOf(lengths)
           metal == MetalDim(dim, arr, rules, d, extend)
<1>1. /\ 3 - d \in Index /\ dim[d] \in Pos /\ dim[3 - d] \in Pos
      /\ arr[d] \in Nat /\ arr[3 - d] \in Nat
  BY DEF Index
<1>2. EncList(rules, dim[3 - d]) \subseteq Vector
  BY <1>1, EncListType DEF Pos
<1>3. \A e \in EncList(rules, dim[3 - d]) : EncDim(e, arr, d) \in Nat
  <2>1. TAKE e \in EncList(rules, dim[3 - d])
  <2>2. e[d] \in Nat
    BY <1>2, <2>1 DEF Vector, Index
  <2>. QED BY <1>1, <2>2 DEF EncDim
<1>4. /\ lengths \subseteq Nat
      /\ \A x \in lengths : \E e \in EncList(rules, dim[3 - d]) :
           /\ x = EncDim(e, arr, d) /\ EncDim(e, arr, 3 - d) <= dim[3 - d]
           /\ extend \/ EncDim(e, arr, d) <= dim[d]
  BY <1>3 DEF EnclosedDims
<1>5. metal = IF lengths = {} THEN 0 ELSE MaxOf2(least, dim[d])
  BY DEF MetalDim
<1>6. lengths # {} => least \in lengths
  <2>. HIDE DEF lengths
  <2>. QED BY <1>4, MinOfNat
<1>. HIDE DEF lengths, least, metal
<1>7. metal \in Nat
  BY <1>1, <1>4, <1>5, <1>6 DEF MaxOf2, Pos
<1>8. ASSUME metal # 0
      PROVE  \E e \in EncList(rules, dim[3 - d]) :
               /\ e \in Vector
               /\ EncDim(e, arr, 3 - d) <= dim[3 - d]
               /\ EncDim(e, arr, d) <= metal
               /\ ~extend => metal = dim[d]
  <2>1. lengths # {} /\ least \in lengths /\ metal = MaxOf2(least, dim[d])
    BY <1>5, <1>6, <1>8
  <2>2. PICK e \in EncList(rules, dim[3 - d]) :
          /\ least = EncDim(e, arr, d) /\ EncDim(e, arr, 3 - d) <= dim[3 - d]
          /\ extend \/ EncDim(e, arr, d) <= dim[d]
    BY <1>4, <2>1
  <2>3. least \in Nat
    BY <1>4, <2>1
  <2>4. least <= metal /\ (~extend => metal = dim[d])
    BY <1>1, <2>1, <2>2, <2>3 DEF MaxOf2, Pos
  <2>. QED BY <1>2, <2>2, <2>4
<1>. QED BY <1>7, <1>8 DEF metal

\* The parts of a rule.
LEMMA InfoParts ==
  ASSUME NEW info \in Info
  PROVE  /\ info.cut \in Pos \X Pos /\ info.enc[1] \in EncRules /\ info.enc[2] \in EncRules
         /\ \A num : Spacings(info, num) \in Seq(Spacing)
         /\ \A num : ElementsOf(Spacings(info, num)) \subseteq Spacing
         /\ \A i \in Index : MinSp(info, i) \in Nat
<1>1. /\ info.cut \in Pos \X Pos /\ info.sp \in Spacing
      /\ info.sp2 \in Seq(Spacing) /\ info.sp3 \in Seq(Spacing)
      /\ info.enc \in [Index -> EncRules]
  BY DEF Info, Pos
<1>2. info.enc[1] \in EncRules /\ info.enc[2] \in EncRules
  BY <1>1 DEF Index
<1>3. \A s \in Seq(Spacing) : ElementsOf(s) \subseteq Spacing
  BY DEF ElementsOf
<1>4. Sp2(info) \in Seq(Spacing) /\ Sp3(info) \in Seq(Spacing) /\ <<info.sp>> \in Seq(Spacing)
  BY <1>1 DEF Sp2, Sp3
<1>5. \A num : Spacings(info, num) \in Seq(Spacing)
  BY <1>4 DEF Spacings
<1>6. ASSUME NEW i \in Index PROVE MinSp(info, i) \in Nat
  <2> DEFINE all == {info.sp[i]} \cup {s[i] : s \in ElementsOf(Sp2(info)) \cup ElementsOf(Sp3(info))}
  <2>1. \A s \in Spacing : s[i] \in Nat
    BY ViaAssumption DEF Spacing, Index
  <2>2. all \subseteq Nat /\ all # {}
    BY <1>1, <1>3, <1>4, <2>1
  <2>3. MinSp(info, i) = MinOf(all)
    BY DEF MinSp
  <2>. HIDE DEF all
  <2>. QED BY <2>2, <2>3, MinOfNat
<1>. QED BY <1>1, <1>2, <1>3, <1>5, <1>6

\* The number of cuts in a row is a natural number.
LEMMA MostType ==
  ASSUME NEW info \in Info, NEW dim \in Pos \X Pos
  PROVE  Most(info, dim)[1] \in Nat /\ Most(info, dim)[2] \in Nat /\ Most(info, dim) \in Vector
<1>1. ASSUME NEW i \in Index PROVE NMax(dim[i], info.cut[i], MinSp(info, i)) \in Nat
  <2>1. MinSp(info, i) \in Nat /\ dim[i] \in Pos /\ info.cut[i] \in Pos
    BY <1>1, InfoParts DEF Index
  <2>2. dim[i] + MinSp(info, i) \in Nat /\ info.cut[i] + MinSp(info, i) \in Nat \ {0}
    BY <2>1 DEF Pos
  <2>3. (dim[i] + MinSp(info, i)) \div (info.cut[i] + MinSp(info, i)) \in Nat
    BY <2>2
  <2>. QED BY <2>3 DEF NMax
<1>2. Most(info, dim) \in [Index -> Nat]
  BY <1>1 DEF Most
<1>. QED BY <1>2, PairOfFunction DEF Vector, Index

\* The length of an array: MaxInt is never multiplied, and the spacing of a single
\* cut does not matter.
LEMMA ArrDimOf ==
  ASSUME NEW n \in Pos, NEW w \in Pos, NEW sp \in 0 .. MaxInt
  PROVE  /\ ArrDim(n, w, sp) \in Nat
         /\ ArrDim(n, w, sp) # 0 =>
              /\ (IF n = 1 THEN 0 ELSE sp) \in 0 .. MaxInt - 1
              /\ ArrDim(n, w, sp) = n * (w + IF n = 1 THEN 0 ELSE sp) - IF n = 1 THEN 0 ELSE sp
<1>1. MaxInt \in Nat \ {0} /\ sp \in Nat /\ w \in Nat \ {0} /\ n \in Nat \ {0} /\ sp <= MaxInt
  BY ViaAssumption DEF Pos
<1>2. n * (w + sp) - sp \in Nat \ {0}
  BY <1>1
<1>3. CASE n = 1
  <2>1. 1 * (w + sp) - sp = w /\ 1 * (w + 0) - 0 = w
    BY <1>1
  <2>. QED BY <1>1, <1>3, <2>1 DEF ArrDim
<1>4. CASE n # 1
  <2>1. CASE sp = MaxInt
    BY <1>1, <1>4, <2>1 DEF ArrDim
  <2>2. CASE sp # MaxInt
    BY <1>1, <1>2, <1>4, <2>2 DEF ArrDim
  <2>. QED BY <2>1, <2>2
<1>. QED BY <1>3, <1>4

-----------------------------------------------------------------------------
(***************************************************************************)
(* The inductive invariant.                                                *)
(***************************************************************************)

ViaType(p) ==
  /\ p.num \in Vector /\ p.cut \in Vector
  /\ p.sp \in (0 .. MaxInt - 1) \X (0 .. MaxInt - 1)
  /\ p.enc \in [Index -> [Index -> Nat]]

ReqOK ==
  /\ req.dim \in Boxes /\ req.vdir \in Index /\ req.dir \in Index
  /\ req.adj_dir = 3 - req.dir /\ req.extend \in BOOLEAN

TodoOK == todo \in Seq(Info) /\ ElementsOf(todo) \subseteq Rules

Idle == most = NoArray /\ heap = {} /\ sps = << >> /\ opt = NoFit

\* The fit found so far is one of the size at the top; without one, no spacing
\* already tried fits.
OptOK ==
  LET all == ElementsOf(Spacings(Head(todo), Top(heap)))
  IN  /\ sps \in Seq(Spacing) /\ ElementsOf(sps) \subseteq all
      /\ opt # NoFit => \E sp \in all : opt = Fit(Head(todo), Top(heap), sp) /\ Fits(opt)
      /\ opt = NoFit => \A sp \in all : sp \in ElementsOf(sps)
                                        \/ ~Fits(Fit(Head(todo), Top(heap), sp))

\* No feasible size has been passed over: it is at the top, or comes after it.
NothingPassed ==
  \A n \in Tried(Head(todo)) :
    Feasible(Head(todo), n) => heap # {} /\ (n = Top(heap) \/ Before(n, Top(heap)))

Searching ==
  /\ todo # << >>
  /\ most = Most(Head(todo), req.dim) /\ most[1] \in Pos /\ most[2] \in Pos
  /\ heap \subseteq Tried(Head(todo))
  /\ heap = {} => sps = << >> /\ opt = NoFit
  /\ heap # {} => OptOK
  /\ NothingPassed

\* A via as a search makes it: the caller's layer keeps the first list of enclosures
\* of its kind, whichever layer that is, and the other layer the second.
FitLegal(p) ==
  /\ \A l \in Index : Within(p, l)
  /\ \E info \in Rules : /\ OfKind(p, info)
                        /\ Enclosed(p, req.vdir, info.enc[1])
                        /\ Enclosed(p, 3 - req.vdir, info.enc[2])

AnsOK ==
  /\ ViaType(ans) /\ (ans # NoVia => FitLegal(ans))
  /\ \A p \in seen : ViaType(p)
  /\ NotDominated

IInv == ReqOK /\ TodoOK /\ (Idle \/ Searching) /\ AnsOK
-----------------------------------------------------------------------------
(***************************************************************************)
(* The via of a fit.                                                       *)
(***************************************************************************)

\* The arguments of a call.
LEMMA ReqParts ==
  ASSUME ReqOK
  PROVE  /\ req.dim \in Pos \X Pos /\ req.dim[1] \in Nat /\ req.dim[2] \in Nat
         /\ req.vdir \in Index /\ 3 - req.vdir \in Index /\ 3 - req.vdir # req.vdir
         /\ req.dir \in Index /\ req.adj_dir \in Index /\ req.extend \in BOOLEAN
BY ViaAssumption DEF ReqOK, Pos, Index

\* Halving rounds down.
LEMMA Half ==
  ASSUME NEW a \in Int
  PROVE  /\ a \div 2 \in Int /\ 2 * (a \div 2) <= a
         /\ \A b \in Int : 2 * b <= a => b <= a \div 2
OBVIOUS

\* A fit is typed.
LEMMA FitType ==
  ASSUME ReqOK, NEW info \in Info, NEW num \in Pos \X Pos, NEW sp \in Spacing
  PROVE  /\ ArrDims(info, num, sp) \in [Index -> Nat]
         /\ Fit(info, num, sp).sp = sp
         /\ Fit(info, num, sp).arr = ArrDims(info, num, sp)
         /\ Fit(info, num, sp) \in [sp : Vector, arr : Vector, dim : Nat, adj_dim : Nat]
         /\ Fit(info, num, sp) # NoFit
<1>1. ASSUME NEW i \in Index PROVE ArrDim(num[i], info.cut[i], sp[i]) \in Nat
  <2>1. num[i] \in Pos /\ info.cut[i] \in Pos /\ sp[i] \in 0 .. MaxInt
    BY <1>1, InfoParts DEF Index, Spacing
  <2>. QED BY <2>1, ArrDimOf
<1>2. ArrDims(info, num, sp) \in [Index -> Nat]
  BY <1>1 DEF ArrDims
<1>3. ArrDims(info, num, sp) \in Vector
  BY <1>2, PairOfFunction DEF Vector
<1>4. sp \in Vector /\ sp[1] # -1
  BY ViaAssumption DEF Spacing, Vector
<1>5. /\ MetalDim(req.dim, ArrDims(info, num, sp), info.enc[1], req.dir, req.extend) \in Nat
      /\ MetalDim(req.dim, ArrDims(info, num, sp), info.enc[2], req.adj_dir, req.extend) \in Nat
  BY <1>2, ReqParts, InfoParts, MetalDimFits
<1>6. Fit(info, num, sp).sp # NoFit.sp
  BY <1>4 DEF Fit, NoFit
<1>. QED BY <1>2, <1>3, <1>4, <1>5, <1>6 DEF Fit

\* Halving a metal leaves an enclosure that the rule allows, and the via so built
\* stays within it.
LEMMA EnclosedMetal ==
  ASSUME ReqOK, NEW p, NEW l \in Index, NEW d \in Index, d = LayerDir(l),
         NEW rules \in EncRules, NEW arr \in [Index -> Nat], NEW metal,
         metal = MetalDim(req.dim, arr, rules, d, req.extend), metal # 0,
         \A i \in Index : p.enc[l][i] = ((IF i # d THEN req.dim[i] ELSE metal) - arr[i]) \div 2,
         \A i \in Index : ViaArrDim(p, i) = arr[i]
  PROVE  Enclosed(p, l, rules) /\ Within(p, l) /\ \A i \in Index : p.enc[l][i] \in Nat
<1>1. /\ 3 - d \in Index /\ 3 - d # d /\ \A i \in Index : i = d \/ i = 3 - d
      /\ req.dim[d] \in Nat /\ req.dim[3 - d] \in Nat /\ arr[d] \in Nat /\ arr[3 - d] \in Nat
  BY ReqParts DEF Index, Pos
<1>2. metal \in Nat
  BY ReqParts, MetalDimFits
<1>3. PICK e \in EncList(rules, req.dim[3 - d]) :
        /\ e \in Vector
        /\ EncDim(e, arr, 3 - d) <= req.dim[3 - d]
        /\ EncDim(e, arr, d) <= metal
        /\ ~req.extend => metal = req.dim[d]
  BY ReqParts, MetalDimFits
<1>4. e[d] \in Nat /\ e[3 - d] \in Nat
  BY <1>3 DEF Vector, Index
<1>5. p.enc[l][d] = (metal - arr[d]) \div 2 /\ p.enc[l][3 - d] = (req.dim[3 - d] - arr[3 - d]) \div 2
  BY <1>1
<1>6. /\ p.enc[l][d] \in Int /\ e[d] <= p.enc[l][d] /\ 2 * p.enc[l][d] <= metal - arr[d]
      /\ p.enc[l][3 - d] \in Int /\ e[3 - d] <= p.enc[l][3 - d]
      /\ 2 * p.enc[l][3 - d] <= req.dim[3 - d] - arr[3 - d]
  <2>1. 2 * e[d] <= metal - arr[d] /\ metal - arr[d] \in Int
    <3>1. EncDim(e, arr, d) = 2 * e[d] + arr[d] /\ EncDim(e, arr, d) <= metal
      BY <1>3 DEF EncDim
    <3>. QED BY <1>1, <1>2, <1>4, <3>1
  <2>2. 2 * e[3 - d] <= req.dim[3 - d] - arr[3 - d] /\ req.dim[3 - d] - arr[3 - d] \in Int
    BY <1>1, <1>3, <1>4 DEF EncDim
  <2>. QED BY <1>4, <1>5, <2>1, <2>2, Half
<1>7. \A i \in Index : e[i] <= p.enc[l][i] /\ p.enc[l][i] \in Nat
  BY <1>1, <1>4, <1>6
<1>8. ViaMetalDim(p, 3 - d, l) <= req.dim[3 - d] /\ ViaMetalDim(p, d, l) <= metal
  <2>1. ViaArrDim(p, d) = arr[d] /\ ViaArrDim(p, 3 - d) = arr[3 - d]
    BY <1>1
  <2>2. ViaMetalDim(p, 3 - d, l) <= req.dim[3 - d]
    BY <1>1, <1>6, <2>1 DEF ViaMetalDim
  <2>3. ViaMetalDim(p, d, l) <= metal
    BY <1>1, <1>2, <1>6, <2>1 DEF ViaMetalDim
  <2>. QED BY <2>2, <2>3
<1>. QED BY <1>3, <1>7, <1>8 DEF Enclosed, Within

\* The via returned for a fit is legal, and has the cut area of the size at the top.
LEMMA ViaIsLegal ==
  ASSUME ReqOK, NEW info \in Info, info \in Rules, NEW num \in Pos \X Pos,
         NEW sp \in ElementsOf(Spacings(info, num)),
         Head(todo) = info, Top(heap) = num, opt = Fit(info, num, sp), Fits(opt)
  PROVE  /\ ViaType(Via) /\ FitLegal(Via)
         /\ Score(Via) = num[1] * num[2] * info.cut[1] * info.cut[2]
<1> DEFINE arr == ArrDims(info, num, sp)
           eff == [i \in Index |-> IF num[i] = 1 THEN 0 ELSE sp[i]]
<1>1. sp \in Spacing
  BY InfoParts
<1>2. /\ opt.sp = sp /\ opt.arr = arr /\ arr \in [Index -> Nat]
      /\ opt.dim = MetalDim(req.dim, arr, info.enc[1], req.dir, req.extend)
      /\ opt.adj_dim = MetalDim(req.dim, arr, info.enc[2], req.adj_dir, req.extend)
      /\ opt.dim # 0 /\ opt.adj_dim # 0 /\ \A i \in Index : arr[i] # 0
  BY <1>1, FitType DEF Fit, Fits, Index
<1>. HIDE DEF arr
<1>3. /\ Via.num = num /\ Via.cut = info.cut /\ Via.sp = eff
      /\ \A l, i \in Index : Via.enc[l][i] = (FitMetal(l)[i] - arr[i]) \div 2
      /\ Via.enc = [l \in Index |-> [i \in Index |-> Via.enc[l][i]]]
  BY <1>2 DEF Via
<1>4. \A i \in Index : ViaArrDim(Via, i) = arr[i] /\ eff[i] \in 0 .. MaxInt - 1
  <2>1. TAKE i \in Index
  <2>2. num[i] \in Pos /\ info.cut[i] \in Pos /\ sp[i] \in 0 .. MaxInt
    BY <1>1, <2>1, InfoParts DEF Index, Spacing
  <2>3. arr[i] = ArrDim(num[i], info.cut[i], sp[i]) /\ arr[i] # 0
    BY <1>2, <2>1 DEF arr, ArrDims
  <2>4. /\ eff[i] = IF num[i] = 1 THEN 0 ELSE sp[i]
        /\ eff[i] \in 0 .. MaxInt - 1
        /\ arr[i] = num[i] * (info.cut[i] + eff[i]) - eff[i]
    BY <2>1, <2>2, <2>3, ArrDimOf
  <2>. HIDE DEF eff
  <2>. QED BY <1>3, <2>4 DEF ViaArrDim
<1>5. \A i \in Index :
        /\ FitMetal(req.vdir)[i] = IF i # req.dir THEN req.dim[i] ELSE opt.dim
        /\ FitMetal(3 - req.vdir)[i] = IF i # req.adj_dir THEN req.dim[i] ELSE opt.adj_dim
  BY ReqParts DEF FitMetal, LayerDir
<1>6. /\ \A i \in Index : Via.enc[req.vdir][i]
           = ((IF i # req.dir THEN req.dim[i] ELSE opt.dim) - arr[i]) \div 2
      /\ \A i \in Index : Via.enc[3 - req.vdir][i]
           = ((IF i # req.adj_dir THEN req.dim[i] ELSE opt.adj_dim) - arr[i]) \div 2
  BY <1>3, <1>5, ReqParts
<1>7. PICK p : p = Via
  OBVIOUS
<1>8. /\ Enclosed(p, req.vdir, info.enc[1]) /\ Within(p, req.vdir)
      /\ \A i \in Index : p.enc[req.vdir][i] \in Nat
      /\ Enclosed(p, 3 - req.vdir, info.enc[2]) /\ Within(p, 3 - req.vdir)
      /\ \A i \in Index : p.enc[3 - req.vdir][i] \in Nat
  <2>1. \A i \in Index : ViaArrDim(p, i) = arr[i]
    BY <1>4, <1>7
  <2>2. /\ req.vdir \in Index /\ 3 - req.vdir \in Index
        /\ req.dir \in Index /\ req.adj_dir \in Index
        /\ req.dir = LayerDir(req.vdir) /\ req.adj_dir = LayerDir(3 - req.vdir)
        /\ info.enc[1] \in EncRules /\ info.enc[2] \in EncRules /\ arr \in [Index -> Nat]
    BY <1>2, ReqParts, InfoParts DEF LayerDir
  <2>3. \A i \in Index : p.enc[req.vdir][i]
           = ((IF i # req.dir THEN req.dim[i] ELSE opt.dim) - arr[i]) \div 2
    BY <1>6, <1>7
  <2>4. \A i \in Index : p.enc[3 - req.vdir][i]
           = ((IF i # req.adj_dir THEN req.dim[i] ELSE opt.adj_dim) - arr[i]) \div 2
    BY <1>6, <1>7
  <2>5. /\ Enclosed(p, req.vdir, info.enc[1]) /\ Within(p, req.vdir)
        /\ \A i \in Index : p.enc[req.vdir][i] \in Nat
    BY <1>2, <2>1, <2>2, <2>3, EnclosedMetal
  <2>6. /\ Enclosed(p, 3 - req.vdir, info.enc[2]) /\ Within(p, 3 - req.vdir)
        /\ \A i \in Index : p.enc[3 - req.vdir][i] \in Nat
    BY <1>2, <2>1, <2>2, <2>4, EnclosedMetal
  <2>. QED BY <2>5, <2>6
<1>9. SpacedBy(Via, sp)
  BY <1>3 DEF SpacedBy
<1>10. FitLegal(Via)
  <2>1. OfKind(Via, info)
    BY <1>3, <1>9 DEF OfKind
  <2>2. \A l \in Index : l = req.vdir \/ l = 3 - req.vdir
    BY DEF ReqOK, Index
  <2>. QED BY <1>7, <1>8, <2>1, <2>2 DEF FitLegal
<1>11. ViaType(Via)
  <2>1. \A l, i \in Index : Via.enc[l][i] \in Nat
    BY <1>7, <1>8, ReqParts DEF Index
  <2>2. Via.enc \in [Index -> [Index -> Nat]]
    BY <1>3, <2>1
  <2>3. eff \in [Index -> 0 .. MaxInt - 1]
    BY <1>4
  <2>4. Via.sp \in (0 .. MaxInt - 1) \X (0 .. MaxInt - 1)
    <3> DEFINE S == 0 .. MaxInt - 1
    <3>. HIDE DEF eff, S
    <3>1. eff \in [Index -> S]
      BY <2>3 DEF S
    <3>2. eff \in S \X S
      BY <3>1, PairOfFunction
    <3>. QED BY <1>3, <3>2 DEF S
  <2>5. Via.num \in Vector /\ Via.cut \in Vector
    BY <1>3, InfoParts DEF Vector, Pos
  <2>. QED BY <2>2, <2>4, <2>5 DEF ViaType
<1>12. Score(Via) = num[1] * num[2] * info.cut[1] * info.cut[2]
  BY <1>3 DEF Score
<1>. QED BY <1>10, <1>11, <1>12

-----------------------------------------------------------------------------
(***************************************************************************)
(* The end of a search.                                                    *)
(***************************************************************************)

\* The numbers that compare two vias.
LEMMA ViaNumbers ==
  ASSUME ReqOK, NEW p, ViaType(p)
  PROVE  /\ Score(p) \in Nat /\ ExtDim(p)[1] \in Int /\ ExtDim(p)[2] \in Int
         /\ ExtDim(p) = <<ExtDim(p)[1], ExtDim(p)[2]>>
<1>1. \A i \in Index : /\ p.num[i] \in Nat /\ p.cut[i] \in Nat /\ p.sp[i] \in Nat
                       /\ \A l \in Index : p.enc[l][i] \in Nat
  BY ViaAssumption DEF ViaType, Vector, Index
<1>2. Score(p) \in Nat
  <2>1. /\ p.num[1] \in Nat /\ p.num[2] \in Nat /\ p.cut[1] \in Nat /\ p.cut[2] \in Nat
    BY <1>1 DEF Index
  <2>2. p.num[1] * p.num[2] \in Nat
    BY <2>1
  <2>3. p.num[1] * p.num[2] * p.cut[1] \in Nat
    BY <2>1, <2>2
  <2>. QED BY <2>1, <2>3 DEF Score
<1>3. \A l, d \in Index : ViaMetalDim(p, d, l) \in Int
  <2>1. TAKE l, d \in Index
  <2>2. p.num[d] \in Nat /\ p.cut[d] \in Nat /\ p.sp[d] \in Nat /\ p.enc[l][d] \in Nat
    BY <1>1, <2>1
  <2>3. p.num[d] * (p.cut[d] + p.sp[d]) \in Int
    BY <2>2
  <2>. QED BY <2>2, <2>3 DEF ViaMetalDim, ViaArrDim
<1>. QED BY <1>2, <1>3, ReqParts DEF ExtDim

\* Returning a result keeps the answer legal and undominated: the answer is replaced
\* exactly when the result is larger, or as large with no metal longer.
LEMMA ReturnKeeps ==
  ASSUME ReqOK, AnsOK, NEW p, ViaType(p), p # NoVia => FitLegal(p), Return(p), req' = req
  PROVE  AnsOK' /\ Score(p) <= Score(ans')
<1> DEFINE Ext(q) == ExtDim(q)
<1>1. /\ ans' = IF Better(p) THEN p ELSE ans
      /\ seen' = seen \cup {p}
  BY DEF Return
<1>2. ViaType(ans) /\ ViaType(ans') /\ \A q \in seen' : ViaType(q)
  BY <1>1 DEF AnsOK
<1>3. \A q : ViaType(q)' <=> ViaType(q)
  BY DEF ViaType
<1>4. \A q : FitLegal(q)' <=> FitLegal(q)
  BY DEF FitLegal, Enclosed, Within, LayerDir
<1>5. \A q : ExtDim(q)' = ExtDim(q) /\ Score(q)' = Score(q)
  BY DEF ExtDim, Score
<1>6. ans' # NoVia => FitLegal(ans')
  BY <1>1 DEF AnsOK
<1>7. \A q : ViaType(q) => Score(q) \in Nat /\ Ext(q)[1] \in Int /\ Ext(q)[2] \in Int
  BY ViaNumbers
<1>8. \A q : ViaType(q) => Ext(q) = <<Ext(q)[1], Ext(q)[2]>>
  BY ViaNumbers
<1>. HIDE DEF Ext
<1>9. Better(p) <=> \/ Score(p) > Score(ans)
                    \/ /\ Score(p) > 0 /\ Score(p) = Score(ans)
                       /\ Ext(p)[1] <= Ext(ans)[1] /\ Ext(p)[2] <= Ext(ans)[2]
  BY DEF Better, Ext
<1>10. Score(p) <= Score(ans') /\ Score(ans) <= Score(ans')
  BY <1>1, <1>2, <1>7, <1>9
<1>11. ASSUME NEW q \in seen'
       PROVE  /\ Score(q) <= Score(ans')
              /\ Score(q) = Score(ans') /\ Score(q) > 0 =>
                   \/ Ext(q)[1] > Ext(ans')[1] \/ Ext(q)[2] > Ext(ans')[2]
                   \/ Ext(q) = Ext(ans')
  <2>1. /\ Score(q) \in Nat /\ Score(ans) \in Nat /\ Score(p) \in Nat
        /\ Ext(q)[1] \in Int /\ Ext(q)[2] \in Int /\ Ext(ans)[1] \in Int /\ Ext(ans)[2] \in Int
        /\ Ext(p)[1] \in Int /\ Ext(p)[2] \in Int
    BY <1>2, <1>7
  <2>2. CASE q \in seen
    <3>1. /\ Score(q) <= Score(ans)
          /\ Score(q) = Score(ans) /\ Score(q) > 0 =>
               \/ Ext(q)[1] > Ext(ans)[1] \/ Ext(q)[2] > Ext(ans)[2] \/ Ext(q) = Ext(ans)
      BY <2>2 DEF AnsOK, NotDominated, Ext, Index
    <3>2. CASE ans' = ans
      BY <3>1, <3>2
    <3>3. CASE ans' = p /\ Better(p)
      <4>1. Ext(p) = <<Ext(p)[1], Ext(p)[2]>> /\ Ext(ans) = <<Ext(ans)[1], Ext(ans)[2]>>
        BY <1>2, <1>8
      <4>2. Ext(p)[1] = Ext(ans)[1] /\ Ext(p)[2] = Ext(ans)[2] => Ext(p) = Ext(ans)
        BY <4>1
      <4>3. Score(q) <= Score(p)
        BY <1>9, <2>1, <3>1, <3>3
      <4>4. ASSUME Score(q) = Score(p), Score(q) > 0
            PROVE  \/ Ext(q)[1] > Ext(p)[1] \/ Ext(q)[2] > Ext(p)[2] \/ Ext(q) = Ext(p)
        <5>1. /\ Score(q) = Score(ans) /\ Ext(p)[1] <= Ext(ans)[1] /\ Ext(p)[2] <= Ext(ans)[2]
          BY <1>9, <2>1, <3>1, <3>3, <4>4
        <5>2. CASE Ext(q)[1] > Ext(ans)[1] \/ Ext(q)[2] > Ext(ans)[2]
          BY <2>1, <5>1, <5>2
        <5>3. CASE Ext(q) = Ext(ans)
          BY <2>1, <4>2, <5>1, <5>3
        <5>. QED BY <3>1, <4>4, <5>1, <5>2, <5>3
      <4>. QED BY <3>3, <4>3, <4>4
    <3>. QED BY <1>1, <3>2, <3>3
  <2>3. CASE q = p
    <3>1. CASE ans' = p
      BY <2>1, <2>3, <3>1
    <3>2. CASE ans' = ans /\ ~Better(p)
      BY <1>9, <2>1, <2>3, <3>2
    <3>. QED BY <1>1, <3>1, <3>2
  <2>. QED BY <1>1, <2>2, <2>3
<1>12. NotDominated'
  <2>1. \A q \in seen' :
          /\ Score(q)' <= Score(ans)'
          /\ Score(q)' = Score(ans)' /\ Score(q)' > 0 =>
               \/ \E i \in Index : ExtDim(q)[i]' > ExtDim(ans)[i]'
               \/ ExtDim(q)' = ExtDim(ans)'
    <3>1. Score(ans)' = Score(ans') /\ ExtDim(ans)' = Ext(ans')
      BY <1>5 DEF Ext, Score, ExtDim
    <3>. QED BY <1>5, <1>11, <3>1 DEF Ext, Index
  <2>. QED BY <2>1 DEF NotDominated
<1>13. AnsOK'
  BY <1>2, <1>3, <1>4, <1>6, <1>12 DEF AnsOK
<1>. QED BY <1>10, <1>13


-----------------------------------------------------------------------------
(***************************************************************************)
(* The steps of a search.                                                  *)
(***************************************************************************)

\* The three sizes of a search, in the order of the queue.
LEMMA TriedSizes ==
  ASSUME ReqOK, NEW info \in Info, NEW m, m = Most(info, req.dim), m[1] \in Pos, m[2] \in Pos
  PROVE  /\ m \in Pos \X Pos /\ m \in Tried(info)
         /\ \A n \in Tried(info) : /\ n \in Pos \X Pos
                                   /\ n \in (1 .. m[1]) \X (1 .. m[2])
                                   /\ n = m \/ Before(n, m)
         /\ Tried(info) \ {m} = {n \in {<<m[1] - 1, m[2]>>, <<m[1], m[2] - 1>>} :
                                   n[1] > 0 /\ n[2] > 0}
         /\ \A h : h \subseteq Tried(info) /\ h # {} =>
              Top(h) \in h /\ \A n \in h : n = Top(h) \/ Before(n, Top(h))
<1> DEFINE a == <<m[1] - 1, m[2]>>
           b == <<m[1], m[2] - 1>>
<1>1. m = <<m[1], m[2]>> /\ m[1] \in Nat \ {0} /\ m[2] \in Nat \ {0}
  <2>1. m \in Vector
    BY ReqParts, MostType
  <2>. QED BY <2>1 DEF Vector, Pos
<1>2. /\ a[1] = m[1] - 1 /\ a[2] = m[2] /\ b[1] = m[1] /\ b[2] = m[2] - 1
      /\ a[1] > 0 => a \in Pos \X Pos
      /\ b[2] > 0 => b \in Pos \X Pos
      /\ a # m /\ b # m
  BY <1>1 DEF Pos
<1>3. Tried(info) = {n \in {m, a, b} : n[1] > 0 /\ n[2] > 0}
  BY DEF Tried
<1>4. Before(a, m) /\ Before(b, m)
  <2>1. (m[1] - 1) * m[2] < m[1] * m[2] /\ m[1] * (m[2] - 1) < m[1] * m[2]
    BY <1>1
  <2>. QED BY <1>2, <2>1 DEF Before
<1>5. m \in Pos \X Pos /\ m \in Tried(info)
  BY <1>1, <1>3 DEF Pos
<1>6. ASSUME NEW n \in Tried(info)
      PROVE  /\ n \in Pos \X Pos
             /\ n \in (1 .. m[1]) \X (1 .. m[2])
             /\ n = m \/ Before(n, m)
  <2>1. CASE n = m
    BY <1>1, <1>5, <2>1
  <2>2. CASE n = a
    BY <1>1, <1>2, <1>3, <1>4, <2>2
  <2>3. CASE n = b
    BY <1>1, <1>2, <1>3, <1>4, <2>3
  <2>. QED BY <1>3, <2>1, <2>2, <2>3
<1>7. Tried(info) \ {m} = {n \in {a, b} : n[1] > 0 /\ n[2] > 0}
  BY <1>2, <1>3
<1>8. ASSUME NEW h, h \subseteq Tried(info), h # {}
      PROVE  Top(h) \in h /\ \A n \in h : n = Top(h) \/ Before(n, Top(h))
  <2> DEFINE a_ == IF a \in Tried(info) THEN a ELSE m
             b_ == IF b \in Tried(info) THEN b ELSE m
  <2>1. a_ \in Pos \X Pos /\ b_ \in Pos \X Pos
    BY <1>5, <1>6
  <2>2. h \subseteq {m, a_, b_}
    BY <1>3, <1>8
  <2>. HIDE DEF a_, b_
  <2>. QED BY <1>5, <1>8, <2>1, <2>2, TopOfQueue
<1>. QED BY <1>5, <1>6, <1>7, <1>8

\* The rule under search.
LEMMA HeadRule ==
  ASSUME TodoOK, todo # << >>
  PROVE  /\ Head(todo) \in Info /\ Head(todo) \in Rules
         /\ Tail(todo) \in Seq(Info) /\ ElementsOf(Tail(todo)) \subseteq Rules
         /\ Tail(todo) # todo
<1>1. Tail(todo) # todo
  BY DEF TodoOK
<1>. QED BY <1>1, TailElements DEF TodoOK

\* The result of a search that finds nothing.
LEMMA NoViaType == ViaType(NoVia)
BY ViaAssumption DEF ViaType, NoVia, Vector, Index

\* A return ends the search and keeps the invariant.
LEMMA ReturnStep ==
  ASSUME IInv, todo # << >>, NEW p, ViaType(p), p # NoVia => FitLegal(p), Return(p), req' = req
  PROVE  IInv' /\ Score(p) <= Score(ans')
<1>1. AnsOK' /\ Score(p) <= Score(ans')
  BY ReturnKeeps DEF IInv
<1>2. ReqOK'
  BY DEF IInv, ReqOK
<1>3. TodoOK'
  BY HeadRule DEF IInv, Return, TodoOK
<1>4. Idle'
  BY DEF Return, Idle
<1>. QED BY <1>1, <1>2, <1>3, <1>4 DEF IInv

\* What BestOfTried says of a step.
BestStep ==
  todo # << >> /\ todo' = Tail(todo) =>
    \A n \in Tried(Head(todo)) :
      Feasible(Head(todo), n) =>
        n[1] * n[2] * Head(todo).cut[1] * Head(todo).cut[2] <= Score(ans')

\* A search begins with the largest array, before which there is nothing to pass.
LEMMA StartStep ==
  ASSUME IInv, StartSearch
  PROVE  IInv' /\ BestStep
<1> DEFINE info == Head(todo)
           m == Most(info, req.dim)
<1>1. Idle /\ todo # << >> /\ req' = req
  BY DEF IInv, StartSearch, Searching, NoArray, Pos
<1>2. info \in Info /\ Tail(todo) # todo
  BY <1>1, HeadRule DEF IInv
<1>3. m[1] \in Nat /\ m[2] \in Nat
  BY <1>2, ReqParts, MostType DEF IInv
<1>4. CASE 0 \in {m[1], m[2]} /\ Return(NoVia)
  <2>1. IInv'
    BY <1>1, <1>4, NoViaType, ReturnStep
  <2>2. Tried(info) = {}
    <3>1. m[1] <= 0 \/ m[2] <= 0
      BY <1>4
    <3>. QED BY <1>3, <3>1 DEF Tried
  <2>. QED BY <2>1, <2>2 DEF BestStep
<1>5. CASE /\ 0 \notin {m[1], m[2]}
           /\ most' = m /\ heap' = {m} /\ sps' = Spacings(info, m)
           /\ UNCHANGED <<todo, opt, ans, seen>>
  <2>1. m[1] \in Pos /\ m[2] \in Pos
    BY <1>3, <1>5 DEF Pos
  <2>2. Top({m}) = m
    BY DEF Top
  <2>3. m \in Tried(info) /\ \A n \in Tried(info) : n = m \/ Before(n, m)
    <3>. HIDE DEF m, info
    <3>1. m = Most(info, req.dim)
      BY DEF m
    <3>. QED BY <1>2, <2>1, <3>1, TriedSizes DEF IInv
  <2>4. /\ \A i : Tried(i)' = Tried(i)
        /\ \A i, n : Feasible(i, n)' <=> Feasible(i, n)
    BY <1>1 DEF Tried, Feasible, Fit
  <2>5. NothingPassed'
    BY <1>5, <2>2, <2>3, <2>4 DEF NothingPassed
  <2>6. OptOK'
    <3>1. Spacings(info, m) \in Seq(Spacing)
      BY <1>2, InfoParts
    <3>. QED BY <1>1, <1>5, <2>2, <3>1 DEF OptOK, Idle
  <2>7. Searching'
    BY <1>1, <1>5, <2>1, <2>3, <2>4, <2>5, <2>6 DEF Searching
  <2>8. AnsOK'
    BY <1>1, <1>5 DEF IInv, AnsOK, ViaType, FitLegal, Enclosed, Within, LayerDir, NotDominated,
                      Score, ExtDim
  <2>9. ReqOK' /\ TodoOK'
    BY <1>1, <1>5 DEF IInv, ReqOK, TodoOK
  <2>10. BestStep
    BY <1>2, <1>5 DEF BestStep
  <2>. QED BY <2>7, <2>8, <2>9, <2>10 DEF IInv
<1>. QED BY <1>4, <1>5 DEF StartSearch

\* A step that goes on with a search.
LEMMA SearchGoesOn ==
  ASSUME IInv, most # NoArray, UNCHANGED <<req, todo, most, ans, seen>>,
         heap' \subseteq Tried(Head(todo)), heap' = {} => sps' = << >> /\ opt' = NoFit,
         heap' # {} => OptOK', NothingPassed'
  PROVE  IInv' /\ BestStep
<1>1. Searching /\ Tail(todo) # todo
  BY HeadRule DEF IInv, Idle, Searching
<1>2. Tried(Head(todo))' = Tried(Head(todo))
  BY DEF Tried
<1>3. Searching'
  BY <1>1, <1>2 DEF Searching
<1>4. AnsOK'
  BY DEF IInv, AnsOK, ViaType, FitLegal, Enclosed, Within, LayerDir, NotDominated, Score, ExtDim
<1>5. ReqOK' /\ TodoOK'
  BY DEF IInv, ReqOK, TodoOK
<1>6. BestStep
  BY <1>1 DEF BestStep
<1>. QED BY <1>3, <1>4, <1>5, <1>6 DEF IInv

\* Facts of a search with a size at the top.
LEMMA AtTop ==
  ASSUME IInv, heap # {}
  PROVE  /\ Searching /\ OptOK /\ most # NoArray /\ todo # << >>
         /\ Head(todo) \in Info /\ Head(todo) \in Rules
         /\ Top(heap) \in heap /\ Top(heap) \in Tried(Head(todo)) /\ Top(heap) \in Pos \X Pos
         /\ Top(heap) \in (1 .. most[1]) \X (1 .. most[2])
<1>1. Searching
  BY DEF IInv, Idle
<1>2. Head(todo) \in Info /\ Head(todo) \in Rules
  BY <1>1, HeadRule DEF IInv, Searching
<1>3. most # NoArray
  BY <1>1 DEF Searching, NoArray, Pos
<1>4. /\ Top(heap) \in heap
      /\ \A n \in Tried(Head(todo)) : n \in Pos \X Pos /\ n \in (1 .. most[1]) \X (1 .. most[2])
  BY <1>1, <1>2, TriedSizes DEF IInv, Searching
<1>. QED BY <1>1, <1>2, <1>3, <1>4 DEF Searching

\* One spacing tried: the first that fits is taken, as no length exceeds MaxInt.
LEMMA TryStep ==
  ASSUME IInv, TrySpacing
  PROVE  IInv' /\ BestStep
<1> DEFINE info == Head(todo)
           num == Top(heap)
           all == ElementsOf(Spacings(info, num))
           f == Fit(info, num, Head(sps))
<1>1. heap # {} /\ sps # << >> /\ UNCHANGED <<req, todo, most, heap, ans, seen>>
  BY DEF IInv, Idle, Searching, TrySpacing
<1>2. /\ Searching /\ OptOK /\ most # NoArray /\ info \in Info /\ info \in Rules
      /\ num \in Pos \X Pos /\ num \in (1 .. most[1]) \X (1 .. most[2])
      /\ most = Most(info, req.dim)
  BY <1>1, AtTop DEF Searching
<1>3. /\ Head(sps) \in all /\ Head(sps) \in Spacing /\ Tail(sps) \in Seq(Spacing)
      /\ ElementsOf(sps) = {Head(sps)} \cup ElementsOf(Tail(sps)) /\ ElementsOf(sps) \subseteq all
  BY <1>1, <1>2, TailElements DEF OptOK
<1>4. f.dim <= MaxInt /\ f.adj_dim <= MaxInt
  <2>1. req.dim \in Boxes /\ req.dir \in Index /\ req.adj_dir \in Index /\ req.extend \in BOOLEAN
    BY ReqParts DEF IInv, ReqOK
  <2>2. num \in (1 .. Most(info, req.dim)[1]) \X (1 .. Most(info, req.dim)[2])
    BY <1>2
  <2>. HIDE DEF info, num
  <2>3. \A l, d \in Index :
          MetalDim(req.dim, ArrDims(info, num, Head(sps)), info.enc[l], d, req.extend) <= MaxInt
    BY <1>2, <1>3, <2>1, <2>2, LengthAssumption
  <2>. QED BY <2>1, <2>3 DEF Fit, Index
<1>5. f # NoFit /\ f.dim \in Nat /\ f.adj_dim \in Nat
  BY <1>2, <1>3, FitType DEF IInv
<1>6. /\ opt' = IF Fits(f) /\ f.dim <= opt.dim /\ f.adj_dim <= opt.adj_dim THEN f ELSE opt
      /\ sps' = Tail(sps)
  BY DEF TrySpacing
<1>7. \A i, n, sp : Fit(i, n, sp)' = Fit(i, n, sp)
  BY <1>1 DEF Fit
<1>8. OptOK'
  <2>. HIDE DEF f, num, info
  <2>1. /\ opt' # NoFit => \E sp \in all : opt' = Fit(info, num, sp) /\ Fits(opt')
        /\ opt' = NoFit => \A sp \in all : sp \in ElementsOf(sps') \/ ~Fits(Fit(info, num, sp))
    <3>1. /\ opt # NoFit => \E sp \in all : opt = Fit(info, num, sp) /\ Fits(opt)
          /\ opt = NoFit => \A sp \in all : sp \in ElementsOf(sps) \/ ~Fits(Fit(info, num, sp))
      BY <1>2 DEF OptOK, info, num
    <3>2. f = Fit(info, num, Head(sps))
      BY DEF f, info, num
    <3>3. CASE opt' = f /\ Fits(f)
      BY <1>3, <1>5, <3>2, <3>3
    <3>4. CASE opt' = opt /\ opt # NoFit
      BY <3>1, <3>4
    <3>5. CASE opt' = opt /\ opt = NoFit /\ ~Fits(f)
      BY <1>3, <1>6, <3>1, <3>2, <3>5
    <3>6. opt = NoFit => f.dim <= opt.dim /\ f.adj_dim <= opt.adj_dim
      BY <1>4, <1>5, ViaAssumption DEF NoFit
    <3>. QED BY <1>6, <3>3, <3>4, <3>5, <3>6
  <2>2. Head(todo') = info /\ Top(heap') = num
    BY <1>1 DEF info, num
  <2>3. ElementsOf(sps') \subseteq all /\ sps' \in Seq(Spacing)
    BY <1>3, <1>6
  <2>. QED BY <1>7, <2>1, <2>2, <2>3 DEF OptOK
<1>9. NothingPassed'
  BY <1>1, <1>2, <1>7 DEF Searching, NothingPassed, Tried, Feasible
<1>. QED BY <1>1, <1>2, <1>8, <1>9, SearchGoesOn DEF Searching

\* A failed turn pushes the two smaller sizes and pops what is then the top, which
\* does not come before the size that failed: no feasible size is popped.
LEMMA FailStep ==
  ASSUME IInv, Fail
  PROVE  IInv' /\ BestStep
<1> DEFINE info == Head(todo)
           T == Tried(info)
           g == heap \cup Smaller
<1>1. /\ heap # {} /\ sps = << >> /\ opt = NoFit
      /\ heap' = g \ {Top(g)}
      /\ sps' = IF heap' = {} THEN << >> ELSE Spacings(info, Top(heap'))
      /\ UNCHANGED <<req, todo, most, opt, ans, seen>>
  BY DEF Fail
<1>2. /\ Searching /\ OptOK /\ most # NoArray /\ info \in Info
      /\ Top(heap) \in heap /\ Top(heap) \in T
      /\ heap \subseteq T /\ most = Most(info, req.dim)
  BY <1>1, AtTop DEF Searching
<1>3. /\ T \ {most} = Smaller
      /\ \A n \in T : n \in Pos \X Pos /\ (n = most \/ Before(n, most))
      /\ \A h : h \subseteq T /\ h # {} => Top(h) \in h /\ \A n \in h : n = Top(h) \/ Before(n, Top(h))
  BY <1>2, TriedSizes DEF IInv, Searching, Smaller
<1>. HIDE DEF T
<1>4. g \subseteq T /\ g # {} /\ heap' \subseteq T
  BY <1>1, <1>2, <1>3
<1>5. ~Feasible(info, Top(heap))
  BY <1>1, <1>2 DEF OptOK, Feasible, ElementsOf
<1>6. Top(g) \in g /\ \A n \in g : n = Top(g) \/ Before(n, Top(g))
  BY <1>3, <1>4
<1>. HIDE DEF g
<1>7. ASSUME NEW n \in T, Feasible(info, n)
      PROVE  heap' # {} /\ (n = Top(heap') \/ Before(n, Top(heap')))
  <2>1. n # Top(heap) /\ Before(n, Top(heap))
    BY <1>2, <1>5, <1>7 DEF Searching, NothingPassed, T
  <2>2. Top(heap) \in Pos \X Pos /\ Top(g) \in Pos \X Pos /\ n \in Pos \X Pos /\ most \in T
    BY <1>2, <1>3, <1>4, <1>6, TriedSizes DEF IInv, Searching, T
  <2>3. n # most
    BY <1>2, <1>3, <2>1, <2>2, BeforeOrder
  <2>4. n \in g
    BY <1>3, <1>7, <2>3 DEF g
  <2>5. Top(heap) = Top(g) \/ Before(Top(heap), Top(g))
    BY <1>2, <1>6 DEF g
  <2>6. n # Top(g)
    BY <2>1, <2>2, <2>5, BeforeOrder
  <2>7. n \in heap'
    BY <1>1, <2>4, <2>6
  <2>. QED BY <1>3, <1>4, <2>7
<1>8. /\ \A i : Tried(i)' = Tried(i)
      /\ \A i, n : Feasible(i, n)' <=> Feasible(i, n)
  BY <1>1 DEF Tried, Feasible, Fit
<1>9. NothingPassed'
  BY <1>1, <1>7, <1>8 DEF NothingPassed, T
<1>10. heap' # {} => OptOK'
  <2>1. \A n : Spacings(info, n) \in Seq(Spacing)
    BY <1>2, InfoParts
  <2>. QED BY <1>1, <2>1 DEF OptOK
<1>. QED BY <1>1, <1>2, <1>4, <1>9, <1>10, SearchGoesOn DEF T

\* A size that does not come after another has at least its cut area.
LEMMA AreaOrder ==
  ASSUME NEW m \in Pos \X Pos, NEW n \in Pos \X Pos, NEW cut \in Pos \X Pos,
         n = m \/ Before(n, m)
  PROVE  n[1] * n[2] * cut[1] * cut[2] <= m[1] * m[2] * cut[1] * cut[2]
<1> DEFINE a == n[1] * n[2]
           b == m[1] * m[2]
<1>1. a \in Nat /\ b \in Nat /\ cut[1] \in Nat /\ cut[2] \in Nat
  BY DEF Pos
<1>2. a <= b
  BY <1>1 DEF Before
<1>. HIDE DEF a, b
<1>3. a * cut[1] <= b * cut[1] /\ a * cut[1] \in Nat /\ b * cut[1] \in Nat
  BY <1>1, <1>2
<1>4. \A x, y, z \in Nat : x <= y => x * z <= y * z
  OBVIOUS
<1>5. (a * cut[1]) * cut[2] <= (b * cut[1]) * cut[2]
  BY <1>1, <1>3, <1>4
<1>. QED BY <1>5 DEF a, b

\* The fit found is that of the best size that fits, and its via is legal.
LEMMA FoundStep ==
  ASSUME IInv, Found
  PROVE  IInv' /\ BestStep
<1> DEFINE info == Head(todo)
           num == Top(heap)
<1>1. heap # {} /\ opt # NoFit /\ Return(Via) /\ req' = req
  BY DEF Found
<1>2. /\ Searching /\ OptOK /\ todo # << >> /\ info \in Info /\ info \in Rules
      /\ num \in Pos \X Pos
      /\ \A n \in Tried(info) : n \in Pos \X Pos
  BY <1>1, AtTop, TriedSizes DEF IInv, Searching
<1>3. PICK sp \in ElementsOf(Spacings(info, num)) : opt = Fit(info, num, sp) /\ Fits(opt)
  BY <1>1, <1>2 DEF OptOK
<1>4. PICK p : p = Via
  OBVIOUS
<1>5. /\ ViaType(p) /\ FitLegal(p)
      /\ Score(p) = num[1] * num[2] * info.cut[1] * info.cut[2]
  BY <1>2, <1>3, <1>4, ViaIsLegal DEF IInv
<1>6. IInv' /\ Score(p) <= Score(ans')
  BY <1>1, <1>2, <1>4, <1>5, ReturnStep
<1>7. ASSUME NEW n \in Tried(info), Feasible(info, n)
      PROVE  n[1] * n[2] * info.cut[1] * info.cut[2] <= Score(ans')
  <2>1. n = num \/ Before(n, num)
    BY <1>2, <1>7 DEF Searching, NothingPassed
  <2>2. info.cut \in Pos \X Pos
    BY <1>2, InfoParts
  <2>. HIDE DEF info, num
  <2>3. n[1] * n[2] * info.cut[1] * info.cut[2] <= Score(p)
    BY <1>2, <1>5, <1>7, <2>1, <2>2, AreaOrder
  <2>4. Score(p) \in Nat /\ Score(ans') \in Nat
    <3>1. ViaType(ans') /\ ViaType(ans)
      BY <1>1, <1>4, <1>5 DEF Return, IInv, AnsOK
    <3>. QED BY <1>5, <3>1, ViaNumbers DEF IInv
  <2>5. n[1] * n[2] * info.cut[1] * info.cut[2] \in Nat
    BY <1>2, <1>7, <2>2 DEF Pos
  <2>. QED BY <1>6, <2>3, <2>4, <2>5
<1>. QED BY <1>6, <1>7 DEF BestStep

\* The queue runs dry only when none of the three sizes is feasible.
LEMMA GiveUpStep ==
  ASSUME IInv, GiveUp
  PROVE  IInv' /\ BestStep
<1>1. heap = {} /\ most # NoArray /\ Return(NoVia) /\ req' = req
  BY DEF GiveUp
<1>2. Searching
  BY <1>1 DEF IInv, Idle
<1>3. IInv'
  BY <1>1, <1>2, NoViaType, ReturnStep DEF Searching
<1>4. \A n \in Tried(Head(todo)) : ~Feasible(Head(todo), n)
  BY <1>1, <1>2 DEF Searching, NothingPassed
<1>. QED BY <1>3, <1>4 DEF BestStep

-----------------------------------------------------------------------------
(***************************************************************************)
(* The theorems.                                                           *)
(***************************************************************************)

\* The inductive invariant holds of every call, and each step keeps it.
LEMMA SearchInit == Init => IInv
<1>. SUFFICES ASSUME Init PROVE IInv
  OBVIOUS
<1>1. ReqOK
  BY DEF Init, ReqOK
<1>2. todo \in Seq(Info) /\ ElementsOf(todo) \subseteq Rules
  BY ViaAssumption DEF Init, Rules
<1>3. AnsOK
  BY NoViaType DEF Init, AnsOK, NotDominated
<1>. QED BY <1>1, <1>2, <1>3 DEF Init, IInv, TodoOK, Idle

LEMMA SearchStep == IInv /\ [Next]_vars => IInv' /\ [BestStep]_vars
<1>1. CASE IInv /\ UNCHANGED vars
  <2>1. ReqOK' /\ TodoOK' /\ AnsOK'
    BY <1>1 DEF vars, IInv, ReqOK, TodoOK, AnsOK, ViaType, FitLegal, Enclosed, Within,
                LayerDir, NotDominated, Score, ExtDim
  <2>2. Idle => Idle'
    BY <1>1 DEF vars, Idle
  <2>3. ASSUME Searching PROVE Searching'
    <3>1. /\ \A i : Tried(i)' = Tried(i)
          /\ \A i, n : Feasible(i, n)' <=> Feasible(i, n)
          /\ \A i, n, sp : Fit(i, n, sp)' = Fit(i, n, sp)
      BY <1>1 DEF vars, Tried, Feasible, Fit
    <3>2. NothingPassed' <=> NothingPassed
      BY <1>1, <3>1 DEF vars, NothingPassed
    <3>3. OptOK => OptOK'
      BY <1>1, <3>1 DEF vars, OptOK
    <3>. QED BY <1>1, <2>3, <3>1, <3>2, <3>3 DEF vars, Searching
  <2>. QED BY <1>1, <2>1, <2>2, <2>3 DEF IInv
<1>2. CASE IInv /\ Next
  BY <1>2, StartStep, TryStep, FailStep, FoundStep, GiveUpStep DEF Next
<1>. QED BY <1>1, <1>2

\* The shape of the variables: the via returned never has the spacing MaxInt, which
\* a rule uses for cuts that cannot be arrayed.  For every set of rules.
THEOREM TypeCorrect == Spec => []TypeOK
<1>1. IInv => TypeOK
  <2>. SUFFICES ASSUME IInv PROVE TypeOK
    OBVIOUS
  <2>1. ans.num \in Vector /\ ans.cut \in Vector
        /\ ans.sp \in (0 .. MaxInt - 1) \X (0 .. MaxInt - 1)
        /\ ans.enc \in [Index -> [Index -> Nat]]
    BY DEF IInv, AnsOK, ViaType
  <2>2. \A s \in Seq(Spacing) : s \in Seq(Vector)
    BY ViaAssumption DEF Spacing, Vector
  <2>3. CASE Idle
    BY <2>1, <2>3 DEF IInv, TodoOK, Idle, TypeOK, NoArray, Vector
  <2>4. CASE Searching
    <3>1. /\ most \in Vector /\ heap \subseteq Vector \ {NoArray}
      <4>1. Head(todo) \in Info
        BY <2>4, HeadRule DEF IInv, Searching
      <4>2. \A n \in Tried(Head(todo)) : n \in Pos \X Pos
        BY <2>4, <4>1, TriedSizes DEF IInv, Searching
      <4>3. most \in Pos \X Pos
        BY <2>4, <4>1, TriedSizes DEF IInv, Searching
      <4>. QED BY <2>4, <4>2, <4>3 DEF Searching, Vector, NoArray, Pos
    <3>2. sps \in Seq(Vector)
      <4>1. CASE heap = {}
        BY <2>4, <4>1, EmptySeq DEF Searching
      <4>2. CASE heap # {}
        BY <2>2, <2>4, <4>2 DEF Searching, OptOK
      <4>. QED BY <4>1, <4>2
    <3>3. opt = NoFit \/ opt \in [sp : Vector, arr : Vector, dim : Nat, adj_dim : Nat]
      <4>1. SUFFICES ASSUME heap # {}, opt # NoFit
                     PROVE  opt \in [sp : Vector, arr : Vector, dim : Nat, adj_dim : Nat]
        BY <2>4 DEF Searching
      <4>2. PICK sp \in ElementsOf(Spacings(Head(todo), Top(heap))) :
              opt = Fit(Head(todo), Top(heap), sp)
        BY <2>4, <4>1 DEF Searching, OptOK
      <4>3. Head(todo) \in Info /\ Top(heap) \in Pos \X Pos
        BY <4>1, AtTop
      <4>. QED BY <4>2, <4>3, InfoParts, FitType DEF IInv
    <3>. QED BY <2>1, <3>1, <3>2, <3>3 DEF IInv, TodoOK, TypeOK
  <2>. QED BY <2>3, <2>4 DEF IInv
<1>. QED BY <1>1, SearchInit, SearchStep, PTL DEF Spec

\* Every via returned has a spacing for its array size and stays in the overlap; called
\* from the lower layer, or with the same rules for both, its metals keep the enclosures
\* of their own layers.  For every set of rules and every overlap.
THEOREM AlwaysLegal == Spec => []ViaLegal
<1>1. IInv => ViaLegal
  <2>. SUFFICES ASSUME IInv, ans # NoVia
                PROVE  /\ \A l \in Index : Within(ans, l)
                       /\ \E info \in Rules :
                            /\ OfKind(ans, info)
                            /\ req.vdir = 1 \/ info.enc[1] = info.enc[2]
                                 => LayersEnclosed(ans, info)
    BY DEF ViaLegal
  <2>1. \A l \in Index : Within(ans, l)
    BY DEF IInv, AnsOK, FitLegal
  <2>2. PICK info \in Rules : /\ OfKind(ans, info)
                             /\ Enclosed(ans, req.vdir, info.enc[1])
                             /\ Enclosed(ans, 3 - req.vdir, info.enc[2])
    BY DEF IInv, AnsOK, FitLegal
  <2>3. req.vdir = 1 \/ req.vdir = 2
    BY DEF IInv, ReqOK, Index
  <2>4. CASE req.vdir = 1
    BY <2>1, <2>2, <2>4 DEF LayersEnclosed, Index
  <2>5. CASE req.vdir = 2
    <3>1. info.enc[1] = info.enc[2] =>
            Enclosed(ans, 1, info.enc[1]) /\ Enclosed(ans, 2, info.enc[2])
      BY <2>2, <2>5
    <3>. QED BY <2>1, <2>2, <2>5, <3>1 DEF LayersEnclosed, Index
  <2>. QED BY <2>3, <2>4, <2>5
<1>. QED BY <1>1, SearchInit, SearchStep, PTL DEF Spec

\* The answer is the best of the results: none has a larger cut area, nor the same
\* one with a metal shorter and none longer.
THEOREM NeverDominated == Spec => []NotDominated
<1>1. IInv => NotDominated
  BY DEF IInv, AnsOK
<1>. QED BY <1>1, SearchInit, SearchStep, PTL DEF Spec

\* A search that returns has passed over no feasible one of its three sizes, although
\* the queue forgets what it popped and takes it back.
THEOREM SearchesBest == Spec => BestOfTried
<1>. QED BY SearchInit, SearchStep, PTL DEF Spec, BestOfTried, BestStep
=============================================================================
