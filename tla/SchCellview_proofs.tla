------------------------- MODULE SchCellview_proofs -------------------------
(***************************************************************************)
(* Proofs about SchCellview for any set of names, sizes, nets and pins:    *)
(* the variables keep their shape, every connection keeps the width of its *)
(* instance array, whatever is renamed, arrayed, rewired or retargeted and *)
(* wherever array_instance stops, array_instance loses no other instance,  *)
(* an instance that is resized keeps the nets of its devices, and the pins *)
(* of the symbol follow those of the schematic.  The instances are kept in *)
(* a sorted_map; that its vector holds a dictionary is proved at the end.  *)
(***************************************************************************)
EXTENDS SchCellview, SortedMap, Recursion, SequenceTheorems, TLAPS

\* The connections of an instance of the given size: a dictionary from terminals
\* to nets that are wide enough for every device.
Conns == UNION {[ts -> Seq(Bits)] : ts \in SUBSET Terms}
Wired(size) == {c \in Conns : \A t \in DOMAIN c : Len(c[t]) = size * TermSize[t]}
InstanceOf(size) == [master : Masters, connections : Wired(size)]

-----------------------------------------------------------------------------
(***************************************************************************)
(* Arithmetic of sizes.                                                    *)
(***************************************************************************)

\* A product of positive sizes is positive: an empty net never arises.
LEMMA ProductPositive ==
  ASSUME NEW m \in Nat \ {0}, NEW k \in Nat \ {0}
  PROVE  m * k \in Nat \ {0}
OBVIOUS

\* A length that is a multiple of the net's is reached by repeating the net.
LEMMA DivExact ==
  ASSUME NEW m \in Nat, NEW k \in Nat \ {0}, m % k = 0
  PROVE  m \div k \in Nat /\ (m \div k) * k = m
<1>1. m \div k \in Nat
  OBVIOUS
<1>2. m = k * (m \div k) + (m % k)
  OBVIOUS
<1>. QED BY <1>1, <1>2

\* Repeating the nets of an array of old devices by new \div old gives nets for new
\* devices.
LEMMA ScaledWidth ==
  ASSUME NEW old \in Nat \ {0}, NEW new \in Nat, NEW w \in Nat, new % old = 0
  PROVE  (new \div old) * (old * w) = new * w
<1> DEFINE d == new \div old
<1>1. d \in Nat /\ d * old = new
  BY DivExact
<1>. HIDE DEF d
<1>2. d * (old * w) = (d * old) * w
  BY <1>1
<1>. QED BY <1>1, <1>2 DEF d

\* repeat gives an expression of the same bits, k times as wide.
LEMMA RepeatWidth ==
  ASSUME NEW S, NEW net \in Seq(S), net # << >>, NEW k \in Nat
  PROVE  Repeat(net, k) \in Seq(S) /\ Len(Repeat(net, k)) = k * Len(net)
<1>1. Len(net) \in Nat \ {0}
  OBVIOUS
<1>2. k * Len(net) \in Nat
  BY <1>1
<1>3. ASSUME NEW i \in 1 .. k * Len(net)
      PROVE  net[((i - 1) % Len(net)) + 1] \in S
  <2>1. (i - 1) % Len(net) \in 0 .. Len(net) - 1
    BY <1>1, <1>2
  <2>. QED BY <2>1
<1>. DEFINE n == k * Len(net)
            f == [i \in 1 .. n |-> net[((i - 1) % Len(net)) + 1]]
<1>4. f \in [1 .. n -> S]
  BY <1>3
<1>5. Repeat(net, k) = f
  BY DEF Repeat
<1>. HIDE DEF f, n
<1>6. n \in Nat
  BY <1>2 DEF n
<1>7. f \in Seq(S) /\ Len(f) = n
  BY <1>4, <1>6
<1>. QED BY <1>5, <1>7 DEF n

-----------------------------------------------------------------------------
(***************************************************************************)
(* Connections.                                                            *)
(***************************************************************************)

\* What membership in Wired says, without the UNION.
LEMMA WiredFacts ==
  ASSUME NEW size
  PROVE  /\ \A c \in Wired(size) :
              /\ DOMAIN c \subseteq Terms /\ c \in [DOMAIN c -> Seq(Bits)]
              /\ \A t \in DOMAIN c : c[t] \in Seq(Bits) /\ Len(c[t]) = size * TermSize[t]
         /\ \A ts \in SUBSET Terms : \A c \in [ts -> Seq(Bits)] :
              (\A t \in ts : Len(c[t]) = size * TermSize[t]) => c \in Wired(size)
<1>1. ASSUME NEW c \in Wired(size)
      PROVE  DOMAIN c \subseteq Terms /\ c \in [DOMAIN c -> Seq(Bits)]
  <2>1. PICK ts \in SUBSET Terms : c \in [ts -> Seq(Bits)]
    BY DEF Wired, Conns
  <2>. QED BY <2>1
<1>. QED BY <1>1 DEF Wired, Conns

\* No connections are right for any size.
LEMMA EmptyWired == ASSUME NEW size PROVE EmptyDict \in Wired(size)
<1>1. EmptyDict \in [{} -> Seq(Bits)] /\ {} \in SUBSET Terms
  BY DEF EmptyDict
<1>. QED BY <1>1, WiredFacts DEF EmptyDict

\* Adding or replacing one connection of the right width.
LEMMA InsertWired ==
  ASSUME NEW size, NEW c \in Wired(size), NEW t \in Terms, NEW net \in Seq(Bits),
         Len(net) = size * TermSize[t]
  PROVE  InsertOrAssign(c, t, net) \in Wired(size)
<1> DEFINE ts == DOMAIN c \cup {t}
           f  == InsertOrAssign(c, t, net)
<1>1. /\ ts \in SUBSET Terms /\ f \in [ts -> Seq(Bits)]
      /\ \A x \in ts : Len(f[x]) = size * TermSize[x]
  BY WiredFacts DEF InsertOrAssign
<1>. QED BY <1>1, WiredFacts

\* update_connection stores a net of the right width.
LEMMA ConnectedWidth ==
  ASSUME NEW size \in Nat \ {0}, NEW term \in Terms, NEW net \in Nets,
         CanConnect(size, term, net)
  PROVE  /\ Connected(size, term, net) \in Seq(Bits)
         /\ Len(Connected(size, term, net)) = size * TermSize[term]
<1>1. net \in Seq(Bits) /\ net # << >>
  BY SchAssumption DEF Bits
<1>2. Len(net) \in Nat \ {0}
  BY <1>1
<1>3. TermSize[term] \in Nat \ {0}
  BY SchAssumption
<1>4. size * TermSize[term] \in Nat \ {0}
  BY <1>3, ProductPositive
<1> DEFINE m == size * TermSize[term]
<1>. HIDE DEF m
<1>5. m \div Len(net) \in Nat /\ (m \div Len(net)) * Len(net) = m
  BY <1>2, <1>4, DivExact DEF CanConnect, m
<1>. QED BY <1>1, <1>5, RepeatWidth DEF Connected, m

\* resize_nets turns connections for old devices into connections for new ones, or
\* into none.
LEMMA ResizeWired ==
  ASSUME NEW old \in Nat \ {0}, NEW new \in Nat \ {0}, NEW c \in Wired(old)
  PROVE  ResizeNets(c, old, new) \in Wired(new)
<1>1. CASE new % old # 0
  BY <1>1, EmptyWired DEF ResizeNets
<1>2. CASE new % old = 0
  <2> DEFINE k == new \div old
             f == [t \in DOMAIN c |-> Repeat(c[t], k)]
  <2>1. k \in Nat
    BY <1>2, DivExact
  <2>2. ASSUME NEW t \in DOMAIN c
        PROVE  f[t] \in Seq(Bits) /\ Len(f[t]) = new * TermSize[t]
    <3>1. c[t] \in Seq(Bits) /\ Len(c[t]) = old * TermSize[t] /\ TermSize[t] \in Nat \ {0}
      BY WiredFacts, SchAssumption
    <3>2. c[t] # << >>
      BY <3>1, ProductPositive
    <3>3. Repeat(c[t], k) \in Seq(Bits) /\ Len(Repeat(c[t], k)) = k * Len(c[t])
      BY <2>1, <3>1, <3>2, RepeatWidth
    <3>4. k * (old * TermSize[t]) = new * TermSize[t]
      BY <1>2, <3>1, ScaledWidth
    <3>. QED BY <3>1, <3>3, <3>4
  <2>3. ResizeNets(c, old, new) = f
    BY <1>2 DEF ResizeNets
  <2>. HIDE DEF f
  <2>4. DOMAIN c \in SUBSET Terms
    BY WiredFacts
  <2>5. f \in [DOMAIN c -> Seq(Bits)]
    BY <2>2 DEF f
  <2>. QED BY <2>2, <2>3, <2>4, <2>5, WiredFacts
<1>. QED BY <1>1, <1>2

\* The instance that copy_instance or rename_instance stores under a legal name.
LEMMA ResizedOf ==
  ASSUME NEW old \in Nat \ {0}, NEW inst \in InstanceOf(old), NEW name \in LegalNames
  PROVE  Resized(inst, old, name) \in InstanceOf(NameSize[name])
<1>1. NameSize[name] \in Nat \ {0}
  BY SchAssumption DEF LegalNames
<1>2. ResizeNets(inst.connections, old, NameSize[name]) \in Wired(NameSize[name])
  BY <1>1, ResizeWired DEF InstanceOf
<1>. QED BY <1>2 DEF Resized, InstanceOf

\* The instance with one connection updated.
LEMMA WithConnectionOf ==
  ASSUME NEW name \in LegalNames, NEW inst \in InstanceOf(NameSize[name]),
         NEW term \in Terms, NEW net \in Nets, CanConnect(NameSize[name], term, net)
  PROVE  WithConnection(inst, name, term, net) \in InstanceOf(NameSize[name])
<1>1. NameSize[name] \in Nat \ {0}
  BY SchAssumption DEF LegalNames
<1>2. InsertOrAssign(inst.connections, term, Connected(NameSize[name], term, net))
        \in Wired(NameSize[name])
  BY <1>1, ConnectedWidth, InsertWired DEF InstanceOf
<1>. QED BY <1>2 DEF WithConnection, InstanceOf

-----------------------------------------------------------------------------
(***************************************************************************)
(* The inductive invariant.  The instances carry it; the position of the   *)
(* array_instance call says that the instances it works on exist.          *)
(***************************************************************************)

InstancesOK ==
  /\ DOMAIN instances \subseteq LegalNames
  /\ \A n \in DOMAIN instances : instances[n] \in InstanceOf(NameSize[n])

CallOK ==
  \/ call = Idle
  \/ /\ call.old \in DOMAIN instances
     /\ call.cur = NoName \/ call.cur \in DOMAIN instances
     /\ call = [old |-> call.old, cur |-> call.cur, before |-> call.before]

PinsOK ==
  /\ DOMAIN terminals \subseteq LegalPins
  /\ \A p \in DOMAIN terminals : terminals[p] \in AttrVals \cup {NoAttr}
  /\ symbol = NoSym \/ symbol \subseteq LegalPins
  /\ ret \in Result

IInv == InstancesOK /\ CallOK /\ PinsOK

\* The invariant implies the properties the runs check.
LEMMA InvTypeOK == IInv => TypeOK
<1>. SUFFICES ASSUME IInv PROVE TypeOK
  OBVIOUS
<1>1. ASSUME NEW n \in DOMAIN instances
      PROVE  /\ instances[n].master \in Masters
             /\ DOMAIN instances[n].connections \subseteq Terms
             /\ \A t \in DOMAIN instances[n].connections :
                  instances[n].connections[t] \in Seq(Bits)
  <2>1. instances[n].master \in Masters /\ instances[n].connections \in Wired(NameSize[n])
    BY DEF IInv, InstancesOK, InstanceOf
  <2>. QED BY <2>1, WiredFacts
<1>2. /\ call = Idle \/ call.old \in DOMAIN instances
      /\ call.cur = NoName \/ call.cur \in DOMAIN instances
  BY DEF IInv, CallOK, Idle
<1>. QED BY <1>1, <1>2 DEF IInv, InstancesOK, PinsOK, TypeOK

\* ... and the width of the connections.
LEMMA InvConnWidth == IInv => ConnWidth
<1>. SUFFICES ASSUME IInv, NEW n \in DOMAIN instances,
                     NEW t \in DOMAIN instances[n].connections
              PROVE  Len(instances[n].connections[t]) = NameSize[n] * TermSize[t]
  BY DEF ConnWidth
<1>1. instances[n].connections \in Wired(NameSize[n])
  BY DEF IInv, InstancesOK, InstanceOf
<1>. QED BY <1>1, WiredFacts

\* A loaded schematic satisfies it.
LEMMA InvInit == Init => IInv
<1>. SUFFICES ASSUME Init PROVE IInv
  OBVIOUS
<1>1. InstancesOK
  <2>1. PICK names \in SUBSET LegalNames :
          instances \in [names -> [master : Masters, connections : {EmptyDict}]]
    BY DEF Init
  <2>. QED BY <2>1, EmptyWired DEF InstancesOK, InstanceOf
<1>2. CallOK
  BY DEF Init, CallOK
<1>3. PinsOK
  BY DEF Init, PinsOK, Result
<1>. QED BY <1>1, <1>2, <1>3 DEF IInv

-----------------------------------------------------------------------------
(***************************************************************************)
(* One lemma per call that changes an instance.                            *)
(***************************************************************************)

\* update_connection, which may refuse.
LEMMA UpdateConnectionInv ==
  ASSUME IInv, NEW n \in InstNames, NEW t \in Terms, NEW net \in Nets,
         UpdateConnection(n, t, net)
  PROVE  IInv'
<1>1. CASE UNCHANGED instances /\ ret' = "invalid_argument"
  BY <1>1 DEF IInv, InstancesOK, CallOK, PinsOK, UpdateConnection, Result
<1>2. CASE /\ CanConnect(NameSize[n], t, net) /\ ret' = "ok"
           /\ instances' = [instances EXCEPT ![n] = WithConnection(@, n, t, net)]
  <2>1. n \in DOMAIN instances /\ n \in LegalNames /\ instances[n] \in InstanceOf(NameSize[n])
    BY DEF UpdateConnection, Has, IInv, InstancesOK
  <2>2. WithConnection(instances[n], n, t, net) \in InstanceOf(NameSize[n])
    BY <1>2, <2>1, WithConnectionOf
  <2>3. InstancesOK'
    BY <1>2, <2>1, <2>2 DEF IInv, InstancesOK
  <2>. QED BY <1>2, <2>1, <2>3 DEF IInv, CallOK, PinsOK, UpdateConnection, Result
<1>. QED BY <1>1, <1>2 DEF UpdateConnection

\* update_master keeps connections of the right width, or none.
LEMMA UpdateMasterInv ==
  ASSUME IInv, NEW n \in InstNames, NEW m \in Masters, NEW keep \in BOOLEAN,
         UpdateMaster(n, m, keep)
  PROVE  IInv'
<1>1. n \in DOMAIN instances /\ instances[n] \in InstanceOf(NameSize[n])
  BY DEF UpdateMaster, Has, IInv, InstancesOK
<1>2. [master |-> m, connections |-> IF keep THEN instances[n].connections ELSE EmptyDict]
        \in InstanceOf(NameSize[n])
  BY <1>1, EmptyWired DEF InstanceOf
<1>3. InstancesOK'
  BY <1>1, <1>2 DEF IInv, InstancesOK, UpdateMaster
<1>. QED BY <1>1, <1>3 DEF IInv, CallOK, PinsOK, UpdateMaster, Result

\* rename_instance moves the instance and resizes its nets.
LEMMA RenameInstanceInv ==
  ASSUME IInv, NEW old \in InstNames, NEW new \in InstNames, RenameInstance(old, new)
  PROVE  IInv'
<1>1. CASE UNCHANGED instances /\ ret' = "invalid_argument"
  BY <1>1 DEF IInv, InstancesOK, CallOK, PinsOK, RenameInstance, Result
<1>2. CASE /\ ~Has(instances, new) /\ new \in LegalNames /\ Has(instances, old) /\ ret' = "ok"
           /\ instances' = [ReplaceKey(instances, old, new) EXCEPT
                              ![new] = Resized(@, NameSize[old], new)]
  <2>1. /\ old \in DOMAIN instances /\ old \in LegalNames /\ NameSize[old] \in Nat \ {0}
        /\ instances[old] \in InstanceOf(NameSize[old])
    BY <1>2, SchAssumption DEF Has, IInv, InstancesOK, LegalNames
  <2>2. Resized(instances[old], NameSize[old], new) \in InstanceOf(NameSize[new])
    BY <1>2, <2>1, ResizedOf
  <2>3. /\ DOMAIN instances' = (DOMAIN instances \ {old}) \cup {new}
        /\ instances'[new] = Resized(instances[old], NameSize[old], new)
        /\ \A n \in DOMAIN instances \ {old} : instances'[n] = instances[n]
    BY <1>2 DEF ReplaceKey, Has
  <2>4. InstancesOK'
    BY <1>2, <2>2, <2>3 DEF IInv, InstancesOK
  <2>. QED BY <1>2, <2>4 DEF IInv, CallOK, PinsOK, RenameInstance, Arraying, Result
<1>. QED BY <1>1, <1>2 DEF RenameInstance

\* remove_instance.
LEMMA RemoveInstanceInv ==
  ASSUME IInv, NEW n \in InstNames, RemoveInstance(n)
  PROVE  IInv'
<1>1. InstancesOK'
  BY DEF RemoveInstance, Erase, IInv, InstancesOK
<1>. QED BY <1>1 DEF IInv, CallOK, PinsOK, RemoveInstance, Arraying, Result

\* The start of array_instance.
LEMMA StartArrayInv ==
  ASSUME IInv, NEW n \in InstNames, StartArray(n)
  PROVE  IInv'
<1>1. InstancesOK'
  BY DEF StartArray, IInv, InstancesOK
<1>2. CallOK'
  BY DEF StartArray, Has, IInv, CallOK
<1>. QED BY <1>1, <1>2 DEF IInv, PinsOK, StartArray, Result

\* A copy is the original, resized for its new name.
LEMMA CopyInstanceInv ==
  ASSUME IInv, NEW n \in InstNames, CopyInstance(n)
  PROVE  IInv'
<1>1. CASE Abort /\ UNCHANGED instances
  BY <1>1 DEF Abort, IInv, InstancesOK, CallOK, PinsOK, CopyInstance, Result
<1>2. CASE /\ n \in LegalNames /\ ~Has(instances, n)
           /\ instances' = Emplace(instances, n,
                                   Resized(instances[call.old], NameSize[call.old], n))
           /\ call' = [call EXCEPT !.cur = n]
           /\ UNCHANGED ret
  <2>1. /\ call.old \in DOMAIN instances /\ call.old \in LegalNames
        /\ NameSize[call.old] \in Nat \ {0}
        /\ instances[call.old] \in InstanceOf(NameSize[call.old])
    BY SchAssumption DEF CopyInstance, Arraying, IInv, CallOK, InstancesOK, LegalNames
  <2>2. Resized(instances[call.old], NameSize[call.old], n) \in InstanceOf(NameSize[n])
    BY <1>2, <2>1, ResizedOf
  <2>3. /\ DOMAIN instances' = DOMAIN instances \cup {n}
        /\ instances'[n] = Resized(instances[call.old], NameSize[call.old], n)
        /\ \A x \in DOMAIN instances : instances'[x] = instances[x]
    BY <1>2 DEF Emplace, Has
  <2>4. InstancesOK'
    BY <1>2, <2>2, <2>3 DEF IInv, InstancesOK
  <2>5. CallOK'
    BY <1>2, <2>1, <2>3 DEF IInv, CallOK, CopyInstance, Arraying
  <2>. QED BY <1>2, <2>4, <2>5 DEF IInv, PinsOK, CopyInstance
<1>. QED BY <1>1, <1>2 DEF CopyInstance

\* A copy is rewired, or the call ends with the copy as it stands.
LEMMA ConnectCopyInv ==
  ASSUME IInv, NEW t \in Terms, NEW net \in Nets, ConnectCopy(t, net)
  PROVE  IInv'
<1>1. CASE Abort /\ UNCHANGED instances
  BY <1>1 DEF Abort, IInv, InstancesOK, CallOK, PinsOK, ConnectCopy, Result
<1>2. CASE /\ CanConnect(NameSize[call.cur], t, net) /\ UNCHANGED <<call, ret>>
           /\ instances' = [instances EXCEPT ![call.cur] = WithConnection(@, call.cur, t, net)]
  <2>1. /\ call.cur \in DOMAIN instances /\ call.cur \in LegalNames
        /\ instances[call.cur] \in InstanceOf(NameSize[call.cur])
    BY DEF ConnectCopy, Arraying, IInv, CallOK, InstancesOK
  <2>2. WithConnection(instances[call.cur], call.cur, t, net) \in InstanceOf(NameSize[call.cur])
    BY <1>2, <2>1, WithConnectionOf
  <2>3. InstancesOK'
    BY <1>2, <2>1, <2>2 DEF IInv, InstancesOK
  <2>. QED BY <1>2, <2>3 DEF IInv, CallOK, PinsOK, ConnectCopy
<1>. QED BY <1>1, <1>2 DEF ConnectCopy

\* The end of array_instance.
LEMMA FinishArrayInv ==
  ASSUME IInv, FinishArray
  PROVE  IInv'
<1>1. InstancesOK'
  BY DEF FinishArray, Erase, IInv, InstancesOK
<1>. QED BY <1>1 DEF IInv, CallOK, PinsOK, FinishArray, Result

\* The calls on pins leave the instances alone.
LEMMA PinsInv ==
  ASSUME IInv, NextPins
  PROVE  IInv'
<1>1. UNCHANGED <<instances, call>>
  BY DEF NextPins, RenamePin, AddPin, SetPinAttribute, RemovePin
<1>2. PinsOK'
  <2>1. ASSUME NEW old \in PinNames, NEW new \in PinNames, RenamePin(old, new)
        PROVE  PinsOK'
    BY <2>1 DEF IInv, PinsOK, RenamePin, RenameSymbolPin, ReplaceKey, Has, Result
  <2>2. ASSUME NEW p \in PinNames, AddPin(p)
        PROVE  PinsOK'
    BY <2>2 DEF IInv, PinsOK, AddPin, Result
  <2>3. ASSUME NEW p \in PinNames, NEW v \in AttrVals, SetPinAttribute(p, v)
        PROVE  PinsOK'
    BY <2>3 DEF IInv, PinsOK, SetPinAttribute, Has, Result
  <2>4. ASSUME NEW p \in PinNames, RemovePin(p)
        PROVE  PinsOK'
    BY <2>4 DEF IInv, PinsOK, RemovePin, Erase, Has, Result
  <2>. QED BY <2>1, <2>2, <2>3, <2>4 DEF NextPins
<1>. QED BY <1>1, <1>2 DEF IInv, InstancesOK, CallOK

\* Every step keeps the invariant: one lemma per call.
LEMMA InvStep == IInv /\ [Next]_vars => IInv'
<1>. SUFFICES ASSUME IInv, [Next]_vars PROVE IInv'
  OBVIOUS
<1>1. CASE NextInstances
  BY <1>1, UpdateConnectionInv, UpdateMasterInv, RenameInstanceInv, RemoveInstanceInv,
     StartArrayInv, CopyInstanceInv, ConnectCopyInv, FinishArrayInv DEF NextInstances
<1>2. CASE NextPins
  BY <1>2, PinsInv
<1>3. CASE UNCHANGED vars
  BY <1>3 DEF vars, IInv, InstancesOK, CallOK, PinsOK
<1>. QED BY <1>1, <1>2, <1>3 DEF Next

\* The variables keep their shape: in particular, every instance and pin of the
\* cellview always has a name the parser accepts.
THEOREM AlwaysTypeOK == Spec => []TypeOK
BY InvInit, InvStep, InvTypeOK, PTL DEF Spec

\* Every connection always has the width of its instance array, so the netlisters
\* never index past its end: for any names, sizes and nets, and even where
\* array_instance or rename_instance throws.
THEOREM AlwaysConnWidth == Spec => []ConnWidth
BY InvInit, InvStep, InvConnWidth, PTL DEF Spec

-----------------------------------------------------------------------------
(***************************************************************************)
(* array_instance: what was there before the call is left alone, because a *)
(* copy takes a free name and only the copy is rewired.                    *)
(***************************************************************************)

CallKeeps ==
  Arraying => \A n \in DOMAIN call.before :
                /\ n # call.cur
                /\ n \in DOMAIN instances /\ instances[n] = call.before[n]

\* A copy leaves the other instances as they are.
LEMMA CopyKeeps ==
  ASSUME IInv, CallKeeps, NEW n \in InstNames, CopyInstance(n)
  PROVE  /\ \A x \in DOMAIN call.before : x \in DOMAIN instances' /\ instances'[x] = call.before[x]
         /\ CallKeeps'
<1>1. CASE Abort /\ UNCHANGED instances
  BY <1>1 DEF Abort, CallKeeps, CopyInstance, Arraying
<1>2. CASE /\ n \in LegalNames /\ ~Has(instances, n)
           /\ instances' = Emplace(instances, n,
                                   Resized(instances[call.old], NameSize[call.old], n))
           /\ call' = [call EXCEPT !.cur = n]
  <2>1. \A x \in DOMAIN instances : x # n /\ x \in DOMAIN instances' /\ instances'[x] = instances[x]
    BY <1>2 DEF Emplace, Has
  <2>2. call'.cur = n /\ call'.before = call.before
    BY <1>2 DEF IInv, CallOK, CopyInstance, Arraying
  <2>. QED BY <2>1, <2>2 DEF CallKeeps, CopyInstance, Arraying
<1>. QED BY <1>1, <1>2 DEF CopyInstance

\* Wiring a copy changes that copy alone.
LEMMA ConnectKeeps ==
  ASSUME IInv, CallKeeps, NEW t \in Terms, NEW net \in Nets, ConnectCopy(t, net)
  PROVE  /\ \A x \in DOMAIN call.before : x \in DOMAIN instances' /\ instances'[x] = call.before[x]
         /\ CallKeeps'
<1>1. CASE Abort /\ UNCHANGED instances
  BY <1>1 DEF Abort, CallKeeps, ConnectCopy, Arraying
<1>2. CASE /\ UNCHANGED <<call, ret>>
           /\ instances' = [instances EXCEPT ![call.cur] = WithConnection(@, call.cur, t, net)]
  BY <1>2 DEF CallKeeps, ConnectCopy, Arraying
<1>. QED BY <1>1, <1>2 DEF ConnectCopy

\* The calls that array_instance does not make cannot run during it.
LEMMA CallKeepsStep == IInv /\ CallKeeps /\ [Next]_vars => CallKeeps'
<1>. SUFFICES ASSUME IInv, CallKeeps, [Next]_vars PROVE CallKeeps'
  OBVIOUS
<1>1. ASSUME NEW n \in InstNames, StartArray(n)
      PROVE  CallKeeps'
  <2>1. CASE /\ UNCHANGED instances
             /\ call' = [old |-> n, cur |-> NoName, before |-> instances]
    <3>1. NoName \notin DOMAIN instances
      BY SchAssumption DEF IInv, InstancesOK, LegalNames
    <3>. QED BY <2>1, <3>1 DEF CallKeeps
  <2>2. CASE UNCHANGED call
    BY <1>1, <2>2 DEF StartArray, CallKeeps, Arraying
  <2>. QED BY <1>1, <2>1, <2>2 DEF StartArray
<1>2. CASE FinishArray
  BY <1>2 DEF FinishArray, CallKeeps, Arraying
<1>3. CASE ~Arraying /\ UNCHANGED call
  BY <1>3 DEF CallKeeps, Arraying
<1>4. CASE UNCHANGED vars
  BY <1>4 DEF vars, CallKeeps, Arraying
<1>5. CASE NextInstances
  <2>1. ASSUME NEW n \in InstNames, NEW t \in Terms, NEW net \in Nets,
               UpdateConnection(n, t, net)
        PROVE  CallKeeps'
    BY <1>3, <2>1 DEF UpdateConnection
  <2>2. ASSUME NEW n \in InstNames, NEW m \in Masters, NEW keep \in BOOLEAN,
               UpdateMaster(n, m, keep)
        PROVE  CallKeeps'
    BY <1>3, <2>2 DEF UpdateMaster
  <2>3. ASSUME NEW old \in InstNames, NEW new \in InstNames, RenameInstance(old, new)
        PROVE  CallKeeps'
    BY <1>3, <2>3 DEF RenameInstance
  <2>4. ASSUME NEW n \in InstNames, RemoveInstance(n)
        PROVE  CallKeeps'
    BY <1>3, <2>4 DEF RemoveInstance
  <2>. QED BY <1>1, <1>2, <1>5, <2>1, <2>2, <2>3, <2>4, CopyKeeps, ConnectKeeps
              DEF NextInstances
<1>6. CASE NextPins
  BY <1>3, <1>6 DEF NextPins, RenamePin, AddPin, SetPinAttribute, RemovePin
<1>. QED BY <1>4, <1>5, <1>6 DEF Next

\* Where a step ends the call, it keeps what was there before, the original of a
\* successful call excepted.
LEMMA EndOfArray ==
  ASSUME IInv, CallKeeps, [Next]_vars, Arraying, ~Arraying', NEW n \in DOMAIN call.before
  PROVE  \/ n = call.old /\ ret' = "ok"
         \/ n \in DOMAIN instances' /\ instances'[n] = call.before[n]
<1>1. n \in DOMAIN instances /\ instances[n] = call.before[n]
  BY DEF CallKeeps
<1>2. CASE FinishArray
  BY <1>1, <1>2 DEF FinishArray, Erase
<1>3. CASE NextInstances
  <2>1. \/ FinishArray
        \/ \E x \in InstNames : CopyInstance(x)
        \/ \E t \in Terms, net \in Nets : ConnectCopy(t, net)
    BY <1>3 DEF NextInstances, UpdateConnection, UpdateMaster, RenameInstance,
                RemoveInstance, StartArray
  <2>. QED BY <1>2, <2>1, CopyKeeps, ConnectKeeps
<1>4. ~NextPins
  BY DEF NextPins, RenamePin, AddPin, SetPinAttribute, RemovePin
<1>5. CASE UNCHANGED vars
  BY <1>1, <1>5 DEF vars
<1>. QED BY <1>3, <1>4, <1>5 DEF Next

\* array_instance loses no instance but, when it succeeds, the original: for any
\* list of names and nets, and wherever it throws.
THEOREM AlwaysArrayKeeps == Spec => ArrayKeepsInstances
<1>1. Init => CallKeeps
  BY DEF Init, CallKeeps, Arraying
<1>2. IInv /\ CallKeeps /\ [Next]_vars =>
        [Arraying /\ ~Arraying' =>
           \A n \in DOMAIN call.before :
             \/ n = call.old /\ ret' = "ok"
             \/ n \in DOMAIN instances' /\ instances'[n] = call.before[n]]_vars
  BY EndOfArray
<1>. QED BY <1>1, <1>2, InvInit, InvStep, CallKeepsStep, PTL DEF Spec, ArrayKeepsInstances

-----------------------------------------------------------------------------
(***************************************************************************)
(* Devices.  A net repeated as a whole gives device i the slice of device  *)
(* i % size, because the length of the net is a multiple of the slice.     *)
(***************************************************************************)

\* The product of a non-zero integer is at least as far from zero as the factor.
LEMMA AwayFromZero ==
  ASSUME NEW m \in Nat \ {0}, NEW d \in Int, d # 0
  PROVE  m * d >= m \/ m * d <= -m
OBVIOUS

\* What is left of a sum of a multiple and a number below the divisor.
LEMMA RemainderOf ==
  ASSUME NEW q \in Nat, NEW m \in Nat \ {0}, NEW b \in 0 .. m - 1
  PROVE  (m * q + b) % m = b
<1> DEFINE mq == m * q
           a  == mq + b
           d  == a \div m
           md == m * d
           r  == a % m
<1>1. mq \in Nat /\ a \in Nat
  OBVIOUS
<1>2. d \in Nat /\ r \in 0 .. m - 1 /\ a = md + r
  BY <1>1
<1>3. md - mq = m * (d - q)
  BY <1>2
<1>4. md - mq = b - r
  <2>. md \in Int
    BY <1>2
  <2>. HIDE DEF md, mq, d, r
  <2>. QED BY <1>1, <1>2
<1>5. CASE d - q # 0
  <2>1. m * (d - q) >= m \/ m * (d - q) <= -m
    BY <1>2, <1>5, AwayFromZero
  <2>. HIDE DEF md, mq, d, r
  <2>2. md - mq >= m \/ md - mq <= -m
    BY <1>3, <2>1
  <2>. QED BY <1>2, <1>4, <2>2
<1>6. CASE d = q
  <2>1. md = mq
    BY <1>6
  <2>. HIDE DEF md, mq, d
  <2>2. a = mq + b
    OBVIOUS
  <2>3. r = b
    <3>. HIDE DEF r, a
    <3>. QED BY <1>1, <1>2, <2>1, <2>2
  <2>. QED BY <2>3
<1>. HIDE DEF d
<1>. QED BY <1>2, <1>5, <1>6

\* Bit j of device i of a repeated net is bit j of device i % s of the net.
BitOfDevice(s, w, i, j) ==
  /\ i % s \in 0 .. s - 1
  /\ (i * w + j - 1) % (s * w) = (i % s) * w + j - 1
  /\ (i % s) * w + j \in 1 .. s * w

\* It is so for every size and width.
LEMMA DeviceBit ==
  ASSUME NEW s \in Nat \ {0}, NEW w \in Nat \ {0}, NEW i \in Nat, NEW j \in 1 .. w
  PROVE  BitOfDevice(s, w, i, j)
<1> DEFINE q == i \div s
           r == i % s
           b == r * w + j - 1
<1>1. q \in Nat /\ r \in 0 .. s - 1 /\ i = s * q + r
  OBVIOUS
<1>. HIDE DEF q, r
<1>2. s * w \in Nat \ {0} /\ r * w \in Nat
  BY <1>1
<1>3. i * w = (s * w) * q + r * w
  BY <1>1
<1>4. r * w <= s * w - w
  <2>1. (s - 1 - r) * w >= 0
    BY <1>1
  <2>2. (s - 1 - r) * w = s * w - w - r * w
    BY <1>1
  <2>. QED BY <1>2, <2>1, <2>2
<1>5. b \in 0 .. s * w - 1
  <2> DEFINE rw == r * w
             sw == s * w
  <2>1. rw \in Nat /\ sw \in Nat /\ rw <= sw - w
    BY <1>2, <1>4
  <2>. HIDE DEF rw, sw
  <2>2. rw + j - 1 \in 0 .. sw - 1
    BY <2>1
  <2>. QED BY <2>2 DEF rw, sw
<1>6. ((s * w) * q + b) % (s * w) = b
  BY <1>1, <1>2, <1>5, RemainderOf
<1>7. i * w + j - 1 = (s * w) * q + b
  <2>1. (s * w) * q \in Int /\ i * w \in Int
    BY <1>1, <1>2
  <2>. QED BY <1>2, <1>3, <2>1
<1>8. b + 1 \in 1 .. s * w /\ b + 1 = r * w + j
  BY <1>2, <1>5
<1>. HIDE DEF b
<1>9. (i * w + j - 1) % (s * w) = b
  BY <1>6, <1>7
<1>. QED BY <1>1, <1>8, <1>9 DEF b, r, BitOfDevice

\* A slice of a sequence inside its bounds.
InBounds(net, n, w) == n \in Nat /\ w \in Nat /\ \A j \in 1 .. w : n + j \in 1 .. Len(net)
IsSlice(S, sub, net, n, w) ==
  sub \in Seq(S) /\ Len(sub) = w /\ \A j \in 1 .. w : sub[j] = net[n + j]

\* SubSeq is that slice.
LEMMA SliceOf ==
  ASSUME NEW S, NEW net \in Seq(S), NEW n, NEW w, InBounds(net, n, w)
  PROVE  IsSlice(S, SubSeq(net, n + 1, n + w), net, n, w)
<1>0. n \in Nat /\ w \in Nat /\ \A j \in 1 .. w : n + j \in 1 .. Len(net)
  BY DEF InBounds
<1> DEFINE first == n + 1
           end   == n + w
           sub   == SubSeq(net, first, end)
<1>1. ASSUME NEW i \in first .. end PROVE net[i] \in S
  <2>1. i - n \in 1 .. w /\ n + (i - n) = i
    BY <1>0
  <2>2. i \in 1 .. Len(net)
    BY <1>0, <2>1
  <2>. QED BY <2>2
<1>2. /\ first \in Int /\ end \in Int /\ end - first + 1 = w
      /\ first <= end \/ w = 0
      /\ \A j \in 1 .. w : first + j - 1 = n + j
  BY <1>0
<1>. HIDE DEF first, end
<1>3. /\ sub \in Seq(S)
      /\ Len(sub) = IF first <= end THEN end - first + 1 ELSE 0
      /\ \A i \in 1 .. end - first + 1 : sub[i] = net[first + i - 1]
  <2>1. first \in Int /\ end \in Int /\ \A i \in first .. end : net[i] \in S
    BY <1>1, <1>2
  <2>. QED BY ONLY <2>1, SubSeqProperties
<1>. HIDE DEF sub
<1>4. Len(sub) = w
  BY <1>2, <1>3
<1>5. \A j \in 1 .. w : sub[j] = net[n + j]
  <2>1. \A j \in 1 .. w : sub[j] = net[first + j - 1]
    BY <1>2, <1>3
  <2>. QED BY <1>2, <2>1
<1>6. IsSlice(S, sub, net, n, w)
  BY <1>3, <1>4, <1>5 DEF IsSlice
<1>. QED BY <1>6 DEF sub, first, end

\* A device of the repeated net has what a device of the net has.
DeviceRepeated(net, k, s, w, i) ==
  SubSeq(Repeat(net, k), i * w + 1, (i + 1) * w)
    = SubSeq(net, (i % s) * w + 1, ((i % s) + 1) * w)

\* It is so for a net of the width of its array.
LEMMA RepeatDevice ==
  ASSUME NEW S, NEW s \in Nat \ {0}, NEW w \in Nat \ {0}, NEW k \in Nat,
         NEW net \in Seq(S), Len(net) = s * w, NEW i \in 0 .. k * s - 1
  PROVE  DeviceRepeated(net, k, s, w, i)
<1> DEFINE r   == i % s
           rep == Repeat(net, k)
<1>1. s * w \in Nat \ {0} /\ net # << >>
  BY ProductPositive
<1>2. rep \in Seq(S) /\ Len(rep) = k * (s * w)
  BY <1>1, RepeatWidth
<1>3. i \in Nat /\ k * s \in Nat
  OBVIOUS
<1>4. r \in 0 .. s - 1
  BY <1>3
<1>5. i * w \in Nat /\ r * w \in Nat
  BY <1>3, <1>4
<1>6. (i + 1) * w = i * w + w /\ (r + 1) * w = r * w + w
  BY <1>3, <1>4
<1>7. i * w + w <= k * (s * w)
  <2>1. (k * s - (i + 1)) * w >= 0
    <3>1. k * s - (i + 1) \in Nat
      BY <1>3
    <3>. HIDE DEF r, rep
    <3>. QED BY <3>1
  <2>2. (k * s - (i + 1)) * w = (k * s) * w - (i + 1) * w
    BY <1>3
  <2>3. (k * s) * w = k * (s * w)
    OBVIOUS
  <2>4. (k * s) * w \in Int
    BY <1>3
  <2>. QED BY <1>5, <1>6, <2>1, <2>2, <2>3, <2>4
<1>8. ASSUME NEW j \in 1 .. w
      PROVE  /\ i * w + j \in 1 .. Len(rep)
             /\ r * w + j \in 1 .. Len(net)
             /\ rep[i * w + j] = net[r * w + j]
  <2>1. /\ (i * w + j - 1) % (s * w) = r * w + j - 1
        /\ r * w + j \in 1 .. s * w
    <3>1. s \in Nat \ {0} /\ w \in Nat \ {0} /\ i \in Nat /\ j \in 1 .. w
      BY <1>3
    <3>2. BitOfDevice(s, w, i, j)
      BY ONLY <3>1, DeviceBit
    <3>. QED BY <3>2 DEF BitOfDevice
  <2>2. i * w + j \in 1 .. k * (s * w)
    <3>1. k * (s * w) \in Int
      BY <1>1
    <3>. HIDE DEF r, rep
    <3>. QED BY <1>5, <1>7, <3>1
  <2>3. rep[i * w + j] = net[((i * w + j - 1) % (s * w)) + 1]
    BY <2>2 DEF Repeat
  <2>4. r * w + j - 1 + 1 = r * w + j
    BY <1>5
  <2>. HIDE DEF r, rep
  <2>. QED BY <1>2, <2>1, <2>2, <2>3, <2>4
<1>. HIDE DEF r, rep
<1>9. IsSlice(S, SubSeq(rep, i * w + 1, i * w + w), rep, i * w, w)
  <2>1. InBounds(rep, i * w, w)
    BY <1>5, <1>8 DEF InBounds
  <2>. QED BY ONLY <1>2, <2>1, SliceOf
<1>10. IsSlice(S, SubSeq(net, r * w + 1, r * w + w), net, r * w, w)
  <2>1. InBounds(net, r * w, w)
    BY <1>5, <1>8 DEF InBounds
  <2>2. net \in Seq(S)
    OBVIOUS
  <2>. QED BY ONLY <2>1, <2>2, SliceOf
<1>11. SubSeq(rep, i * w + 1, i * w + w) = SubSeq(net, r * w + 1, r * w + w)
  <2> DEFINE a == SubSeq(rep, i * w + 1, i * w + w)
             b == SubSeq(net, r * w + 1, r * w + w)
  <2>1. a \in Seq(S) /\ b \in Seq(S) /\ Len(a) = w /\ Len(b) = w
    BY <1>9, <1>10 DEF IsSlice
  <2>2. \A j \in 1 .. w : a[j] = b[j]
    BY <1>8, <1>9, <1>10 DEF IsSlice
  <2>. HIDE DEF a, b
  <2>3. a = b
    BY <2>1, <2>2, SeqEqual
  <2>. QED BY <2>3 DEF a, b
<1>12. SubSeq(rep, i * w + 1, (i + 1) * w) = SubSeq(net, r * w + 1, (r + 1) * w)
  BY <1>6, <1>11
<1>. QED BY <1>12 DEF r, rep, DeviceRepeated

\* An instance under its new name has the devices of the old one, in turn, or has
\* no connections.
LEMMA ResizedDevices ==
  ASSUME NEW old \in Nat \ {0}, NEW inst \in InstanceOf(old), NEW name \in LegalNames
  PROVE  DevicesLike(Resized(inst, old, name), NameSize[name], inst, old)
<1> DEFINE new == NameSize[name]
           dst == Resized(inst, old, name)
<1>1. new \in Nat \ {0}
  BY SchAssumption DEF LegalNames
<1>2. \A t \in DOMAIN inst.connections :
        /\ inst.connections[t] \in Seq(Bits) /\ t \in Terms
        /\ Len(inst.connections[t]) = old * TermSize[t]
        /\ TermSize[t] \in Nat \ {0}
  <2>1. inst.connections \in Wired(old)
    BY DEF InstanceOf
  <2>. QED BY <2>1, WiredFacts, SchAssumption
<1>3. CASE old = new
  <2>1. dst = inst
    BY <1>3 DEF Resized
  <2>2. \A i \in 0 .. new - 1 : i % old = i
    BY <1>1, <1>3
  <2>. HIDE DEF dst, new
  <2>3. DevicesLike(dst, new, inst, old)
    BY <1>3, <2>1, <2>2 DEF DevicesLike
  <2>. QED BY <2>3 DEF dst, new
<1>4. CASE old # new /\ new % old # 0
  <2>1. dst.connections = EmptyDict
    BY <1>4 DEF Resized, ResizeNets, InstanceOf
  <2>. QED BY <2>1 DEF DevicesLike, EmptyDict
<1>5. CASE old # new /\ new % old = 0
  <2> DEFINE k == new \div old
  <2>1. k \in Nat /\ k * old = new
    BY <1>1, <1>5, DivExact
  <2>2. dst.connections = [t \in DOMAIN inst.connections |-> Repeat(inst.connections[t], k)]
    BY <1>5 DEF Resized, ResizeNets, InstanceOf
  <2>. HIDE DEF dst, k, new
  <2>3. ASSUME NEW t \in DOMAIN inst.connections, NEW i \in 0 .. new - 1
        PROVE  DeviceNet(dst, t, i) = DeviceNet(inst, t, i % old)
    <3> DEFINE net == inst.connections[t]
               w   == TermSize[t]
    <3>1. net \in Seq(Bits) /\ Len(net) = old * w /\ w \in Nat \ {0}
      BY <1>2
    <3>2. i \in 0 .. k * old - 1
      BY <2>1
    <3>3. dst.connections[t] = Repeat(net, k)
      BY <2>2
    <3>. HIDE DEF net, w
    <3>4. DeviceRepeated(net, k, old, w, i)
      <4>1. old \in Nat \ {0} /\ k \in Nat
        BY <2>1
      <4>. QED BY ONLY <3>1, <3>2, <4>1, RepeatDevice
    <3>. QED BY <3>3, <3>4 DEF DeviceNet, DeviceRepeated, net, w
  <2>4. DOMAIN dst.connections = DOMAIN inst.connections
    BY <2>2
  <2>5. DevicesLike(dst, new, inst, old)
    BY <2>3, <2>4 DEF DevicesLike
  <2>. QED BY <2>5 DEF dst, new
<1>. QED BY <1>3, <1>4, <1>5

\* What rename_instance and copy_instance store when they succeed.
LEMMA StoredResized ==
  ASSUME IInv, NEW old \in LegalNames, NEW new \in LegalNames,
         \/ RenameInstance(old, new) /\ ret' = "ok"
         \/ CopyInstance(new) /\ call' # Idle /\ call.old = old
  PROVE  /\ instances[old] \in InstanceOf(NameSize[old])
         /\ instances'[new] = Resized(instances[old], NameSize[old], new)
<1>1. CASE RenameInstance(old, new) /\ ret' = "ok"
  BY <1>1 DEF RenameInstance, ReplaceKey, Has, IInv, InstancesOK
<1>2. CASE CopyInstance(new) /\ call' # Idle /\ call.old = old
  BY <1>2 DEF CopyInstance, Abort, Arraying, Emplace, Has, IInv, InstancesOK, CallOK
<1>. QED BY <1>1, <1>2

\* rename_instance and array_instance replicate the devices of the instance they
\* start from, for any sizes and nets: no device gets a mix of the nets of two.
THEOREM AlwaysKeepsDevices == Spec => ResizeKeepsDevices
<1>1. ASSUME IInv, NEW old \in LegalNames, NEW new \in LegalNames,
             \/ RenameInstance(old, new) /\ ret' = "ok"
             \/ CopyInstance(new) /\ call' # Idle /\ call.old = old
      PROVE  DevicesLike(instances'[new], NameSize[new], instances[old], NameSize[old])
  <2>1. NameSize[old] \in Nat \ {0}
    BY SchAssumption DEF LegalNames
  <2>. QED BY <1>1, <2>1, StoredResized, ResizedDevices
<1>2. IInv /\ [Next]_vars =>
        [\A old, new \in LegalNames :
           \/ RenameInstance(old, new) /\ ret' = "ok"
           \/ CopyInstance(new) /\ call' # Idle /\ call.old = old
           => DevicesLike(instances'[new], NameSize[new], instances[old], NameSize[old])]_vars
  BY <1>1
<1>. QED BY <1>2, InvInit, InvStep, PTL DEF Spec, ResizeKeepsDevices

-----------------------------------------------------------------------------
(***************************************************************************)
(* Pins and the symbol.                                                    *)
(***************************************************************************)

\* With the two in sync, one step keeps them in sync and a refusal changes neither:
\* the symbol can refuse nothing that the schematic accepts.
LEMMA PinsTogether ==
  ASSUME InSync, [Next]_vars
  PROVE  /\ InSync'
         /\ ret' = "invalid_argument" => UNCHANGED <<terminals, symbol>>
<1>1. CASE UNCHANGED <<terminals, symbol>>
  BY <1>1 DEF InSync
<1>2. ASSUME NEW old \in PinNames, NEW new \in PinNames, RenamePin(old, new)
      PROVE  InSync' /\ (ret' = "invalid_argument" => UNCHANGED <<terminals, symbol>>)
  <2>1. CASE /\ ~Has(terminals, new) /\ Has(terminals, old)
             /\ terminals' = ReplaceKey(terminals, old, new)
             /\ RenameSymbolPin(old, new)
    <3>1. DOMAIN terminals' = (DOMAIN terminals \ {old}) \cup {new}
      BY <2>1 DEF ReplaceKey
    <3>2. CASE symbol = NoSym
      BY <2>1, <3>2 DEF RenameSymbolPin, InSync
    <3>3. CASE symbol # NoSym /\ symbol = DOMAIN terminals
      BY <2>1, <3>1, <3>3 DEF RenameSymbolPin, InSync, Has
    <3>. QED BY <3>2, <3>3 DEF InSync
  <2>. QED BY <1>1, <1>2, <2>1 DEF RenamePin
<1>3. ASSUME NEW p \in PinNames, NEW v \in AttrVals, SetPinAttribute(p, v)
      PROVE  InSync' /\ (ret' = "invalid_argument" => UNCHANGED <<terminals, symbol>>)
  BY <1>3 DEF SetPinAttribute, InSync
<1>4. ASSUME NEW p \in PinNames, RemovePin(p)
      PROVE  InSync' /\ (ret' = "invalid_argument" => UNCHANGED <<terminals, symbol>>)
  BY <1>4 DEF RemovePin, Erase, Has, InSync
<1>5. CASE NextInstances
  BY <1>1, <1>5 DEF NextInstances, UpdateConnection, UpdateMaster, RenameInstance,
     RemoveInstance, StartArray, CopyInstance, ConnectCopy, FinishArray
<1>6. CASE NextPins
  BY <1>1, <1>2, <1>3, <1>4, <1>6 DEF NextPins, AddPin
<1>7. CASE UNCHANGED vars
  BY <1>1, <1>7 DEF vars
<1>. QED BY <1>5, <1>6, <1>7 DEF Next

\* rename_pin, remove_pin and the edits of instances never take the pins of the
\* schematic and of the symbol apart.
THEOREM AlwaysPinsInSync == Spec => PinsStayInSync
<1>1. [Next]_vars => [InSync => InSync']_vars
  BY PinsTogether
<1>. QED BY <1>1, PTL DEF Spec, PinsStayInSync

\* A call on pins that throws has changed nothing if the two were in sync, although
\* rename_pin renames the schematic pin before it calls the symbol.
THEOREM AlwaysPinCallsAtomic == Spec => PinCallsAtomic
<1>1. [Next]_vars =>
        [InSync /\ ret' = "invalid_argument" => UNCHANGED <<terminals, symbol>>]_vars
  BY PinsTogether
<1>. QED BY <1>1, PTL DEF Spec, PinCallsAtomic

-----------------------------------------------------------------------------
(***************************************************************************)
(* The vector that holds the instances.  For every set of integer keys and *)
(* every set of values, each call of sorted_map leaves a vector in order   *)
(* that stands for the dictionary of Dict.  A position found by binary     *)
(* search exists because a set of natural numbers has a least element; the *)
(* rest is about which element is where after an insertion, an erasure or  *)
(* a rotation.                                                             *)
(***************************************************************************)

Elems == [key : MapKeys, val : MapVals]
Vec == {v \in Seq(Elems) : InOrder(v)}

-----------------------------------------------------------------------------
(***************************************************************************)
(* Positions.                                                              *)
(***************************************************************************)

\* The elements of a vector and their keys.
LEMMA VecElems ==
  ASSUME NEW v \in Vec
  PROVE  /\ Len(v) \in Nat /\ DOMAIN v = 1 .. Len(v)
         /\ \A i \in 1 .. Len(v) : /\ v[i] \in Elems /\ v[i].key \in MapKeys
                                   /\ v[i].val \in MapVals /\ v[i].key \in Int
         /\ \A i, j \in 1 .. Len(v) : i < j => v[i].key < v[j].key
<1>1. v \in Seq(Elems) /\ InOrder(v)
  BY DEF Vec
<1>2. Len(v) \in Nat /\ DOMAIN v = 1 .. Len(v) /\ \A i \in 1 .. Len(v) : v[i] \in Elems
  BY <1>1
<1>3. ASSUME NEW i \in 1 .. Len(v)
      PROVE  v[i].key \in MapKeys /\ v[i].val \in MapVals /\ v[i].key \in Int
  <2>1. v[i] \in Elems
    BY <1>2
  <2>. QED BY <2>1, MapAssumption DEF Elems
<1>4. \A i, j \in 1 .. Len(v) : i < j => v[i].key < v[j].key
  BY <1>1 DEF InOrder
<1>. QED BY <1>2, <1>3, <1>4

\* The lower bound exists: the first position whose element is not before the key.
LEMMA LowerPosExists ==
  ASSUME NEW v \in Vec, NEW k \in Int
  PROVE  LowerPos(v, k) \in 0 .. Len(v) /\ IsLowerPos(v, k, LowerPos(v, k))
<1> DEFINE T == {i \in 0 .. Len(v) : i = Len(v) \/ ~(v[i + 1].key < k)}
<1>1. Len(v) \in Nat
  BY VecElems
<1>2. T \subseteq Nat /\ Len(v) \in T
  BY <1>1
<1>3. PICK p \in T : \A y \in T : p <= y
  BY <1>2, LeastElement
<1>4. p \in 0 .. Len(v)
  OBVIOUS
<1>5. ASSUME NEW i \in 1 .. p PROVE v[i].key < k
  <2>1. i - 1 \in 0 .. Len(v) /\ i - 1 # Len(v) /\ ~(p <= i - 1) /\ i - 1 + 1 = i
    BY <1>1, <1>4
  <2>2. i - 1 \notin T
    BY <1>3, <2>1
  <2>. QED BY <2>1, <2>2
<1>6. ASSUME NEW i \in p + 1 .. Len(v) PROVE ~(v[i].key < k)
  <2>1. p # Len(v) /\ p + 1 \in 1 .. Len(v) /\ i \in 1 .. Len(v)
    BY <1>1, <1>4
  <2>2. ~(v[p + 1].key < k)
    BY <1>3, <2>1
  <2>3. v[p + 1].key \in Int /\ v[i].key \in Int
    BY <2>1, VecElems
  <2>4. p + 1 = i \/ p + 1 < i
    BY <1>4, <2>1
  <2>5. CASE p + 1 < i
    <3>1. v[p + 1].key < v[i].key
      BY <2>1, <2>5, VecElems
    <3>. QED BY <2>2, <2>3, <3>1
  <2>. QED BY <2>2, <2>4, <2>5
<1>7. IsLowerPos(v, k, p)
  BY <1>5, <1>6 DEF IsLowerPos
<1>. HIDE DEF T
<1>. QED BY <1>4, <1>7 DEF LowerPos

\* The upper bound exists too.
LEMMA UpperPosExists ==
  ASSUME NEW v \in Vec, NEW k \in Int
  PROVE  UpperPos(v, k) \in 0 .. Len(v) /\ IsUpperPos(v, k, UpperPos(v, k))
<1> DEFINE T == {i \in 0 .. Len(v) : i = Len(v) \/ k < v[i + 1].key}
<1>1. Len(v) \in Nat
  BY VecElems
<1>2. T \subseteq Nat /\ Len(v) \in T
  BY <1>1
<1>3. PICK p \in T : \A y \in T : p <= y
  BY <1>2, LeastElement
<1>4. p \in 0 .. Len(v)
  OBVIOUS
<1>5. ASSUME NEW i \in 1 .. p PROVE ~(k < v[i].key)
  <2>1. i - 1 \in 0 .. Len(v) /\ i - 1 # Len(v) /\ ~(p <= i - 1) /\ i - 1 + 1 = i
    BY <1>1, <1>4
  <2>2. i - 1 \notin T
    BY <1>3, <2>1
  <2>. QED BY <2>1, <2>2
<1>6. ASSUME NEW i \in p + 1 .. Len(v) PROVE k < v[i].key
  <2>1. p # Len(v) /\ p + 1 \in 1 .. Len(v) /\ i \in 1 .. Len(v)
    BY <1>1, <1>4
  <2>2. k < v[p + 1].key
    BY <1>3, <2>1
  <2>3. v[p + 1].key \in Int /\ v[i].key \in Int
    BY <2>1, VecElems
  <2>4. p + 1 = i \/ p + 1 < i
    BY <1>4, <2>1
  <2>5. CASE p + 1 < i
    <3>1. v[p + 1].key < v[i].key
      BY <2>1, <2>5, VecElems
    <3>. QED BY <2>2, <2>3, <3>1
  <2>. QED BY <2>2, <2>4, <2>5
<1>7. IsUpperPos(v, k, p)
  BY <1>5, <1>6 DEF IsUpperPos
<1>. HIDE DEF T
<1>. QED BY <1>4, <1>7 DEF UpperPos

-----------------------------------------------------------------------------
(***************************************************************************)
(* The dictionary of a vector.                                             *)
(***************************************************************************)

\* A key is in one element only, which has its value.
LEMMA MapOfElems ==
  ASSUME NEW v \in Vec
  PROVE  /\ DOMAIN MapOf(v) = KeySet(v) /\ MapOf(v) \in [KeySet(v) -> MapVals]
         /\ \A i \in 1 .. Len(v) : v[i].key \in KeySet(v) /\ MapOf(v)[v[i].key] = v[i].val
<1>1. DOMAIN MapOf(v) = KeySet(v)
  BY DEF MapOf
<1>2. ASSUME NEW i \in 1 .. Len(v)
      PROVE  v[i].key \in KeySet(v) /\ MapOf(v)[v[i].key] = v[i].val
  <2> DEFINE j == CHOOSE n \in 1 .. Len(v) : v[n].key = v[i].key
  <2>1. j \in 1 .. Len(v) /\ v[j].key = v[i].key
    OBVIOUS
  <2>2. v[i].key \in KeySet(v)
    BY DEF KeySet
  <2>3. MapOf(v)[v[i].key] = v[j].val
    BY <2>2 DEF MapOf
  <2>. HIDE DEF j
  <2>4. j = i
    <3>1. Len(v) \in Nat /\ v[i].key \in Int /\ v[j].key \in Int
      BY <2>1, VecElems
    <3>2. ~(i < j) /\ ~(j < i)
      BY <2>1, <3>1, VecElems
    <3>. QED BY <2>1, <3>1, <3>2
  <2>. QED BY <2>2, <2>3, <2>4
<1>3. ASSUME NEW z \in KeySet(v) PROVE MapOf(v)[z] \in MapVals
  <2>1. PICK i \in 1 .. Len(v) : v[i].key = z
    BY DEF KeySet
  <2>. QED BY <1>2, <2>1, VecElems
<1>4. MapOf(v) = [z \in KeySet(v) |-> MapOf(v)[z]]
  BY DEF MapOf
<1>. QED BY <1>1, <1>2, <1>3, <1>4

\* A vector in order holds f when its keys are those of f and its values too.
LEMMA HoldsByElems ==
  ASSUME NEW w \in Vec, NEW D, NEW f \in [D -> MapVals],
         \A z \in D : \E i \in 1 .. Len(w) : w[i].key = z,
         \A i \in 1 .. Len(w) : w[i].key \in D /\ f[w[i].key] = w[i].val
  PROVE  Holds(w, f)
<1>1. KeySet(w) = D
  BY DEF KeySet
<1>2. ASSUME NEW z \in D PROVE MapOf(w)[z] = f[z]
  <2>1. PICK i \in 1 .. Len(w) : w[i].key = z
    OBVIOUS
  <2>. QED BY <2>1, MapOfElems
<1>3. MapOf(w) = [z \in KeySet(w) |-> MapOf(w)[z]]
  BY DEF MapOf
<1>4. MapOf(w) = f
  BY <1>1, <1>2, <1>3
<1>. QED BY <1>4 DEF Holds, Vec

\* The lower bound tells whether the key is there, and where.
LEMMA ContainsKey ==
  ASSUME NEW v \in Vec, NEW k \in Int, NEW p \in 0 .. Len(v), IsLowerPos(v, k, p)
  PROVE  /\ HasAt(v, k, p) => p + 1 \in 1 .. Len(v) /\ v[p + 1].key = k
         /\ ~HasAt(v, k, p) => \A i \in 1 .. Len(v) : v[i].key # k
         /\ ~HasAt(v, k, p) => \A i \in p + 1 .. Len(v) : k < v[i].key
         /\ HasAt(v, k, p) <=> k \in KeySet(v)
<1>1. Len(v) \in Nat /\ \A i \in 1 .. Len(v) : v[i].key \in Int
  BY VecElems
<1>2. ASSUME HasAt(v, k, p) PROVE p + 1 \in 1 .. Len(v) /\ v[p + 1].key = k
  <2>1. p + 1 \in 1 .. Len(v) /\ p + 1 \in p + 1 .. Len(v) /\ ~(k < v[p + 1].key)
    BY <1>1, <1>2 DEF HasAt
  <2>2. ~(v[p + 1].key < k) /\ v[p + 1].key \in Int
    BY <1>1, <2>1 DEF IsLowerPos
  <2>. QED BY <2>1, <2>2
<1>3. ASSUME ~HasAt(v, k, p), NEW i \in p + 1 .. Len(v) PROVE k < v[i].key
  <2>1. p < Len(v) /\ p + 1 \in 1 .. Len(v) /\ i \in 1 .. Len(v) /\ (i = p + 1 \/ p + 1 < i)
    BY <1>1
  <2>2. k < v[p + 1].key
    BY <1>3, <2>1 DEF HasAt
  <2>3. i = p + 1 \/ v[p + 1].key < v[i].key
    BY <2>1, VecElems
  <2>4. v[p + 1].key \in Int /\ v[i].key \in Int
    BY <1>1, <2>1
  <2>. QED BY <2>2, <2>3, <2>4
<1>4. ASSUME ~HasAt(v, k, p), NEW i \in 1 .. Len(v) PROVE v[i].key # k
  <2>1. i \in 1 .. p \/ i \in p + 1 .. Len(v)
    BY <1>1
  <2>2. CASE i \in 1 .. p
    BY <1>1, <2>2 DEF IsLowerPos
  <2>3. CASE i \in p + 1 .. Len(v)
    BY <1>1, <1>3, <1>4, <2>3
  <2>. QED BY <2>1, <2>2, <2>3
<1>5. HasAt(v, k, p) <=> k \in KeySet(v)
  BY <1>2, <1>4 DEF KeySet
<1>. QED BY <1>2, <1>3, <1>4, <1>5

-----------------------------------------------------------------------------
(***************************************************************************)
(* Insertions and erasures.                                                *)
(***************************************************************************)

\* f is the dictionary of v with x at k.
Extends(f, v, k, x) ==
  /\ f \in [KeySet(v) \cup {k} -> MapVals]
  /\ f[k] = x /\ \A z \in KeySet(v) : f[z] = MapOf(v)[z]

\* An element put where it belongs, with a key the vector has not.
LEMMA InsertHolds ==
  ASSUME NEW v \in Vec, NEW k \in MapKeys, NEW x \in MapVals, NEW p \in 0 .. Len(v),
         IsLowerPos(v, k, p), ~HasAt(v, k, p),
         NEW f, Extends(f, v, k, x)
  PROVE  Holds(InsertAfter(v, p, Elem(k, x)), f)
<1>. USE DEF Extends
<1> DEFINE w == InsertAfter(v, p, Elem(k, x))
<1>0. k \in Int
  BY MapAssumption
<1>1. /\ Len(v) \in Nat /\ \A i \in 1 .. Len(v) : v[i] \in Elems /\ v[i].key \in Int
      /\ \A i, j \in 1 .. Len(v) : i < j => v[i].key < v[j].key
  BY VecElems
<1>2. Elem(k, x) \in Elems /\ Elem(k, x).key = k /\ Elem(k, x).val = x
  BY DEF Elem, Elems
<1>3. /\ w \in Seq(Elems) /\ Len(w) = Len(v) + 1
      /\ \A i \in 1 .. p : w[i] = v[i]
      /\ w[p + 1] = Elem(k, x)
      /\ \A i \in p + 2 .. Len(v) + 1 : w[i] = v[i - 1]
  <2>1. ASSUME NEW i \in 1 .. Len(v) + 1
        PROVE  (IF i <= p THEN v[i] ELSE IF i = p + 1 THEN Elem(k, x) ELSE v[i - 1]) \in Elems
    <3>1. CASE i <= p
      BY <1>1, <3>1
    <3>2. CASE i = p + 1
      BY <1>2, <3>2
    <3>3. CASE ~(i <= p) /\ i # p + 1
      <4>1. i - 1 \in 1 .. Len(v)
        BY <1>1, <3>3
      <4>. QED BY <1>1, <3>3, <4>1
    <3>. QED BY <3>1, <3>2, <3>3
  <2>2. w \in [1 .. Len(v) + 1 -> Elems]
    BY <2>1 DEF InsertAfter
  <2>3. w \in Seq(Elems) /\ Len(w) = Len(v) + 1
    BY <1>1, <2>2
  <2>. QED BY <1>1, <2>3 DEF InsertAfter
<1>. HIDE DEF w
<1>4. \A i \in 1 .. p : v[i].key < k
  BY DEF IsLowerPos
<1>5. /\ \A i \in p + 1 .. Len(v) : k < v[i].key
      /\ k \notin KeySet(v)
  BY <1>0, ContainsKey
<1>6. ASSUME NEW i \in 1 .. Len(w), NEW j \in 1 .. Len(w), i < j
      PROVE  w[i].key < w[j].key
  <2>1. CASE j \in 1 .. p
    BY <1>1, <1>3, <1>6, <2>1
  <2>2. CASE j = p + 1
    BY <1>2, <1>3, <1>4, <1>6, <2>2
  <2>3. CASE j \in p + 2 .. Len(v) + 1
    <3>1. w[j] = v[j - 1] /\ j - 1 \in p + 1 .. Len(v) /\ j - 1 \in 1 .. Len(v)
      BY <1>1, <1>3, <2>3
    <3>2. CASE i \in 1 .. p
      <4>1. w[i] = v[i] /\ i \in 1 .. Len(v) /\ i < j - 1
        BY <1>1, <1>3, <2>3, <3>2
      <4>. QED BY <1>1, <3>1, <4>1
    <3>3. CASE i = p + 1
      BY <1>2, <1>3, <1>5, <3>1, <3>3
    <3>4. CASE i \in p + 2 .. Len(v) + 1
      <4>1. w[i] = v[i - 1] /\ i - 1 \in 1 .. Len(v) /\ i - 1 < j - 1
        BY <1>1, <1>3, <1>6, <3>4
      <4>. QED BY <1>1, <3>1, <4>1
    <3>. QED BY <1>1, <1>3, <1>6, <3>2, <3>3, <3>4
  <2>. QED BY <1>1, <1>3, <2>1, <2>2, <2>3
<1>7. w \in Vec
  BY <1>3, <1>6 DEF Vec, InOrder
<1>8. ASSUME NEW z \in KeySet(v) \cup {k} PROVE \E i \in 1 .. Len(w) : w[i].key = z
  <2>1. CASE z = k
    <3>1. p + 1 \in 1 .. Len(w)
      BY <1>1, <1>3
    <3>. QED BY <1>2, <1>3, <2>1, <3>1
  <2>2. CASE z \in KeySet(v)
    <3>1. PICK i \in 1 .. Len(v) : v[i].key = z
      BY <2>2 DEF KeySet
    <3>2. CASE i <= p
      <4>1. i \in 1 .. p /\ i \in 1 .. Len(w)
        BY <1>1, <1>3, <3>1, <3>2
      <4>. QED BY <1>3, <3>1, <4>1
    <3>3. CASE ~(i <= p)
      <4>1. i + 1 \in p + 2 .. Len(v) + 1 /\ i + 1 - 1 = i /\ i + 1 \in 1 .. Len(w)
        BY <1>1, <1>3, <3>3
      <4>2. w[i + 1] = v[i + 1 - 1]
        BY <1>3, <4>1
      <4>. QED BY <3>1, <4>1, <4>2
    <3>. QED BY <3>2, <3>3
  <2>. QED BY <2>1, <2>2
<1>9. ASSUME NEW i \in 1 .. Len(w)
      PROVE  w[i].key \in KeySet(v) \cup {k} /\ f[w[i].key] = w[i].val
  <2>1. \A n \in 1 .. Len(v) : v[n].key \in KeySet(v) /\ f[v[n].key] = v[n].val
    BY MapOfElems
  <2>2. CASE i <= p
    <3>1. i \in 1 .. p /\ i \in 1 .. Len(v)
      BY <1>1, <1>3, <2>2
    <3>2. w[i] = v[i]
      BY <1>3, <3>1
    <3>. QED BY <2>1, <3>1, <3>2
  <2>3. CASE i = p + 1
    BY <1>2, <1>3, <2>3
  <2>4. CASE i > p + 1
    <3>1. i \in p + 2 .. Len(v) + 1 /\ i - 1 \in 1 .. Len(v)
      BY <1>1, <1>3, <2>4
    <3>2. w[i] = v[i - 1]
      BY <1>3, <3>1
    <3>. QED BY <2>1, <3>1, <3>2
  <2>. QED BY <1>1, <1>3, <2>2, <2>3, <2>4
<1>. QED BY <1>7, <1>8, <1>9, HoldsByElems DEF w

\* emplace and insert_or_assign, when the key is there and when it is not.
LEMMA EmplaceExact ==
  ASSUME NEW v \in Vec, NEW k \in MapKeys, NEW x \in MapVals
  PROVE  Holds(EmplaceUnique(v, k, x), Emplace(MapOf(v), k, x))
<1> DEFINE p == LowerPos(v, k)
           f == Emplace(MapOf(v), k, x)
<1>1. k \in Int /\ p \in 0 .. Len(v) /\ IsLowerPos(v, k, p)
  BY LowerPosExists, MapAssumption
<1>2. DOMAIN f = KeySet(v) \cup {k} /\ DOMAIN MapOf(v) = KeySet(v)
  BY MapOfElems DEF Emplace
<1>. HIDE DEF p
<1>3. CASE HasAt(v, k, p)
  <2>1. k \in KeySet(v)
    BY <1>1, <1>3, ContainsKey
  <2>2. f = MapOf(v)
    BY <1>2, <2>1 DEF Emplace, MapOf
  <2>3. EmplaceUnique(v, k, x) = v
    BY <1>3 DEF EmplaceUnique, p
  <2>. QED BY <2>2, <2>3 DEF Holds, Vec
<1>4. CASE ~HasAt(v, k, p)
  <2>1. k \notin KeySet(v)
    BY <1>1, <1>4, ContainsKey
  <2>2. Extends(f, v, k, x)
    BY <1>2, <2>1, MapOfElems DEF Emplace, Extends
  <2>3. EmplaceUnique(v, k, x) = InsertAfter(v, p, Elem(k, x))
    BY <1>4 DEF EmplaceUnique, p
  <2>4. Holds(InsertAfter(v, p, Elem(k, x)), f)
    <3>. HIDE DEF f
    <3>. QED BY <1>1, <1>4, <2>2, InsertHolds
  <2>. QED BY <2>3, <2>4
<1>. QED BY <1>3, <1>4

\* emplace_back, of a key that is after all others.
LEMMA PushBackExact ==
  ASSUME NEW v \in Vec, NEW k \in MapKeys, NEW x \in MapVals,
         CanPushBack(v, k), ~Contains(v, k)
  PROVE  Holds(PushBack(v, k, x), Emplace(MapOf(v), k, x))
<1> DEFINE f == Emplace(MapOf(v), k, x)
           n == Len(v)
<1>1. /\ k \in Int /\ n \in Nat /\ v \in Seq(Elems)
      /\ \A i \in 1 .. n : v[i].key \in Int
      /\ \A i, j \in 1 .. n : i < j => v[i].key < v[j].key
  BY VecElems, MapAssumption DEF Vec
<1>2. k \notin KeySet(v)
  BY <1>1, LowerPosExists, ContainsKey DEF Contains
<1>3. ASSUME NEW i \in 1 .. n PROVE v[i].key < k
  <2>1. ~(k < v[n].key) /\ n \in 1 .. n /\ (i = n \/ i < n)
    BY <1>1 DEF CanPushBack
  <2>2. v[i].key <= v[n].key
    BY <1>1, <2>1
  <2>3. v[i].key # k
    BY <1>2 DEF KeySet
  <2>. QED BY <1>1, <2>1, <2>2, <2>3
<1>4. IsLowerPos(v, k, n) /\ ~HasAt(v, k, n) /\ n \in 0 .. Len(v)
  BY <1>1, <1>3 DEF IsLowerPos, HasAt
<1>5. Extends(f, v, k, x)
  BY <1>2, MapOfElems DEF Emplace, Extends
<1>. HIDE DEF f
<1>6. Holds(InsertAfter(v, n, Elem(k, x)), f)
  BY <1>4, <1>5, InsertHolds
<1>7. PushBack(v, k, x) = InsertAfter(v, n, Elem(k, x))
  <2> DEFINE e == Elem(k, x)
             w == Append(v, e)
  <2>0. e \in Elems
    BY DEF Elem, Elems
  <2>. HIDE DEF e
  <2>3. /\ w \in Seq(Elems) /\ Len(w) = n + 1 /\ w[n + 1] = e
        /\ \A i \in 1 .. n : w[i] = v[i]
    BY <1>1, <2>0
  <2>. HIDE DEF w
  <2>4. w = [i \in 1 .. n + 1 |-> w[i]]
    BY <2>3
  <2>5. \A i \in 1 .. n + 1 : w[i] = IF i <= n THEN v[i] ELSE e
    BY <1>1, <2>3
  <2>1. Append(v, e) = [i \in 1 .. n + 1 |-> IF i <= n THEN v[i] ELSE e]
    BY <2>4, <2>5 DEF w
  <2>2. InsertAfter(v, n, e) = [i \in 1 .. n + 1 |-> IF i <= n THEN v[i] ELSE e]
    BY <1>1 DEF InsertAfter
  <2>. QED BY <2>1, <2>2 DEF PushBack, e
<1>. QED BY <1>6, <1>7 DEF f

LEMMA AssignExact ==
  ASSUME NEW v \in Vec, NEW k \in MapKeys, NEW x \in MapVals
  PROVE  Holds(AssignKey(v, k, x), InsertOrAssign(MapOf(v), k, x))
<1> DEFINE p == LowerPos(v, k)
           f == InsertOrAssign(MapOf(v), k, x)
<1>1. k \in Int /\ p \in 0 .. Len(v) /\ IsLowerPos(v, k, p)
  BY LowerPosExists, MapAssumption
<1>2. DOMAIN MapOf(v) = KeySet(v) /\ MapOf(v) \in [KeySet(v) -> MapVals]
  BY MapOfElems
<1>3. f \in [KeySet(v) \cup {k} -> MapVals] /\ f[k] = x
      /\ \A z \in KeySet(v) : z # k => f[z] = MapOf(v)[z]
  BY <1>2 DEF InsertOrAssign
<1>. HIDE DEF p, f
<1>4. CASE HasAt(v, k, p)
  <2> DEFINE w == [v EXCEPT ![p + 1].val = x]
  <2>1. p + 1 \in 1 .. Len(v) /\ v[p + 1].key = k /\ k \in KeySet(v)
    BY <1>1, <1>4, ContainsKey
  <2>2. /\ Len(v) \in Nat /\ DOMAIN v = 1 .. Len(v) /\ v \in Seq(Elems)
        /\ \A i \in 1 .. Len(v) : v[i] \in Elems /\ v[i].key \in Int
        /\ \A i, j \in 1 .. Len(v) : i < j => v[i].key < v[j].key
    BY VecElems DEF Vec
  <2>3. [v[p + 1] EXCEPT !.val = x] \in Elems /\ [v[p + 1] EXCEPT !.val = x].key = k
        /\ [v[p + 1] EXCEPT !.val = x].val = x
    BY <2>1, <2>2 DEF Elems
  <2>4. /\ w \in Seq(Elems) /\ Len(w) = Len(v)
        /\ \A i \in 1 .. Len(v) : i # p + 1 => w[i] = v[i]
        /\ w[p + 1].key = k /\ w[p + 1].val = x
    BY <2>1, <2>2, <2>3
  <2>. HIDE DEF w
  <2>5. \A i \in 1 .. Len(v) : w[i].key = v[i].key
    BY <2>1, <2>4
  <2>6. w \in Vec
    BY <2>2, <2>4, <2>5 DEF Vec, InOrder
  <2>7. \A z \in KeySet(v) \cup {k} : \E i \in 1 .. Len(w) : w[i].key = z
    BY <2>1, <2>4, <2>5 DEF KeySet
  <2>8. ASSUME NEW i \in 1 .. Len(w)
        PROVE  w[i].key \in KeySet(v) \cup {k} /\ f[w[i].key] = w[i].val
    <3>1. CASE i = p + 1
      BY <1>3, <2>4, <3>1
    <3>2. CASE i # p + 1
      <4>1. v[i].key # k
        <5>1. i < p + 1 \/ p + 1 < i
          BY <1>1, <2>4, <3>2
        <5>. QED BY <2>1, <2>2, <2>4, <5>1
      <4>2. v[i].key \in KeySet(v) /\ MapOf(v)[v[i].key] = v[i].val
        BY <2>4, MapOfElems
      <4>. QED BY <1>3, <2>4, <3>2, <4>1, <4>2
    <3>. QED BY <3>1, <3>2
  <2>9. Holds(w, f)
    BY <1>3, <2>6, <2>7, <2>8, HoldsByElems
  <2>10. AssignKey(v, k, x) = w
    BY <1>4 DEF AssignKey, p, w
  <2>. QED BY <2>9, <2>10 DEF f
<1>5. CASE ~HasAt(v, k, p)
  <2>1. k \notin KeySet(v)
    BY <1>1, <1>5, ContainsKey
  <2>2. Holds(InsertAfter(v, p, Elem(k, x)), f)
    <3>1. Extends(f, v, k, x)
      BY <1>3, <2>1 DEF Extends
    <3>. QED BY <1>1, <1>5, <3>1, InsertHolds
  <2>3. AssignKey(v, k, x) = InsertAfter(v, p, Elem(k, x))
    BY <1>5 DEF AssignKey, p
  <2>. QED BY <2>2, <2>3 DEF f
<1>. QED BY <1>4, <1>5

\* erase removes the one element with the key, or none.
LEMMA EraseExact ==
  ASSUME NEW v \in Vec, NEW k \in MapKeys
  PROVE  Holds(EraseKey(v, k), Erase(MapOf(v), k))
<1> DEFINE lo == LowerPos(v, k)
           hi == UpperPos(v, k)
           w  == EraseRange(v, lo, hi)
           f  == Erase(MapOf(v), k)
<1>1. k \in Int /\ lo \in 0 .. Len(v) /\ IsLowerPos(v, k, lo)
      /\ hi \in 0 .. Len(v) /\ IsUpperPos(v, k, hi)
  BY LowerPosExists, UpperPosExists, MapAssumption
<1>2. f \in [KeySet(v) \ {k} -> MapVals] /\ \A z \in KeySet(v) \ {k} : f[z] = MapOf(v)[z]
  BY MapOfElems DEF Erase
<1>3. EraseKey(v, k) = w
  BY DEF EraseKey
<1>. HIDE DEF lo, hi, f
<1>4. /\ Len(v) \in Nat
      /\ \A i \in 1 .. Len(v) : v[i] \in Elems /\ v[i].key \in Int
      /\ \A i, j \in 1 .. Len(v) : i < j => v[i].key < v[j].key
  BY VecElems
<1>5. lo <= hi
  <2>1. SUFFICES ASSUME hi < lo PROVE FALSE
    BY <1>1, <1>4
  <2>2. lo \in 1 .. lo /\ lo \in hi + 1 .. Len(v) /\ lo \in 1 .. Len(v)
    BY <1>1, <1>4, <2>1
  <2>3. v[lo].key < k /\ k < v[lo].key /\ v[lo].key \in Int
    BY <1>1, <1>4, <2>2 DEF IsLowerPos, IsUpperPos
  <2>. QED BY <1>1, <2>3
<1>6. /\ Len(v) - (hi - lo) \in Nat
      /\ \A i \in lo + 1 .. Len(v) - (hi - lo) :
           i + (hi - lo) \in hi + 1 .. Len(v) /\ i + (hi - lo) \in 1 .. Len(v)
      /\ \A i \in 1 .. lo : i \in 1 .. Len(v) /\ i \in 1 .. Len(v) - (hi - lo)
  BY <1>1, <1>4, <1>5
<1>7. /\ w \in Seq(Elems) /\ Len(w) = Len(v) - (hi - lo)
      /\ \A i \in 1 .. lo : w[i] = v[i]
      /\ \A i \in lo + 1 .. Len(w) : w[i] = v[i + (hi - lo)]
  <2>1. ASSUME NEW i \in 1 .. Len(v) - (hi - lo)
        PROVE  (IF i <= lo THEN v[i] ELSE v[i + (hi - lo)]) \in Elems
    <3>1. CASE i <= lo
      BY <1>1, <1>4, <1>6, <3>1
    <3>2. CASE ~(i <= lo)
      <4>1. i \in lo + 1 .. Len(v) - (hi - lo)
        BY <1>1, <1>6, <3>2
      <4>. QED BY <1>4, <1>6, <3>2, <4>1
    <3>. QED BY <3>1, <3>2
  <2>2. w \in [1 .. Len(v) - (hi - lo) -> Elems]
    BY <2>1 DEF EraseRange
  <2>3. w \in Seq(Elems) /\ Len(w) = Len(v) - (hi - lo)
    BY <1>6, <2>2
  <2>4. ASSUME NEW i \in 1 .. lo PROVE w[i] = v[i]
    BY <1>6, <2>4 DEF EraseRange
  <2>5. ASSUME NEW i \in lo + 1 .. Len(w) PROVE w[i] = v[i + (hi - lo)]
    <3>1. i \in 1 .. Len(v) - (hi - lo) /\ ~(i <= lo)
      BY <1>1, <1>6, <2>3
    <3>. QED BY <3>1 DEF EraseRange
  <2>. QED BY <2>3, <2>4, <2>5
<1>. HIDE DEF w
<1>8. ASSUME NEW i \in 1 .. Len(w), NEW j \in 1 .. Len(w), i < j
      PROVE  w[i].key < w[j].key
  <2>1. CASE j \in 1 .. lo
    <3>1. i \in 1 .. lo /\ i \in 1 .. Len(v) /\ j \in 1 .. Len(v)
      BY <1>1, <1>4, <1>8, <2>1
    <3>. QED BY <1>4, <1>7, <1>8, <2>1, <3>1
  <2>2. CASE j \in lo + 1 .. Len(w)
    <3>1. w[j] = v[j + (hi - lo)] /\ j + (hi - lo) \in 1 .. Len(v)
      BY <1>6, <1>7, <2>2
    <3>2. CASE i \in 1 .. lo
      <4>1. w[i] = v[i] /\ i \in 1 .. Len(v) /\ i < j + (hi - lo)
        BY <1>1, <1>5, <1>6, <1>7, <1>8, <3>2
      <4>. QED BY <1>4, <3>1, <4>1
    <3>3. CASE i \in lo + 1 .. Len(w)
      <4>1. w[i] = v[i + (hi - lo)] /\ i + (hi - lo) \in 1 .. Len(v)
            /\ i + (hi - lo) < j + (hi - lo)
        BY <1>1, <1>6, <1>7, <1>8, <3>3
      <4>. QED BY <1>4, <3>1, <4>1
    <3>. QED BY <1>1, <3>2, <3>3
  <2>. QED BY <1>1, <2>1, <2>2
<1>9. w \in Vec
  BY <1>7, <1>8 DEF Vec, InOrder
<1>10. ASSUME NEW z \in KeySet(v) \ {k} PROVE \E i \in 1 .. Len(w) : w[i].key = z
  <2>1. PICK i \in 1 .. Len(v) : v[i].key = z
    BY DEF KeySet
  <2>2. CASE i <= lo
    <3>1. i \in 1 .. lo /\ i \in 1 .. Len(w)
      BY <1>1, <1>6, <1>7, <2>2
    <3>. QED BY <1>7, <2>1, <3>1
  <2>3. CASE hi < i
    <3>1. i - (hi - lo) \in lo + 1 .. Len(w) /\ i - (hi - lo) + (hi - lo) = i
          /\ i - (hi - lo) \in 1 .. Len(w)
      BY <1>1, <1>4, <1>5, <1>7, <2>3
    <3>. QED BY <1>7, <2>1, <3>1
  <2>4. CASE lo < i /\ ~(hi < i)
    <3>1. i \in lo + 1 .. Len(v) /\ i \in 1 .. hi
      BY <1>1, <1>4, <2>4
    <3>2. ~(v[i].key < k) /\ ~(k < v[i].key) /\ v[i].key \in Int
      BY <1>1, <1>4, <3>1 DEF IsLowerPos, IsUpperPos
    <3>. QED BY <1>1, <2>1, <3>2
  <2>. QED BY <1>1, <2>2, <2>3, <2>4
<1>11. ASSUME NEW i \in 1 .. Len(w)
       PROVE  w[i].key \in KeySet(v) \ {k} /\ f[w[i].key] = w[i].val
  <2>1. \E n \in 1 .. Len(v) : w[i] = v[n] /\ v[n].key # k
    <3>1. CASE i <= lo
      <4>1. i \in 1 .. lo /\ i \in 1 .. Len(v) /\ w[i] = v[i]
        BY <1>1, <1>6, <1>7, <3>1
      <4>2. v[i].key < k /\ v[i].key \in Int
        BY <1>1, <1>4, <4>1 DEF IsLowerPos
      <4>. QED BY <1>1, <4>1, <4>2
    <3>2. CASE ~(i <= lo)
      <4>0. i \in lo + 1 .. Len(w)
        BY <1>1, <1>7, <3>2
      <4>1. i + (hi - lo) \in hi + 1 .. Len(v) /\ i + (hi - lo) \in 1 .. Len(v)
            /\ w[i] = v[i + (hi - lo)]
        BY <1>6, <1>7, <4>0
      <4>2. k < v[i + (hi - lo)].key /\ v[i + (hi - lo)].key \in Int
        BY <1>1, <1>4, <4>1 DEF IsUpperPos
      <4>. QED BY <1>1, <4>1, <4>2
    <3>. QED BY <3>1, <3>2
  <2>2. PICK n \in 1 .. Len(v) : w[i] = v[n] /\ v[n].key # k
    BY <2>1
  <2>3. v[n].key \in KeySet(v) /\ MapOf(v)[v[n].key] = v[n].val
    BY MapOfElems
  <2>. QED BY <1>2, <2>2, <2>3
<1>12. Holds(w, f)
  BY <1>2, <1>9, <1>10, <1>11, HoldsByElems
<1>. QED BY <1>3, <1>12 DEF f

-----------------------------------------------------------------------------
(***************************************************************************)
(* replace_key.  After the rotation, position j has what was at g[j],      *)
(* except position q, which has the moved element with its new key.        *)
(***************************************************************************)

\* w is v with element i moved to q under the key n; g says where the others come from.
Rotated(v, w, g, i, q, n) ==
  /\ w[q].key = n /\ w[q].val = v[i].val
  /\ \A j \in 1 .. Len(v) : j # q => w[j] = v[g[j]] /\ g[j] # i
  /\ \A j \in 1 .. Len(v) : j < q => v[g[j]].key < n
  /\ \A j \in 1 .. Len(v) : q < j => n < v[g[j]].key
  /\ \A j, l \in 1 .. Len(v) : j < l /\ j # q /\ l # q => g[j] < g[l]
  /\ \A h \in 1 .. Len(v) : h # i => \E j \in 1 .. Len(v) : j # q /\ g[j] = h

LEMMA MovedHolds ==
  ASSUME NEW v \in Vec, NEW n \in MapKeys, n \notin KeySet(v),
         NEW i \in 1 .. Len(v), NEW q \in 1 .. Len(v),
         NEW w \in Seq(Elems), Len(w) = Len(v),
         NEW g \in [1 .. Len(v) -> 1 .. Len(v)],
         Rotated(v, w, g, i, q, n)
  PROVE  Holds(w, ReplaceKey(MapOf(v), v[i].key, n))
<1>. USE DEF Rotated
<1> DEFINE f == ReplaceKey(MapOf(v), v[i].key, n)
           D == (KeySet(v) \ {v[i].key}) \cup {n}
<1>1. /\ Len(v) \in Nat
      /\ \A j \in 1 .. Len(v) : v[j] \in Elems /\ v[j].key \in Int
      /\ \A j, l \in 1 .. Len(v) : j < l => v[j].key < v[l].key
  BY VecElems
<1>2. /\ DOMAIN MapOf(v) = KeySet(v) /\ MapOf(v) \in [KeySet(v) -> MapVals]
      /\ \A j \in 1 .. Len(v) : v[j].key \in KeySet(v) /\ MapOf(v)[v[j].key] = v[j].val
  BY MapOfElems
<1>3. f \in [D -> MapVals] /\ f[n] = v[i].val
      /\ \A z \in KeySet(v) \ {v[i].key} : f[z] = MapOf(v)[z]
  BY <1>2 DEF ReplaceKey
<1>4. ASSUME NEW j \in 1 .. Len(w), NEW l \in 1 .. Len(w), j < l
      PROVE  w[j].key < w[l].key
  <2>1. j \in 1 .. Len(v) /\ l \in 1 .. Len(v) /\ g[j] \in 1 .. Len(v) /\ g[l] \in 1 .. Len(v)
    OBVIOUS
  <2>2. CASE j = q
    BY <1>4, <2>1, <2>2
  <2>3. CASE l = q
    BY <1>4, <2>1, <2>3
  <2>4. CASE j # q /\ l # q
    BY <1>1, <1>4, <2>1, <2>4
  <2>. QED BY <2>2, <2>3, <2>4
<1>5. w \in Vec
  BY <1>4 DEF Vec, InOrder
<1>6. ASSUME NEW z \in D PROVE \E j \in 1 .. Len(w) : w[j].key = z
  <2>1. CASE z = n
    BY <2>1
  <2>2. CASE z \in KeySet(v) \ {v[i].key}
    <3>1. PICK h \in 1 .. Len(v) : v[h].key = z
      BY <2>2 DEF KeySet
    <3>2. h # i
      BY <2>2, <3>1
    <3>3. PICK j \in 1 .. Len(v) : j # q /\ g[j] = h
      BY <3>2
    <3>. QED BY <3>1, <3>3
  <2>. QED BY <2>1, <2>2
<1>7. ASSUME NEW j \in 1 .. Len(w)
      PROVE  w[j].key \in D /\ f[w[j].key] = w[j].val
  <2>1. CASE j = q
    BY <1>3, <2>1
  <2>2. CASE j # q
    <3>1. g[j] \in 1 .. Len(v) /\ w[j] = v[g[j]] /\ g[j] # i
      BY <2>2
    <3>2. v[g[j]].key # v[i].key
      <4>1. g[j] < i \/ i < g[j]
        BY <1>1, <3>1
      <4>. QED BY <1>1, <3>1, <4>1
    <3>. QED BY <1>2, <1>3, <3>1, <3>2
  <2>. QED BY <2>1, <2>2
<1>. HIDE DEF f, D
<1>8. Holds(w, f)
  BY <1>3, <1>5, <1>6, <1>7, HoldsByElems
<1>. QED BY <1>8 DEF f

\* The rotation towards the end, for a key greater than the moved element's.
LEMMA MovedDown ==
  ASSUME NEW v \in Vec, NEW n \in MapKeys, n \notin KeySet(v),
         NEW i \in 1 .. Len(v), v[i].key < n
  PROVE  Holds(Moved(v, i, n), ReplaceKey(MapOf(v), v[i].key, n))
<1> DEFINE p == LowerPos(v, n)
           s == CircShift(v, i - 1, p, FALSE)
           w == [s EXCEPT ![p].key = n]
           g == [j \in 1 .. Len(v) |-> IF i <= j /\ j < p THEN j + 1 ELSE j]
<1>1. /\ n \in Int /\ p \in 0 .. Len(v) /\ IsLowerPos(v, n, p)
  BY LowerPosExists, MapAssumption
<1>2. Moved(v, i, n) = w
  BY DEF Moved
<1>. HIDE DEF p, w, g
<1>3. /\ Len(v) \in Nat
      /\ \A j \in 1 .. Len(v) : v[j] \in Elems /\ v[j].key \in Int
  BY VecElems
<1>4. i <= p /\ p \in 1 .. Len(v)
  <2>1. SUFFICES ASSUME p < i PROVE FALSE
    BY <1>1, <1>3
  <2>2. i \in p + 1 .. Len(v)
    BY <1>1, <1>3, <2>1
  <2>. QED BY <1>1, <2>2 DEF IsLowerPos
<1>5. \A j \in 1 .. Len(v) : g[j] \in 1 .. Len(v) /\ (j # p => g[j] # i)
      /\ (j < p => g[j] \in 1 .. p) /\ (p < j => g[j] \in p + 1 .. Len(v))
  BY <1>1, <1>3, <1>4 DEF g
<1>6. g \in [1 .. Len(v) -> 1 .. Len(v)]
  BY <1>5 DEF g
<1>7. \A j, l \in 1 .. Len(v) : j < l /\ j # p /\ l # p => g[j] < g[l]
  BY <1>3, <1>4 DEF g
<1>8. ASSUME NEW h \in 1 .. Len(v), h # i
      PROVE  \E j \in 1 .. Len(v) : j # p /\ g[j] = h
  <2>1. CASE i < h /\ h <= p
    <3>1. h - 1 \in 1 .. Len(v) /\ h - 1 # p /\ g[h - 1] = h
      BY <1>1, <1>3, <1>4, <2>1 DEF g
    <3>. QED BY <3>1
  <2>2. CASE ~(i < h /\ h <= p)
    <3>1. h # p /\ g[h] = h
      BY <1>1, <1>3, <1>4, <1>8, <2>2 DEF g
    <3>. QED BY <3>1
  <2>. QED BY <2>1, <2>2
<1>9. ASSUME NEW j \in 1 .. Len(v)
      PROVE  s[j] = (IF j = p THEN v[i] ELSE v[g[j]])
  <2>1. CASE j <= i - 1 \/ j > p
    <3>1. s[j] = v[j] /\ g[j] = j /\ j # p
      BY <1>1, <1>3, <1>4, <2>1 DEF CircShift, g
    <3>. QED BY <3>1
  <2>2. CASE j = p
    <3>1. ~(j <= i - 1 \/ j > p) /\ i - 1 + 1 = i
      BY <1>1, <1>3, <1>4, <2>2
    <3>2. s[j] = v[i - 1 + 1]
      BY <2>2, <3>1 DEF CircShift
    <3>. QED BY <2>2, <3>1, <3>2
  <2>3. CASE i <= j /\ j < p
    <3>1. ~(j <= i - 1 \/ j > p) /\ j # p /\ g[j] = j + 1
      BY <1>1, <1>3, <1>4, <2>3 DEF g
    <3>2. s[j] = v[j + 1]
      BY <3>1 DEF CircShift
    <3>. QED BY <3>1, <3>2
  <2>4. j <= i - 1 \/ j > p \/ j = p \/ (i <= j /\ j < p)
    BY <1>1, <1>3, <1>4
  <2>. QED BY <2>1, <2>2, <2>3, <2>4
<1>10. s \in Seq(Elems) /\ Len(s) = Len(v)
  <2>1. DOMAIN s = 1 .. Len(v)
    BY DEF CircShift
  <2>2. \A j \in 1 .. Len(v) : s[j] \in Elems
    BY <1>3, <1>5, <1>9
  <2>3. s = [j \in 1 .. Len(v) |-> s[j]]
    BY DEF CircShift
  <2>. HIDE DEF s
  <2>4. s \in [1 .. Len(v) -> Elems]
    BY <2>2, <2>3
  <2>. QED BY <1>3, <2>4
<1>. HIDE DEF s
<1>11. /\ w \in Seq(Elems) /\ Len(w) = Len(v)
       /\ w[p].key = n /\ w[p].val = v[i].val
       /\ \A j \in 1 .. Len(v) : j # p => w[j] = v[g[j]]
  <2>1. s[p] \in Elems /\ s[p] = v[i]
    BY <1>3, <1>4, <1>9
  <2>2. [s[p] EXCEPT !.key = n] \in Elems /\ [s[p] EXCEPT !.key = n].key = n
        /\ [s[p] EXCEPT !.key = n].val = v[i].val
    BY <2>1 DEF Elems
  <2>. QED BY <1>3, <1>4, <1>9, <1>10, <2>2 DEF w
<1>12. \A j \in 1 .. Len(v) : j < p => v[g[j]].key < n
  BY <1>1, <1>5 DEF IsLowerPos
<1>13. ASSUME NEW j \in 1 .. Len(v), p < j PROVE n < v[g[j]].key
  <2>1. g[j] \in p + 1 .. Len(v) /\ g[j] \in 1 .. Len(v)
    BY <1>5, <1>13
  <2>2. ~(v[g[j]].key < n) /\ v[g[j]].key \in Int /\ v[g[j]].key # n
    BY <1>1, <1>3, <2>1 DEF IsLowerPos, KeySet
  <2>. QED BY <1>1, <2>2
<1>. HIDE DEF g
<1>14. \A j \in 1 .. Len(v) : j # p => w[j] = v[g[j]] /\ g[j] # i
  BY <1>5, <1>11
<1>15. Holds(w, ReplaceKey(MapOf(v), v[i].key, n))
  <2>1. Rotated(v, w, g, i, p, n)
    BY <1>7, <1>8, <1>11, <1>12, <1>13, <1>14 DEF Rotated
  <2>. QED BY <1>4, <1>6, <1>11, <2>1, MovedHolds
<1>. QED BY <1>2, <1>15

\* The rotation towards the front.
LEMMA MovedUp ==
  ASSUME NEW v \in Vec, NEW n \in MapKeys, n \notin KeySet(v),
         NEW i \in 1 .. Len(v), ~(v[i].key < n)
  PROVE  Holds(Moved(v, i, n), ReplaceKey(MapOf(v), v[i].key, n))
<1> DEFINE p == UpperPos(v, n)
           s == CircShift(v, p, i, TRUE)
           w == [s EXCEPT ![p + 1].key = n]
           g == [j \in 1 .. Len(v) |-> IF p + 1 < j /\ j <= i THEN j - 1 ELSE j]
<1>1. /\ n \in Int /\ p \in 0 .. Len(v) /\ IsUpperPos(v, n, p)
  BY UpperPosExists, MapAssumption
<1>2. Moved(v, i, n) = w
  BY DEF Moved
<1>. HIDE DEF p, w, g
<1>3. /\ Len(v) \in Nat
      /\ \A j \in 1 .. Len(v) : v[j] \in Elems /\ v[j].key \in Int /\ v[j].key # n
  BY VecElems DEF KeySet
<1>4. p < i /\ p + 1 \in 1 .. Len(v)
  <2>1. SUFFICES ASSUME i <= p PROVE FALSE
    BY <1>1, <1>3
  <2>2. i \in 1 .. p
    BY <1>1, <1>3, <2>1
  <2>3. ~(n < v[i].key)
    BY <1>1, <2>2 DEF IsUpperPos
  <2>. QED BY <1>1, <1>3, <2>3
<1>5. \A j \in 1 .. Len(v) : g[j] \in 1 .. Len(v) /\ (j # p + 1 => g[j] # i)
      /\ (j < p + 1 => g[j] \in 1 .. p) /\ (p + 1 < j => g[j] \in p + 1 .. Len(v))
  BY <1>1, <1>3, <1>4 DEF g
<1>6. g \in [1 .. Len(v) -> 1 .. Len(v)]
  BY <1>5 DEF g
<1>7. \A j, l \in 1 .. Len(v) : j < l /\ j # p + 1 /\ l # p + 1 => g[j] < g[l]
  BY <1>1, <1>3, <1>4 DEF g
<1>8. ASSUME NEW h \in 1 .. Len(v), h # i
      PROVE  \E j \in 1 .. Len(v) : j # p + 1 /\ g[j] = h
  <2>1. CASE p < h /\ h < i
    <3>1. h + 1 \in 1 .. Len(v) /\ h + 1 # p + 1 /\ g[h + 1] = h
      BY <1>1, <1>3, <1>4, <2>1 DEF g
    <3>. QED BY <3>1
  <2>2. CASE ~(p < h /\ h < i)
    <3>1. h # p + 1 /\ g[h] = h
      BY <1>1, <1>3, <1>4, <1>8, <2>2 DEF g
    <3>. QED BY <3>1
  <2>. QED BY <2>1, <2>2
<1>9. ASSUME NEW j \in 1 .. Len(v)
      PROVE  s[j] = (IF j = p + 1 THEN v[i] ELSE v[g[j]])
  <2>1. CASE j <= p \/ j > i
    <3>1. s[j] = v[j] /\ g[j] = j /\ j # p + 1
      BY <1>1, <1>3, <1>4, <2>1 DEF CircShift, g
    <3>. QED BY <3>1
  <2>2. CASE j = p + 1
    <3>1. ~(j <= p \/ j > i)
      BY <1>1, <1>3, <1>4, <2>2
    <3>. QED BY <2>2, <3>1 DEF CircShift
  <2>3. CASE p + 1 < j /\ j <= i
    <3>1. ~(j <= p \/ j > i) /\ j # p + 1 /\ g[j] = j - 1
      BY <1>1, <1>3, <1>4, <2>3 DEF g
    <3>2. s[j] = v[j - 1]
      BY <3>1 DEF CircShift
    <3>. QED BY <3>1, <3>2
  <2>4. j <= p \/ j > i \/ j = p + 1 \/ (p + 1 < j /\ j <= i)
    BY <1>1, <1>3, <1>4
  <2>. QED BY <2>1, <2>2, <2>3, <2>4
<1>10. s \in Seq(Elems) /\ Len(s) = Len(v)
  <2>1. DOMAIN s = 1 .. Len(v)
    BY DEF CircShift
  <2>2. \A j \in 1 .. Len(v) : s[j] \in Elems
    BY <1>3, <1>5, <1>9
  <2>3. s = [j \in 1 .. Len(v) |-> s[j]]
    BY DEF CircShift
  <2>. HIDE DEF s
  <2>4. s \in [1 .. Len(v) -> Elems]
    BY <2>2, <2>3
  <2>. QED BY <1>3, <2>4
<1>. HIDE DEF s
<1>11. /\ w \in Seq(Elems) /\ Len(w) = Len(v)
       /\ w[p + 1].key = n /\ w[p + 1].val = v[i].val
       /\ \A j \in 1 .. Len(v) : j # p + 1 => w[j] = v[g[j]]
  <2>1. s[p + 1] \in Elems /\ s[p + 1] = v[i]
    BY <1>3, <1>4, <1>9
  <2>2. [s[p + 1] EXCEPT !.key = n] \in Elems /\ [s[p + 1] EXCEPT !.key = n].key = n
        /\ [s[p + 1] EXCEPT !.key = n].val = v[i].val
    BY <2>1 DEF Elems
  <2>. QED BY <1>3, <1>4, <1>9, <1>10, <2>2 DEF w
<1>12. ASSUME NEW j \in 1 .. Len(v), j < p + 1 PROVE v[g[j]].key < n
  <2>1. g[j] \in 1 .. p /\ g[j] \in 1 .. Len(v)
    BY <1>5, <1>12
  <2>2. ~(n < v[g[j]].key) /\ v[g[j]].key \in Int /\ v[g[j]].key # n
    BY <1>1, <1>3, <2>1 DEF IsUpperPos
  <2>. QED BY <1>1, <2>2
<1>13. \A j \in 1 .. Len(v) : p + 1 < j => n < v[g[j]].key
  BY <1>1, <1>5 DEF IsUpperPos
<1>. HIDE DEF g
<1>14. \A j \in 1 .. Len(v) : j # p + 1 => w[j] = v[g[j]] /\ g[j] # i
  BY <1>5, <1>11
<1>15. Holds(w, ReplaceKey(MapOf(v), v[i].key, n))
  <2>1. Rotated(v, w, g, i, p + 1, n)
    BY <1>7, <1>8, <1>11, <1>12, <1>13, <1>14 DEF Rotated
  <2>. QED BY <1>4, <1>6, <1>11, <2>1, MovedHolds
<1>. QED BY <1>2, <1>15

LEMMA ReplaceExact ==
  ASSUME NEW v \in Vec, NEW k \in MapKeys, NEW n \in MapKeys
  PROVE  Holds(ReplaceKeyIn(v, k, n), Replaced(MapOf(v), k, n))
<1> DEFINE p == LowerPos(v, k)
<1>1. k \in Int /\ n \in Int /\ p \in 0 .. Len(v) /\ IsLowerPos(v, k, p)
  BY LowerPosExists, MapAssumption
<1>2. Contains(v, k) <=> k \in KeySet(v)
  BY <1>1, ContainsKey DEF Contains
<1>3. Contains(v, n) <=> n \in KeySet(v)
  BY <1>1, LowerPosExists, ContainsKey DEF Contains
<1>4. DOMAIN MapOf(v) = KeySet(v) /\ MapOf(v) \in [KeySet(v) -> MapVals]
  BY MapOfElems
<1>5. CanReplace(v, k, n) <=> Has(MapOf(v), k) /\ (k = n \/ ~Has(MapOf(v), n))
  BY <1>2, <1>3, <1>4 DEF CanReplace, Has
<1>6. Holds(v, MapOf(v))
  BY DEF Holds, Vec
<1>7. CASE ~CanReplace(v, k, n)
  BY <1>5, <1>6, <1>7 DEF ReplaceKeyIn, Replaced
<1>8. CASE CanReplace(v, k, n) /\ k = n
  <2>1. ReplaceKey(MapOf(v), k, n) = MapOf(v)
    BY <1>2, <1>4, <1>8 DEF ReplaceKey, CanReplace
  <2>. QED BY <1>5, <1>6, <1>8, <2>1 DEF ReplaceKeyIn, Replaced
<1>9. CASE CanReplace(v, k, n) /\ k # n
  <2>1. n \notin KeySet(v)
    BY <1>3, <1>9 DEF CanReplace
  <2>2. HasAt(v, k, p)
    BY <1>9 DEF CanReplace, Contains
  <2>. HIDE DEF p
  <2>3. p + 1 \in 1 .. Len(v) /\ v[p + 1].key = k
    BY <1>1, <2>2, ContainsKey
  <2>4. Holds(Moved(v, p + 1, n), ReplaceKey(MapOf(v), v[p + 1].key, n))
    BY <2>1, <2>3, MovedDown, MovedUp
  <2>5. ReplaceKeyIn(v, k, n) = Moved(v, p + 1, n)
    BY <1>9 DEF ReplaceKeyIn, p
  <2>6. Replaced(MapOf(v), k, n) = ReplaceKey(MapOf(v), k, n)
    BY <1>5, <1>9 DEF Replaced
  <2>. QED BY <2>3, <2>4, <2>5, <2>6
<1>. QED BY <1>7, <1>8, <1>9

-----------------------------------------------------------------------------
\* Whatever the keys, the values and the length of the vector, every call on a vector in
\* order leaves a vector in order that stands for the dictionary of Dict: sorted_map's
\* emplace, insert_or_assign, erase, find and replace_key.
THEOREM EveryCallExact ==
  ASSUME NEW v \in Vec, NEW k \in MapKeys, NEW n \in MapKeys, NEW x \in MapVals
  PROVE  CallsExact(v, k, n, x)
<1>1. Contains(v, k) = Has(MapOf(v), k)
  <2>1. k \in Int
    BY MapAssumption
  <2>2. LowerPos(v, k) \in 0 .. Len(v) /\ IsLowerPos(v, k, LowerPos(v, k))
    BY <2>1, LowerPosExists
  <2>3. HasAt(v, k, LowerPos(v, k)) <=> k \in KeySet(v)
    BY <2>1, <2>2, ContainsKey
  <2>4. DOMAIN MapOf(v) = KeySet(v)
    BY MapOfElems
  <2>5. (k \in KeySet(v)) \in BOOLEAN /\ HasAt(v, k, LowerPos(v, k)) \in BOOLEAN
    BY DEF HasAt
  <2>. QED BY <2>3, <2>4, <2>5 DEF Contains, Has
<1>. QED BY <1>1, EmplaceExact, PushBackExact, AssignExact, EraseExact, ReplaceExact DEF CallsExact

\* The property the schematic's run checks, for every set of keys in use.
THEOREM AlwaysCallsExact ==
  ASSUME NEW S
  PROVE  CallsExactOn(S)
<1>1. ASSUME NEW v \in Vectors PROVE v \in Vec
  <2>1. PICK n \in 0 .. Cardinality(MapKeys) : v \in [1 .. n -> Elems]
    BY DEF Vectors, Elems
  <2>2. CASE n \in Nat
    BY <2>1, <2>2 DEF Vectors, Vec
  <2>. QED BY <2>2
<1>. QED BY <1>1, EveryCallExact DEF CallsExactOn
=============================================================================
