---------------------------- MODULE SchCellview ----------------------------
(***************************************************************************)
(* cbag::sch::cellview: a schematic that a generator edits in place.  It   *)
(* renames and removes pins, which the symbol cellview must follow, and    *)
(* renames, arrays, rewires and retargets instances.  The instance name    *)
(* carries the size of the instance array (X<3:0> is four devices), so a   *)
(* call that changes a name must rewrite every connection of the instance. *)
(*                                                                         *)
(* A net expression is the sequence of its bits.  Names are values; the    *)
(* functions NameSize and TermSize give what the name parser returns.      *)
(* Figures, parameters, positions and the views are left out.              *)
(***************************************************************************)
EXTENDS Integers, Sequences, Dict

CONSTANTS
  InstNames, NameSize,   \* the names a caller passes, and their sizes; 0: the parser rejects it
  UnitNames,             \* the names without a repetition, such as X or X<3:0>
  Terms, TermSize,       \* terminals of instances and their sizes
  Nets,                  \* the net expressions a caller passes, as sequences of bits
  Masters,               \* the cells an instance may be an instance of
  PinNames, LegalPins,   \* the pin names a caller passes, and those the parser accepts
  AttrVals,              \* values of the one pin attribute
  NoName, NoAttr, NoSym

ASSUME SchAssumption ==
  /\ NameSize \in [InstNames -> Nat] /\ NoName \notin InstNames
  /\ TermSize \in [Terms -> Nat \ {0}]
  /\ UnitNames \subseteq {n \in InstNames : NameSize[n] > 0}
  /\ \A net \in Nets : net \in Seq(UNION {{n[i] : i \in DOMAIN n} : n \in Nets}) /\ net # << >>
  /\ LegalPins \subseteq PinNames

VARIABLES
  terminals,  \* sorted_map from the pins to their attribute
  symbol,     \* the pins of the symbol cellview, NoSym without one
  instances,  \* sorted_map from instance names to [master, connections]
  call,       \* the array_instance call under way
  ret         \* the result of the last call

vars == <<terminals, symbol, instances, call, ret>>

Bits == UNION {{n[i] : i \in DOMAIN n} : n \in Nets}
LegalNames == {n \in InstNames : NameSize[n] > 0}
Result == {"ok", "false", "invalid_argument", "runtime_error"}

\* A slip: each bit repeated in its place, as <*k>a,<*k>b.
Repeat_EachBit(net, k) == [i \in 1 .. k * Len(net) |-> net[((i - 1) \div k) + 1]]

\* name::repeat: the bits of the whole expression, k times over.
Repeat(net, k) == [i \in 1 .. k * Len(net) |-> net[((i - 1) % Len(net)) + 1]]

(***************************************************************************)
(* array_instance runs a loop of copy_instance calls over a list that the  *)
(* caller passes, and copy_instance a loop of update_connection calls.     *)
(* `call` is where it stands: the instance that is copied, the copy whose  *)
(* connections are being updated, and the instances before the call.       *)
(***************************************************************************)
Idle == [old |-> NoName, cur |-> NoName, before |-> EmptyDict]
Arraying == call # Idle

-----------------------------------------------------------------------------
(***************************************************************************)
(* Instance connections.                                                   *)
(***************************************************************************)

\* update_connection: the bits of the net must fill the terminals of the whole
\* array, repeated if need be.
CanConnect(size, term, net) == (size * TermSize[term]) % Len(net) = 0
Connected(size, term, net) == Repeat(net, (size * TermSize[term]) \div Len(net))

\* resize_nets: repeat every net, or drop the connections when the new size is
\* not a multiple of the old one.
ResizeNets(conns, old_size, new_size) ==
  IF new_size % old_size # 0 THEN EmptyDict
  ELSE [t \in DOMAIN conns |-> Repeat(conns[t], new_size \div old_size)]

\* A slip: the nets not resized with the name.
Resized_Never(inst, old_size, new_name) == inst

\* The instance as copied or renamed from a name of size old_size to new_name.
Resized(inst, old_size, new_name) ==
  IF old_size = NameSize[new_name] THEN inst
  ELSE [inst EXCEPT !.connections = ResizeNets(@, old_size, NameSize[new_name])]

WithConnection(inst, name, term, net) ==
  [inst EXCEPT !.connections = InsertOrAssign(@, term, Connected(NameSize[name], term, net))]

\* The public update_connection parses the instance name as a name unit.
UpdateConnection(name, term, net) ==
  /\ ~Arraying /\ Has(instances, name)
  /\ \/ /\ name \in UnitNames /\ CanConnect(NameSize[name], term, net)
        /\ instances' = [instances EXCEPT ![name] = WithConnection(@, name, term, net)]
        /\ ret' = "ok"
     \/ /\ name \notin UnitNames \/ ~CanConnect(NameSize[name], term, net)
        /\ ret' = "invalid_argument"
        /\ UNCHANGED instances
  /\ UNCHANGED <<terminals, symbol, call>>

UpdateMaster(name, master, keep_connections) ==
  /\ ~Arraying /\ Has(instances, name)
  /\ instances' = [instances EXCEPT ![name] =
                     [master |-> master,
                      connections |-> IF keep_connections THEN @.connections ELSE EmptyDict]]
  /\ ret' = "ok"
  /\ UNCHANGED <<terminals, symbol, call>>

-----------------------------------------------------------------------------
(***************************************************************************)
(* Instances of the cellview.                                              *)
(***************************************************************************)

\* A slip: the new name not parsed.
RenameInstance_NoParse(old_name, new_name) ==
  /\ ~Arraying /\ ~Has(instances, new_name) /\ Has(instances, old_name)
  /\ instances' = [ReplaceKey(instances, old_name, new_name) EXCEPT
                     ![new_name] = Resized(@, NameSize[old_name], new_name)]
  /\ ret' = "ok"
  /\ UNCHANGED <<terminals, symbol, call>>

RenameInstance(old_name, new_name) ==
  /\ ~Arraying
  /\ \/ /\ ~Has(instances, new_name) /\ new_name \in LegalNames /\ Has(instances, old_name)
        /\ instances' = [ReplaceKey(instances, old_name, new_name) EXCEPT
                           ![new_name] = Resized(@, NameSize[old_name], new_name)]
        /\ ret' = "ok"
     \/ /\ Has(instances, new_name) \/ new_name \notin LegalNames \/ ~Has(instances, old_name)
        /\ ret' = "invalid_argument"
        /\ UNCHANGED instances
  /\ UNCHANGED <<terminals, symbol, call>>

RemoveInstance(name) ==
  /\ ~Arraying
  /\ instances' = Erase(instances, name)
  /\ ret' = IF Has(instances, name) THEN "ok" ELSE "false"
  /\ UNCHANGED <<terminals, symbol, call>>

StartArray(old_name) ==
  /\ ~Arraying
  /\ \/ /\ Has(instances, old_name)
        /\ call' = [old |-> old_name, cur |-> NoName, before |-> instances]
        /\ UNCHANGED ret
     \/ /\ ~Has(instances, old_name)
        /\ ret' = "invalid_argument"
        /\ UNCHANGED call
  /\ UNCHANGED <<terminals, symbol, instances>>

\* The exception leaves array_instance: the copies made so far stay.
Abort == call' = Idle /\ ret' = "invalid_argument"

\* A slip: the copy assigned, whatever has its name.
CopyInstance_Overwrites(new_name) ==
  /\ Arraying /\ new_name \in LegalNames
  /\ instances' = InsertOrAssign(instances, new_name,
                                 Resized(instances[call.old], NameSize[call.old], new_name))
  /\ call' = [call EXCEPT !.cur = new_name]
  /\ UNCHANGED <<terminals, symbol, ret>>

\* copy_instance up to its loop.
CopyInstance(new_name) ==
  /\ Arraying
  /\ \/ /\ new_name \in LegalNames /\ ~Has(instances, new_name)
        /\ instances' = Emplace(instances, new_name,
                                Resized(instances[call.old], NameSize[call.old], new_name))
        /\ call' = [call EXCEPT !.cur = new_name]
        /\ UNCHANGED ret
     \/ /\ new_name \notin LegalNames \/ Has(instances, new_name)
        /\ Abort
        /\ UNCHANGED instances
  /\ UNCHANGED <<terminals, symbol>>

\* One turn of the loop of copy_instance.
ConnectCopy(term, net) ==
  /\ Arraying /\ call.cur # NoName
  /\ \/ /\ CanConnect(NameSize[call.cur], term, net)
        /\ instances' = [instances EXCEPT ![call.cur] = WithConnection(@, call.cur, term, net)]
        /\ UNCHANGED <<call, ret>>
     \/ /\ ~CanConnect(NameSize[call.cur], term, net)
        /\ Abort
        /\ UNCHANGED instances
  /\ UNCHANGED <<terminals, symbol>>

\* The list is exhausted: the original goes.
FinishArray ==
  /\ Arraying
  /\ instances' = Erase(instances, call.old)
  /\ call' = Idle
  /\ ret' = "ok"
  /\ UNCHANGED <<terminals, symbol>>

-----------------------------------------------------------------------------
(***************************************************************************)
(* Pins.                                                                   *)
(***************************************************************************)

\* rename_pin of the symbol, which is a cellview without a symbol of its own.
RenameSymbolPin(old_name, new_name) ==
  \/ /\ symbol = NoSym
     /\ ret' = "ok"
     /\ UNCHANGED symbol
  \/ /\ symbol # NoSym /\ new_name \notin symbol /\ old_name \in symbol
     /\ symbol' = (symbol \ {old_name}) \cup {new_name}
     /\ ret' = "ok"
  \/ /\ symbol # NoSym /\ (new_name \in symbol \/ old_name \notin symbol)
     /\ ret' = "invalid_argument"
     /\ UNCHANGED symbol

\* A slip: the check that the new name is free left to the symbol.
RenamePin_NoCheck(old_name, new_name) ==
  /\ ~Arraying /\ new_name \in LegalPins /\ Has(terminals, old_name)
  /\ terminals' = ReplaceKey(terminals, old_name, new_name)
  /\ RenameSymbolPin(old_name, new_name)
  /\ UNCHANGED <<instances, call>>

RenamePin(old_name, new_name) ==
  /\ ~Arraying
  /\ \/ /\ ~Has(terminals, new_name) /\ new_name \in LegalPins /\ Has(terminals, old_name)
        /\ terminals' = ReplaceKey(terminals, old_name, new_name)
        /\ RenameSymbolPin(old_name, new_name)
     \/ /\ Has(terminals, new_name) \/ new_name \notin LegalPins \/ ~Has(terminals, old_name)
        /\ ret' = "invalid_argument"
        /\ UNCHANGED <<terminals, symbol>>
  /\ UNCHANGED <<instances, call>>

\* Not implemented: it throws whatever it is given.
AddPin(name) ==
  /\ ~Arraying
  /\ ret' = IF name \notin LegalPins \/ Has(terminals, name)
            THEN "invalid_argument" ELSE "runtime_error"
  /\ UNCHANGED <<terminals, symbol, instances, call>>

\* emplace: an attribute that is set stays as it is.
SetPinAttribute(name, val) ==
  /\ ~Arraying
  /\ \/ /\ Has(terminals, name)
        /\ terminals' = [terminals EXCEPT ![name] = IF @ = NoAttr THEN val ELSE @]
        /\ ret' = "ok"
     \/ /\ ~Has(terminals, name)
        /\ ret' = "invalid_argument"
        /\ UNCHANGED terminals
  /\ UNCHANGED <<symbol, instances, call>>

\* A slip: the symbol forgotten.
RemovePin_KeepsSymbol(name) ==
  /\ ~Arraying
  /\ terminals' = Erase(terminals, name)
  /\ ret' = IF Has(terminals, name) THEN "ok" ELSE "false"
  /\ UNCHANGED <<symbol, instances, call>>

RemovePin(name) ==
  /\ ~Arraying
  /\ terminals' = Erase(terminals, name)
  /\ symbol' = IF Has(terminals, name) /\ symbol # NoSym THEN symbol \ {name} ELSE symbol
  /\ ret' = IF Has(terminals, name) THEN "ok" ELSE "false"
  /\ UNCHANGED <<instances, call>>

-----------------------------------------------------------------------------
\* A schematic as loaded from its files: the symbol comes from another file and
\* nothing compares the two.
Init ==
  /\ \E pins \in SUBSET LegalPins : terminals = [p \in pins |-> NoAttr]
  /\ symbol \in {NoSym} \cup SUBSET LegalPins
  /\ \E names \in SUBSET LegalNames :
       instances \in [names -> [master : Masters, connections : {EmptyDict}]]
  /\ call = Idle
  /\ ret = "ok"

NextInstances ==
  \/ \E n \in InstNames, t \in Terms, net \in Nets : UpdateConnection(n, t, net)
  \/ \E n \in InstNames, m \in Masters, keep \in BOOLEAN : UpdateMaster(n, m, keep)
  \/ \E old, new \in InstNames : RenameInstance(old, new)
  \/ \E n \in InstNames : RemoveInstance(n)
  \/ \E n \in InstNames : StartArray(n)
  \/ \E n \in InstNames : CopyInstance(n)
  \/ \E t \in Terms, net \in Nets : ConnectCopy(t, net)
  \/ FinishArray

NextPins ==
  \/ \E old, new \in PinNames : RenamePin(old, new)
  \/ \E p \in PinNames : AddPin(p)
  \/ \E p \in PinNames, v \in AttrVals : SetPinAttribute(p, v)
  \/ \E p \in PinNames : RemovePin(p)

Next == NextInstances \/ NextPins

Spec == Init /\ [][Next]_vars

-----------------------------------------------------------------------------
(***************************************************************************)
(* Properties.                                                             *)
(***************************************************************************)

\* The shape of the variables: every instance and pin has a legal name, and the
\* instance that is being copied exists.
TypeOK ==
  /\ DOMAIN terminals \subseteq LegalPins
  /\ \A p \in DOMAIN terminals : terminals[p] \in AttrVals \cup {NoAttr}
  /\ symbol = NoSym \/ symbol \subseteq LegalPins
  /\ DOMAIN instances \subseteq LegalNames
  /\ \A n \in DOMAIN instances :
       /\ instances[n].master \in Masters
       /\ DOMAIN instances[n].connections \subseteq Terms
       /\ \A t \in DOMAIN instances[n].connections : instances[n].connections[t] \in Seq(Bits)
  /\ call = Idle \/ call.old \in DOMAIN instances
  /\ call.cur = NoName \/ call.cur \in DOMAIN instances
  /\ ret \in Result

\* Every connection has one bit for each terminal bit of each device of the
\* instance array, after any renaming, arraying and rewiring: the netlisters index
\* it by device and bit without a check.
ConnWidth ==
  \A n \in DOMAIN instances : \A t \in DOMAIN instances[n].connections :
    Len(instances[n].connections[t]) = NameSize[n] * TermSize[t]

\* What device i of an instance array has on terminal t.
DeviceNet(inst, t, i) ==
  SubSeq(inst.connections[t], i * TermSize[t] + 1, (i + 1) * TermSize[t])

\* Each device of dst has the connections of a device of src, in turn.
DevicesLike(dst, dst_size, src, src_size) ==
  \A t \in DOMAIN dst.connections :
    /\ t \in DOMAIN src.connections
    /\ \A i \in 0 .. dst_size - 1 : DeviceNet(dst, t, i) = DeviceNet(src, t, i % src_size)

\* Renaming or copying an instance to a larger array replicates its devices: no
\* device gets a mix of the nets of two.
ResizeKeepsDevices ==
  [][\A old, new \in LegalNames :
       \/ RenameInstance(old, new) /\ ret' = "ok"
       \/ CopyInstance(new) /\ call' # Idle /\ call.old = old
       => DevicesLike(instances'[new], NameSize[new], instances[old], NameSize[old])]_vars

\* array_instance loses nothing: when it returns, every instance there was before
\* the call is there and unchanged, except the original after a success.  After an
\* exception the original is there too.
ArrayKeepsInstances ==
  [][Arraying /\ ~Arraying' =>
       \A n \in DOMAIN call.before :
         \/ n = call.old /\ ret' = "ok"
         \/ n \in DOMAIN instances' /\ instances'[n] = call.before[n]]_vars

\* The symbol has the pins of the schematic, if there is a symbol.
InSync == symbol = NoSym \/ symbol = DOMAIN terminals

\* The pins of the schematic and of the symbol are renamed and removed together.
PinsStayInSync == [][InSync => InSync']_vars

\* A call on pins that throws changes nothing, provided that the two were in sync:
\* rename_pin renames the schematic pin before the symbol can refuse.
PinCallsAtomic ==
  [][InSync /\ ret' = "invalid_argument" => UNCHANGED <<terminals, symbol>>]_vars
=============================================================================
