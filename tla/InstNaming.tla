----------------------------- MODULE InstNaming -----------------------------
(***************************************************************************)
(* How a layout cellview names its instances (cellview::helper::add_inst). *)
(* A given name is kept when it is free; otherwise the instance is named   *)
(* X<n>, with n found by util::binary_iterator.  The iterator supposes     *)
(* that the names taken are X<0> .. X<n-1>, but callers may give names of  *)
(* that form too.  The caller ignores whether the final emplace inserted   *)
(* anything, so a name that is taken would lose the instance in silence.   *)
(***************************************************************************)
EXTENDS Integers

CONSTANTS
  Numbers,  \* the n of the names X<n> that callers give
  Others,   \* the other names they give
  NoName,   \* no name given
  Nullopt,     \* std::nullopt
  MaxAdds   \* bound: the instances added

ASSUME NamingAssumption ==
  /\ Numbers \subseteq Nat /\ Others \cap Nat = {}
  /\ NoName \notin Nat \cup Others /\ Nullopt \notin Nat
  /\ MaxAdds \in Nat

VARIABLES
  names,         \* the keys of inst_map; X<n> is the number n
  inst_name_cnt, \* the number to start from
  added,         \* the instances added so far
  search,        \* an iterator is at work
  low, high, current, marker   \* the iterator

naming_vars == <<names, inst_name_cnt, added, search, low, high, current, marker>>
iter == <<low, high, current, marker>>

has_next == high # Nullopt => low < high

\* A slip: every search starts from X<0> again.
add_inst_FromZero(name) ==
  /\ ~search /\ added < MaxAdds
  /\ added' = added + 1
  /\ \/ /\ name # NoName /\ name \notin names
        /\ names' = names \cup {name}
        /\ UNCHANGED <<search, iter>>
     \/ /\ name = NoName \/ name \in names
        /\ search' = TRUE
        /\ low' = 0 /\ current' = 0
        /\ high' = Nullopt /\ marker' = Nullopt
        /\ UNCHANGED names
  /\ UNCHANGED inst_name_cnt

\* inst_map.emplace: a name that is free; anything else starts a search.
add_inst(name) ==
  /\ ~search /\ added < MaxAdds
  /\ added' = added + 1
  /\ \/ /\ name # NoName /\ name \notin names
        /\ names' = names \cup {name}
        /\ UNCHANGED <<search, iter>>
     \/ /\ name = NoName \/ name \in names
        /\ search' = TRUE
        /\ low' = inst_name_cnt /\ current' = inst_name_cnt
        /\ high' = Nullopt /\ marker' = Nullopt
        /\ UNCHANGED names
  /\ UNCHANGED inst_name_cnt

\* A slip: the doubling starts from 0 and stays there.
Up_Stuck ==
  /\ search /\ has_next /\ current \in names
  /\ low' = current + 1
  /\ current' = IF high # Nullopt THEN (current + 1 + high) \div 2 ELSE 2 * current
  /\ UNCHANGED <<names, inst_name_cnt, added, search, high, marker>>

\* A slip: the number is saved before it is known to be free.
Up_Saves ==
  /\ search /\ has_next /\ current \in names
  /\ marker' = current
  /\ low' = current + 1
  /\ current' = IF high # Nullopt THEN (current + 1 + high) \div 2
                ELSE IF current > 0 THEN 2 * current ELSE 1
  /\ UNCHANGED <<names, inst_name_cnt, added, search, high>>

\* The name is taken: look higher, at twice the number while there is no bound.
Up ==
  /\ search /\ has_next /\ current \in names
  /\ low' = current + 1
  /\ current' = IF high # Nullopt THEN (current + 1 + high) \div 2
                ELSE IF current > 0 THEN 2 * current ELSE 1
  /\ UNCHANGED <<names, inst_name_cnt, added, search, high, marker>>

\* A slip: the halving forgets the lower bound.
Down_NoLow ==
  /\ search /\ has_next /\ current \notin names
  /\ marker' = current
  /\ high' = current
  /\ current' = current \div 2
  /\ UNCHANGED <<names, inst_name_cnt, added, search, low>>

\* The name is free: save it and look lower.
Down ==
  /\ search /\ has_next /\ current \notin names
  /\ marker' = current
  /\ high' = current
  /\ current' = (low + current) \div 2
  /\ UNCHANGED <<names, inst_name_cnt, added, search, low>>

Finish ==
  /\ search /\ ~has_next
  /\ inst_name_cnt' = marker
  /\ names' = names \cup {marker}
  /\ search' = FALSE
  /\ UNCHANGED <<added, iter>>

NamingInit ==
  /\ names = {} /\ inst_name_cnt = 0 /\ added = 0 /\ search = FALSE
  /\ low = 0 /\ high = Nullopt /\ current = 0 /\ marker = Nullopt

Step == Up \/ Down \/ Finish
NamingNext == (\E name \in Numbers \cup Others \cup {NoName} : add_inst(name)) \/ Step

\* add_inst runs to its end without waiting for anything.
NamingSpec == NamingInit /\ [][NamingNext]_naming_vars /\ WF_naming_vars(Step)

-----------------------------------------------------------------------------
(***************************************************************************)
(* Properties.                                                             *)
(***************************************************************************)

\* The shape of the variables; the iterator stays at or above the count it started
\* from.
NamingTypeOK ==
  /\ names \subseteq Nat \cup Others
  /\ inst_name_cnt \in Nat /\ added \in 0 .. MaxAdds /\ search \in BOOLEAN
  /\ low \in Nat /\ current \in Nat
  /\ high \in Nat \cup {Nullopt} /\ marker \in Nat \cup {Nullopt}
  /\ search => inst_name_cnt <= low

\* A search that ends has saved a name, and the name is free: the emplace after it
\* never fails, whatever names of the form X<n> the callers gave.
SavedNameFree == search /\ ~has_next => marker \in Nat \ names

\* Names are never taken away, and the count never goes back.
CountGrows == [][names \subseteq names' /\ inst_name_cnt <= inst_name_cnt']_naming_vars

\* Every search ends: the doubling passes all the names, and the bisection closes.
SearchEnds == search ~> ~search

(***************************************************************************)
(* What the search maintains: the bound is the saved name, and it is free. *)
(***************************************************************************)
Bisecting ==
  search => /\ marker = high
            /\ low <= current
            /\ high # Nullopt => /\ high \notin names /\ low <= high
                                 /\ low < high => current < high

NamingInv == NamingTypeOK /\ Bisecting
=============================================================================
