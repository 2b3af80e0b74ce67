-------------------------- MODULE CircularListSpec --------------------------
(***************************************************************************)
(* What lib::CircularIntrusiveList promises its user, the scheduler: a     *)
(* cyclic sequence that starts at _some, with insertion behind the first   *)
(* element, removal of any element, and iteration that goes round once     *)
(* while elements are inserted.  Scheduler uses its list in this view.     *)
(***************************************************************************)
EXTENDS Naturals, Sequences

CONSTANTS
  Value,      \* the values that may be in the list
  null        \* nullptr: no value

VARIABLES
  list,       \* the values, from _some on
  it,         \* the user's iterator; node is null when there is none
  ret         \* what the last call returned

vars == <<list, it, ret>>

NoIterator == [node |-> null, shifted |-> FALSE]

Elements == {list[i] : i \in DOMAIN list}

\* The element behind v in the circle.
Successor(v) ==
  LET i == CHOOSE j \in DOMAIN list : list[j] = v
  IN  list[(i % Len(list)) + 1]

Init ==
  /\ list = <<>>
  /\ it = NoIterator
  /\ ret = null

Insert(v) ==
  /\ list' = IF list = <<>> THEN <<v>> ELSE <<Head(list), v>> \o Tail(list)
  /\ UNCHANGED <<it, ret>>

RemoveValue(v) ==
  /\ it = NoIterator
  /\ \E i \in DOMAIN list :
       /\ list[i] = v
       /\ list' = SubSeq(list, 1, i - 1) \o SubSeq(list, i + 1, Len(list))
  /\ ret' = IF Len(list) = 1 THEN null ELSE Successor(v)
  /\ UNCHANGED it

Begin ==
  /\ it = NoIterator
  /\ list # <<>>
  /\ it' = [node |-> Head(list), shifted |-> FALSE]
  /\ UNCHANGED <<list, ret>>

Advance ==
  /\ it # NoIterator
  /\ it' = [node |-> Successor(it.node), shifted |-> TRUE]
  /\ it'.node # Head(list)
  /\ UNCHANGED <<list, ret>>

\* The round ends behind the element whose successor is the first one.
End ==
  /\ it # NoIterator
  /\ Successor(it.node) = Head(list)
  /\ it' = NoIterator
  /\ UNCHANGED <<list, ret>>

Next ==
  \/ \E v \in Value \ Elements : Insert(v)
  \/ \E v \in Elements : RemoveValue(v)
  \/ Begin
  \/ Advance
  \/ End

Spec == Init /\ [][Next]_vars
=============================================================================
