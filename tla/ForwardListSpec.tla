--------------------------- MODULE ForwardListSpec ---------------------------
(***************************************************************************)
(* What lib::forward_list promises its users, the tables of interrupt      *)
(* handlers and the scheduler's list of finished tasks: a sequence of      *)
(* values.  An insertion takes effect at once, also for an interrupt that  *)
(* goes through the list; clear() and remove() take elements out one by    *)
(* one, the first one first, and return when there is none left.           *)
(***************************************************************************)
EXTENDS Naturals, Sequences

CONSTANTS
  Value,      \* the elements
  Capacity    \* bound: elements in the list

VARIABLES
  list,       \* the elements, front first
  erasing,    \* {v} during remove(v), Value during clear(), {} otherwise
  counting,   \* during remove()
  removed     \* elements taken out by the last remove()

vars == <<list, erasing, counting, removed>>

Init ==
  /\ list = <<>>
  /\ erasing = {}
  /\ counting = FALSE
  /\ removed = 0

Without(i) == SubSeq(list, 1, i - 1) \o SubSeq(list, i + 1, Len(list))

\* push_after() of the i-th element, push_front() for i = 0.
Push(i, v) ==
  /\ erasing = {}
  /\ Len(list) < Capacity
  /\ list' = SubSeq(list, 1, i) \o <<v>> \o SubSeq(list, i + 1, Len(list))
  /\ UNCHANGED <<erasing, counting, removed>>

\* erase_after() of the i-th element, pop_front() for i = 0.
EraseAfter(i) ==
  /\ erasing = {}
  /\ i < Len(list)
  /\ list' = Without(i + 1)
  /\ UNCHANGED <<erasing, counting, removed>>

\* remove(v) and clear() begin.
Begin(values, count) ==
  /\ erasing = {}
  /\ erasing' = values
  /\ counting' = count
  /\ removed' = IF count THEN 0 ELSE removed
  /\ UNCHANGED list

\* The first element that is to go is gone.
EraseOne ==
  \E i \in DOMAIN list :
    /\ list[i] \in erasing
    /\ \A j \in 1 .. (i - 1) : list[j] \notin erasing
    /\ list' = Without(i)
    /\ removed' = IF counting THEN removed + 1 ELSE removed
    /\ UNCHANGED <<erasing, counting>>

\* They return.
End ==
  /\ erasing # {}
  /\ \A i \in DOMAIN list : list[i] \notin erasing
  /\ erasing' = {}
  /\ counting' = FALSE
  /\ UNCHANGED <<list, removed>>

Next ==
  \/ \E i \in 0 .. Len(list), v \in Value : Push(i, v)
  \/ \E i \in 0 .. Len(list) : EraseAfter(i)
  \/ \E v \in Value : Begin({v}, TRUE)
  \/ Begin(Value, FALSE)
  \/ EraseOne
  \/ End

Spec == Init /\ [][Next]_vars
=============================================================================
