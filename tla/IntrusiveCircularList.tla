----------------------- MODULE IntrusiveCircularList -----------------------
(***************************************************************************)
(* lib::CircularIntrusiveList (src/kernel/libkernelcxx/include/ext/        *)
(* intrusive_circular_list.hpp): a doubly linked circle through nodes that *)
(* are members of the elements.  A node is identified with its owner.      *)
(*                                                                         *)
(* The user is the scheduler: one iteration at a time, which may insert    *)
(* but not remove, over a list that is not empty.                          *)
(***************************************************************************)
EXTENDS Naturals, FiniteSets

CONSTANTS
  Value,      \* the elements
  null        \* nullptr: no element

ASSUME ValueAssumption == null \notin Value

VARIABLES
  _some,      \* as in the code
  next,       \* next[v] and prev[v]: the links of the node of v
  prev,
  it,         \* the user's iterator; node is null when there is none
  ret         \* what the last call returned

vars == <<_some, next, prev, it, ret>>

NoIterator == [node |-> null, shifted |-> FALSE]

Init ==
  /\ _some = null
  /\ next = [v \in Value |-> null]
  /\ prev = [v \in Value |-> null]
  /\ it = NoIterator
  /\ ret = null

\* An element outside the list has null links.
Linked(v) == next[v] # null

InsertFirst(v) ==
  /\ _some = null
  /\ next' = [next EXCEPT ![v] = v]
  /\ prev' = [prev EXCEPT ![v] = v]
  /\ _some' = v
  /\ UNCHANGED <<it, ret>>

\* Mutant of InsertBehindSome: the value goes in front of _some.
InsertBeforeSome(v) ==
  /\ _some # null
  /\ next' = [next EXCEPT ![v] = _some, ![prev[_some]] = v]
  /\ prev' = [prev EXCEPT ![v] = prev[_some], ![_some] = v]
  /\ UNCHANGED <<_some, it, ret>>

\* build: [_some] [value] [_some->next]
InsertBehindSome(v) ==
  /\ _some # null
  /\ prev' = [prev EXCEPT ![v] = _some, ![next[_some]] = v]
  /\ next' = [next EXCEPT ![v] = next[_some], ![_some] = v]
  /\ UNCHANGED <<_some, it, ret>>

Insert(v) ==
  /\ ~Linked(v)
  /\ InsertFirst(v) \/ InsertBehindSome(v)

RemoveOnly(v) ==
  /\ next[v] = v
  /\ next' = [next EXCEPT ![v] = null]
  /\ prev' = [prev EXCEPT ![v] = null]
  /\ _some' = null
  /\ ret' = null
  /\ UNCHANGED it

\* Mutant of RemoveFromCircle: the backward link is not mended.
RemoveForward(v) ==
  /\ next[v] # v
  /\ next' = [next EXCEPT ![prev[v]] = next[v], ![v] = null]
  /\ prev' = [prev EXCEPT ![v] = null]
  /\ _some' = IF _some = v THEN next[v] ELSE _some
  /\ ret' = next[v]
  /\ UNCHANGED it

RemoveFromCircle(v) ==
  /\ next[v] # v
  /\ next' = [next EXCEPT ![prev[v]] = next[v], ![v] = null]
  /\ prev' = [prev EXCEPT ![next[v]] = prev[v], ![v] = null]
  /\ _some' = IF _some = v THEN next[v] ELSE _some
  /\ ret' = next[v]
  /\ UNCHANGED it

RemoveValue(v) ==
  /\ it = NoIterator
  /\ Linked(v)
  /\ RemoveOnly(v) \/ RemoveFromCircle(v)

\* begin()
Begin ==
  /\ it = NoIterator
  /\ _some # null
  /\ it' = [node |-> _some, shifted |-> FALSE]
  /\ UNCHANGED <<_some, next, prev, ret>>

\* iterator == end(), for the iterator i; end() is made from _some.
IsEnd(i) == i.node = _some /\ i.shifted

\* operator++ and the comparison with end() that follows it.
Advance ==
  /\ it # NoIterator
  /\ LET shifted == [node |-> next[it.node], shifted |-> TRUE]
     IN  it' = IF IsEnd(shifted) THEN NoIterator ELSE shifted
  /\ UNCHANGED <<_some, next, prev, ret>>

Next ==
  \/ \E v \in Value : Insert(v)
  \/ \E v \in Value : RemoveValue(v)
  \/ Begin
  \/ Advance

Spec == Init /\ [][Next]_vars

-----------------------------------------------------------------------------
(* Properties.                                                             *)

\* The values met along the links from `some`, once round.
RoundOf(some, links) ==
  LET n == Cardinality({v \in Value : links[v] # null})
      walk[i \in 1 .. n] == IF i = 1 THEN some ELSE links[walk[i - 1]]
  IN  [i \in 1 .. n |-> walk[i]]

Round == RoundOf(_some, next)

\* The links and the iterator are elements or null.
TypeOK ==
  /\ _some \in Value \cup {null}
  /\ next \in [Value -> Value \cup {null}]
  /\ prev \in [Value -> Value \cup {null}]
  /\ it \in {NoIterator} \cup [node : Value, shifted : BOOLEAN]
  /\ ret \in Value \cup {null}

\* The backward links are the inverse of the forward ones: remove() mends
\* both directions whatever position it unlinks
\* (intrusive_circular_list.hpp:116-152).
LinksAreInverse ==
  \A v \in Value : Linked(v) => prev[next[v]] = v /\ next[prev[v]] = v

\* What makes LinksAreInverse inductive: the neighbours of an element of the
\* list are in the list, and so are _some and the element under the iterator.
IInv ==
  /\ TypeOK
  /\ LinksAreInverse
  /\ \A v \in Value : Linked(v) => next[v] \in Value /\ prev[v] \in Value
                                   /\ Linked(next[v]) /\ Linked(prev[v])
  /\ \A v \in {_some, it.node} \ {null} : Linked(v)

\* The links implement the cyclic sequence of CircularListSpec, iteration
\* under insertion included.
Abstract == INSTANCE CircularListSpec WITH list <- Round

ImplementsCircularListSpec == Abstract!Spec
=============================================================================
