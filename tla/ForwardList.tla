----------------------------- MODULE ForwardList -----------------------------
(***************************************************************************)
(* lib::forward_list (src/kernel/libkernelcxx/include/forward_list.hpp and *)
(* impl/basic_forward_list.hpp): nodes from kmalloc, linked by `next` from *)
(* a dummy node inside the list object.                                    *)
(*                                                                         *)
(* The tables of handlers in irq.cpp are such lists.  add_handler() inserts *)
(* without a lock, so an interrupt may go through the list between any two *)
(* stores of push_after(), which the model takes in the order of the       *)
(* source.  No handler changes the list, so an interrupt needs no action:  *)
(* it sees the Elements of the state in which it comes.  kmalloc is        *)
(* taken to succeed: an array with a cookie is never at address zero, so   *)
(* the test for a failed allocation (forward_list.hpp:92) cannot see one.  *)
(***************************************************************************)
EXTENDS Naturals, FiniteSets

CONSTANTS
  Value,            \* the elements
  Node,             \* memory for nodes
  before_begin_,    \* the dummy node
  nullptr           \* no node

VARIABLES
  next,      \* as in the code
  value_,    \* as in the code
  live,      \* the nodes that are allocated
  call,      \* the call in progress and its local variables
  removed    \* the local variable of remove()

vars == <<next, value_, live, call, removed>>

Idle == [op |-> "none", it |-> nullptr, node |-> nullptr, erase |-> {}]

Positions == live \cup {before_begin_}

Init ==
  /\ next = [n \in Node \cup {before_begin_} |-> nullptr]
  /\ value_ = [n \in Node |-> CHOOSE v \in Value : TRUE]
  /\ live = {}
  /\ call = Idle
  /\ removed = 0

-----------------------------------------------------------------------------
(* Iterators: the node that n applications of operator++ reach from it.    *)

advance(links, it, n) ==
  LET at[i \in 0 .. n] ==
        IF i = 0 THEN it
        ELSE IF at[i - 1] = nullptr THEN nullptr
        ELSE links[at[i - 1]]
  IN  at[n]

begin == next[before_begin_]

empty == begin = nullptr

\* The values that an iteration from begin() to end() meets.
Reached(links, values) ==
  LET at(n) == advance(links, links[before_begin_], n)
      length == CHOOSE n \in 0 .. Cardinality(Node) :
                  at(n) = nullptr /\ \A m \in 0 .. (n - 1) : at(m) # nullptr
  IN  [i \in 1 .. length |-> values[at(i - 1)]]

Elements == Reached(next, value_)

-----------------------------------------------------------------------------
(* push_after() and push_front() = push_after(before_begin(), value).      *)

\* allocate() constructs the node, then it gets its value.
push_after(after, node, value) ==
  /\ call = Idle
  /\ node \notin live
  /\ live' = live \cup {node}
  /\ next' = [next EXCEPT ![node] = nullptr]
  /\ value_' = [value_ EXCEPT ![node] = value]
  /\ call' = [Idle EXCEPT !.op = "link", !.it = after, !.node = node]
  /\ UNCHANGED removed

\* node->next = after->next
link_node ==
  /\ call.op = "link"
  /\ next' = [next EXCEPT ![call.node] = next[call.it]]
  /\ call' = [call EXCEPT !.op = "publish"]
  /\ UNCHANGED <<value_, live, removed>>

\* after->next = node
publish_node ==
  /\ call.op = "publish"
  /\ next' = [next EXCEPT ![call.it] = call.node]
  /\ call' = Idle
  /\ UNCHANGED <<value_, live, removed>>

-----------------------------------------------------------------------------
\* erase_after(after) of the base class, and the node is given back.
Erase(after) ==
  LET erased == next[after]
  IN  /\ next' = [next EXCEPT ![after] = next[erased]]
      /\ live' = live \ {erased}

\* erase_after() and pop_front() = erase_after(before_begin()): the caller
\* has made sure that there is an element to erase.
erase_after(position) ==
  /\ call = Idle
  /\ next[position] # nullptr
  /\ Erase(position)
  /\ UNCHANGED <<value_, call, removed>>

\* clear() and the destructor: pop_front() until the list is empty.
clear_begins ==
  /\ call = Idle
  /\ call' = [Idle EXCEPT !.op = "clear", !.erase = Value]
  /\ UNCHANGED <<next, value_, live, removed>>

clear_pops ==
  /\ call.op = "clear"
  /\ ~empty
  /\ Erase(before_begin_)
  /\ UNCHANGED <<value_, call, removed>>

clear_returns ==
  /\ call.op = "clear"
  /\ empty
  /\ call' = Idle
  /\ UNCHANGED <<next, value_, live, removed>>

\* remove(value): `it` stays one node behind the one that is looked at.
remove(value) ==
  /\ call = Idle
  /\ removed' = 0
  /\ call' = [Idle EXCEPT !.op = "remove", !.it = before_begin_, !.erase = {value}]
  /\ UNCHANGED <<next, value_, live>>

\* Mutant of remove_erases: the iterator moves on behind an erased element.
remove_erases_and_steps ==
  LET next_it == advance(next, call.it, 1)
  IN  /\ call.op = "remove"
      /\ next_it # nullptr
      /\ value_[next_it] \in call.erase
      /\ Erase(call.it)
      /\ removed' = removed + 1
      /\ call' = IF next[next_it] = nullptr
                 THEN call
                 ELSE [call EXCEPT !.it = next[next_it]]
      /\ UNCHANGED value_

remove_erases ==
  LET next_it == advance(next, call.it, 1)
  IN  /\ call.op = "remove"
      /\ next_it # nullptr
      /\ value_[next_it] \in call.erase
      /\ Erase(call.it)
      /\ removed' = removed + 1
      /\ UNCHANGED <<value_, call>>

remove_steps ==
  LET next_it == advance(next, call.it, 1)
  IN  /\ call.op = "remove"
      /\ next_it # nullptr
      /\ value_[next_it] \notin call.erase
      /\ call' = [call EXCEPT !.it = next_it]
      /\ UNCHANGED <<next, value_, live, removed>>

remove_returns ==
  /\ call.op = "remove"
  /\ advance(next, call.it, 1) = nullptr
  /\ call' = Idle
  /\ UNCHANGED <<next, value_, live, removed>>

-----------------------------------------------------------------------------
Next ==
  \/ \E after \in Positions, node \in Node, value \in Value :
       push_after(after, node, value)
  \/ link_node
  \/ publish_node
  \/ \E position \in Positions : erase_after(position)
  \/ clear_begins
  \/ clear_pops
  \/ clear_returns
  \/ \E value \in Value : remove(value)
  \/ remove_erases
  \/ remove_steps
  \/ remove_returns

Spec == Init /\ [][Next]_vars

-----------------------------------------------------------------------------
(* Properties.                                                             *)

\* The nodes implement the sequence of ForwardListSpec.  An interrupt that
\* goes through the list (dispatch_interrupt, irq.cpp:81) meets Elements:
\* between any two stores of push_after() these are the old sequence or the
\* new one, and remove() takes out exactly the equal elements, also those
\* next to each other (forward_list.hpp:369-384).
Abstract == INSTANCE ForwardListSpec WITH
              list <- Elements,
              erasing <- call.erase,
              counting <- call.op = "remove",
              Capacity <- Cardinality(Node)

ImplementsForwardListSpec == Abstract!Spec
=============================================================================
