----------------------------- MODULE LinkedLists -----------------------------
(***************************************************************************)
(* The singly linked lists of the kernel, about which LinkedListProofs has *)
(* theorems: FreeList and forward_list.  They share no state.              *)
(***************************************************************************)
EXTENDS PageFrames, FiniteSets

CONSTANTS
  Frames, Words,                              \* of FreeList
  Node, before_begin_, no_node, Element       \* of ForwardList

\* No frame is page 0, and there are as many frames and nodes as there is
\* memory.  The dummy node is not one from kmalloc, and has an address.
ASSUME LinkedListsAssumption ==
  /\ Frames \subseteq Nat \ {0}
  /\ IsFiniteSet(Frames)
  /\ IsFiniteSet(Node)
  /\ before_begin_ \notin Node
  /\ no_node \notin Node \cup {before_begin_}

VARIABLES
  order_, disable_squashing_, list_, free_next, items, free_ret, panicked,
  fwd_next, value_, live, call, removed

Free == INSTANCE FreeList WITH next <- free_next, ret <- free_ret

Forward == INSTANCE ForwardList WITH
  Value <- Element, nullptr <- no_node, next <- fwd_next

\* See FreeList: the links behave as a set of blocks that merge, and
\* sanity_check() never panics.
ImplementsFreeListSpec == Free!ImplementsFreeListSpec

\* See ForwardList: the nodes behave as a sequence, for interrupts too.
ImplementsForwardListSpec == Forward!ImplementsForwardListSpec
=============================================================================
