---------------------------- MODULE FreeListSpec ----------------------------
(***************************************************************************)
(* What one free list of the buddy system promises (src/kernel/memory/     *)
(* include/free_list.hpp), with no links: a set of free blocks of one      *)
(* order.  get() returns the lowest of them; put() adds one or, if its     *)
(* buddy is there, takes the buddy out and returns the merged block.       *)
(* BuddyAllocator uses its lists in this view; FreeList implements it.     *)
(***************************************************************************)
EXTENDS PageFrames

CONSTANT Frames          \* the frames that may be put

VARIABLES
  order_,                \* the list's blocks have 2^order_ pages
  disable_squashing_,    \* put() never merges
  frames,                \* the free blocks
  ret,                   \* what the last call returned
  panicked               \* sanity_check() called panic(): it never does

vars == <<order_, disable_squashing_, frames, ret, panicked>>

Init ==
  /\ order_ \in Orders
  /\ disable_squashing_ = (order_ = MaxOrder)
  /\ frames = {}
  /\ ret = nullptr
  /\ panicked = FALSE

Get ==
  /\ \/ /\ frames = {}
        /\ ret' = nullptr
     \/ /\ ret' \in frames
        /\ \A f \in frames : ret' <= f
  /\ frames' = frames \ {ret'}
  /\ UNCHANGED <<order_, disable_squashing_, panicked>>

Insert(frame) ==
  /\ disable_squashing_ \/ Buddy(frame, order_) \notin frames
  /\ frames' = frames \cup {frame}
  /\ ret' = nullptr
  /\ UNCHANGED <<order_, disable_squashing_, panicked>>

Squash(frame) ==
  /\ ~disable_squashing_
  /\ Buddy(frame, order_) \in frames
  /\ frames' = frames \ {Buddy(frame, order_)}
  /\ ret' = IF is_the_first_in_buddy(frame, order_)
            THEN frame
            ELSE Buddy(frame, order_)
  /\ UNCHANGED <<order_, disable_squashing_, panicked>>

Next ==
  \/ Get
  \/ \E frame \in Frames \ frames : Insert(frame) \/ Squash(frame)

Spec == Init /\ [][Next]_vars
=============================================================================
