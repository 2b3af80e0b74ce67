----------------------------- MODULE PageFrames -----------------------------
(***************************************************************************)
(* Page-frame arithmetic shared by the models of src/kernel/memory.        *)
(*                                                                         *)
(* A page_frame_t pointer is modelled by its page number, address divided  *)
(* by PAGE_SIZE, so that pointer differences in the code (counted in       *)
(* frames) are integer differences here.  nullptr is page number 0, which  *)
(* is never managed: the kernel's memory starts at 1 MiB.                  *)
(***************************************************************************)
EXTENDS Integers

CONSTANT MaxOrder      \* BUDDY_ALLOCATOR_MAX_ORDER, 10 in the code

Orders == 0..MaxOrder

ASSUME MaxOrderAssumption == MaxOrder \in Nat

(* Elementary facts about powers of two, stated because the proof          *)
(* backends do not evaluate exponentiation; TLC evaluates them.            *)
ASSUME PowersOfTwo ==
  /\ 2^0 = 1
  /\ \A order \in Orders : /\ 2^order \in Nat \ {0}
                           /\ 2^(order + 1) = 2 * 2^order

nullptr == 0

\* The pages of a block (pblk_t) that starts at ptr and has size pages.
Extent(ptr, size) == ptr .. (ptr + size - 1)

\* are_consequent of free_list.cpp, on page numbers.
are_consequent(first, second, order) == second - first = 2^order

\* is_the_first_in_buddy of free_list.cpp: bit `order` of the page number.
is_the_first_in_buddy(frame, order) == (frame \div 2^order) % 2 = 0

\* The frame is naturally aligned for a block of 2^order pages.
Aligned(frame, order) == frame % 2^order = 0

\* The other half of the block of order+1 that a block of order belongs to.
Buddy(frame, order) ==
  IF is_the_first_in_buddy(frame, order)
  THEN frame + 2^order
  ELSE frame - 2^order
=============================================================================
