-------------------------- MODULE PageAllocatorSpec --------------------------
(***************************************************************************)
(* What alloc_pages and free_pages (src/kernel/memory/include/             *)
(* bolgenos-ng/memory.hpp) promise their callers, each call one step:      *)
(*   - a block of exactly the requested number of pages that no other      *)
(*     client holds;                                                       *)
(*   - a distinguished valid address for a request of zero pages;          *)
(*   - nullptr only if no naturally aligned power-of-two run of free pages *)
(*     is large enough: freed memory is always available again.            *)
(* PageAllocator implements this specification.                            *)
(***************************************************************************)
EXTENDS PageFrames

CONSTANTS
  FirstPage,     \* the first page the allocator manages
  RegionEnd,     \* the first page behind the managed ones
  MaxRequest     \* bound: the largest number of pages a client asks for

VARIABLES
  live,          \* the blocks the clients hold
  ret            \* the answer to the last allocation, until the next call

vars == <<live, ret>>

zero_size_page == -1

\* What alloc_pages answers to a request; NoAnswer before the first one and
\* after a deallocation.
Answer(pages, ptr) == [pages |-> pages, ptr |-> ptr]
NoAnswer == Answer(0, nullptr)

Managed == FirstPage .. (RegionEnd - 1)

FreePages == Managed \ UNION {Extent(b.ptr, b.size) : b \in live}

\* Some free block of a size the buddy system deals in holds `pages` pages.
HasRunFor(pages) ==
  \E order \in Orders, frame \in Managed :
    /\ pages <= 2^order
    /\ Aligned(frame, order)
    /\ Extent(frame, 2^order) \subseteq FreePages

Init ==
  /\ live = {}
  /\ ret = NoAnswer

AllocateZero ==
  /\ ret' = Answer(0, zero_size_page)
  /\ UNCHANGED live

Allocate(pages) ==
  \E frame \in Managed :
    /\ Extent(frame, pages) \subseteq FreePages
    /\ live' = live \cup {[ptr |-> frame, size |-> pages]}
    /\ ret' = Answer(pages, frame)

AllocateFails(pages) ==
  /\ ~HasRunFor(pages)
  /\ ret' = Answer(pages, nullptr)
  /\ UNCHANGED live

Deallocate(b) ==
  /\ live' = live \ {b}
  /\ ret' = NoAnswer

Next ==
  \/ AllocateZero
  \/ \E pages \in 1..MaxRequest : Allocate(pages) \/ AllocateFails(pages)
  \/ \E b \in live : Deallocate(b)

Spec == Init /\ [][Next]_vars
=============================================================================
