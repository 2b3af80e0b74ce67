--------------------------- MODULE BuddyAllocator ---------------------------
(***************************************************************************)
(* memory::allocators::BuddyAllocator (src/kernel/memory/                  *)
(* buddy_allocator.cpp) over free lists that behave as FreeListSpec says.  *)
(*                                                                         *)
(* Each free list is represented by the set of the frames it links: the    *)
(* list is kept sorted by address, so the set determines it.  FreeList     *)
(* shows that the linked lists of free_list.cpp implement this view.       *)
(*                                                                         *)
(* put() is a loop whose body calls FreeList::put once per step; the       *)
(* variables hold its locals between two steps.  The callers hold the      *)
(* interrupt lock, so nothing else runs between the steps of one call.     *)
(***************************************************************************)
EXTENDS PageFrames

VARIABLES
  free_list_,       \* free_list_[order]: frames of the free blocks of 2^order pages
  blk,              \* put(): the part of its argument not yet put
  squashed_pages,   \* put(): the merged block to go one list up, or nullptr
  putting_list      \* put(): the list squashed_pages goes to (0: none)

buddyVars == <<free_list_, blk, squashed_pages, putting_list>>

\* Page blocks, pblk_t of buddy_allocator.hpp.
pblk_t == [ptr : Nat, size : Nat]

EmptyBlock == [ptr |-> nullptr, size |-> 0]

-----------------------------------------------------------------------------
(* One free list, as FreeList::put and FreeList::get present it.           *)

\* Mutant of Squashes: a frame merges only with the buddy behind it.
SquashesForward(frame, order) ==
  /\ order # MaxOrder
  /\ is_the_first_in_buddy(frame, order)
  /\ Buddy(frame, order) \in free_list_[order]

\* FreeList::put merges the frame with its buddy, if that is free.  The list
\* of order MaxOrder is the one initialized with disable_squashing.
Squashes(frame, order) ==
  /\ order # MaxOrder
  /\ Buddy(frame, order) \in free_list_[order]

\* Mutant of FreeListPut: the merged buddy stays in the list.
FreeListPutKeepsBuddy(frame, order) ==
  /\ free_list_' =
       [free_list_ EXCEPT ![order] = IF Squashes(frame, order)
                                     THEN @
                                     ELSE @ \cup {frame}]
  /\ squashed_pages' =
       IF ~Squashes(frame, order) THEN nullptr
       ELSE IF is_the_first_in_buddy(frame, order)
            THEN frame
            ELSE Buddy(frame, order)
  /\ putting_list' = IF Squashes(frame, order) THEN order + 1 ELSE 0

\* FreeList::put(frame) on list order: either the frame joins the list, or
\* its buddy leaves it and the first of the two is returned, to be put into
\* the next list.
FreeListPut(frame, order) ==
  /\ free_list_' =
       [free_list_ EXCEPT ![order] = IF Squashes(frame, order)
                                     THEN @ \ {Buddy(frame, order)}
                                     ELSE @ \cup {frame}]
  /\ squashed_pages' =
       IF ~Squashes(frame, order) THEN nullptr
       ELSE IF is_the_first_in_buddy(frame, order)
            THEN frame
            ELSE Buddy(frame, order)
  /\ putting_list' = IF Squashes(frame, order) THEN order + 1 ELSE 0

\* FreeList::get() on list order returns the head: the lowest address.
FreeListHead(frame, order) ==
  /\ frame \in free_list_[order]
  /\ \A other \in free_list_[order] : frame <= other

-----------------------------------------------------------------------------
\* compute_order(blk): the largest order, at most MaxOrder, for which the
\* address is aligned and the block is large enough.
compute_order(b) ==
  CHOOSE order \in Orders :
    /\ Aligned(b.ptr, order)
    /\ 2^order <= b.size
    /\ \A o \in Orders : Aligned(b.ptr, o) /\ 2^o <= b.size => o <= order

\* initialize(): every free list is empty.
BuddyInit ==
  free_list_ = [order \in Orders |-> {}]

\* put(b) is called.
PutBegin(b) ==
  /\ blk' = b
  /\ squashed_pages' = nullptr
  /\ putting_list' = 0

\* Mutant of PutBlock: the loop does not move on.
PutBlockAgain ==
  /\ blk.size > 0
  /\ squashed_pages = nullptr
  /\ FreeListPut(blk.ptr, compute_order(blk))
  /\ UNCHANGED blk

\* One round of the outer loop of put(): the largest aligned block that fits
\* goes to its own list.  blk is a local, advanced here rather than after
\* the inner loop.
PutBlock ==
  /\ blk.size > 0
  /\ squashed_pages = nullptr
  /\ LET order == compute_order(blk)
     IN  /\ FreeListPut(blk.ptr, order)
         /\ blk' = [ptr |-> blk.ptr + 2^order, size |-> blk.size - 2^order]

\* One round of the inner loop of put(): a merged block moves one list up.
PutSquashed ==
  /\ squashed_pages # nullptr
  /\ FreeListPut(squashed_pages, putting_list)
  /\ UNCHANGED blk

PutDone ==
  /\ blk.size = 0
  /\ squashed_pages = nullptr

\* get(pages) finds a block: the head of the first non-empty list among
\* those whose blocks are large enough.
GetFinds(pages, frame, order) ==
  /\ pages <= 2^order
  /\ FreeListHead(frame, order)
  /\ \A o \in Orders : o < order /\ pages <= 2^o => free_list_[o] = {}

\* Mutant of GetFails: only the list of the smallest sufficient blocks is
\* looked at.
GetFailsEarly(pages) ==
  \E order \in Orders :
    /\ pages <= 2^order
    /\ \A o \in Orders : pages <= 2^o => order <= o
    /\ free_list_[order] = {}

\* get(pages) fails: no list of large enough blocks has one, or there is no
\* such list (the request exceeds the largest block).
GetFails(pages) ==
  \A order \in Orders : pages <= 2^order => free_list_[order] = {}

\* get(pages) takes the block it found and puts back what exceeds the
\* request.
Get(pages, frame, order) ==
  /\ GetFinds(pages, frame, order)
  /\ free_list_' = [free_list_ EXCEPT ![order] = @ \ {frame}]
  /\ PutBegin([ptr |-> frame + pages, size |-> 2^order - pages])
=============================================================================
