---------------------------- MODULE PageAllocator ----------------------------
(***************************************************************************)
(* memory::allocators::PageAllocator (src/kernel/memory/                   *)
(* page_allocator.cpp) on top of the buddy system.                         *)
(*                                                                         *)
(* allocate() and deallocate() run under thr::RecursiveIrqGuard on one     *)
(* CPU, so a call runs to its end before another begins: `call` names the  *)
(* one in progress.  The clients (alloc_pages and free_pages of            *)
(* memory.hpp) are task code that frees only what it was given and not yet *)
(* freed.                                                                  *)
(***************************************************************************)
EXTENDS BuddyAllocator

CONSTANTS
  RegionBegin,   \* region->begin(), a page number
  RegionEnd,     \* region->end(): the first page behind the region
  FirstFree,     \* first_free: the first page behind the kernel image
  MaxRequest     \* bound: the largest number of pages a client asks for

\* Page with zero size: address 0x10, which is the number of no page.
zero_size_page == -1

\* What allocate() answers to a request; NoAnswer before the first one and
\* after a deallocate().
Answer(pages, ptr) == [pages |-> pages, ptr |-> ptr]
NoAnswer == Answer(0, nullptr)
Answers == [pages : Nat, ptr : Nat \cup {zero_size_page}]

PAGE_SIZE == 4096

\* region->size() and region->index_of(frame).
RegionSize == RegionEnd - RegionBegin
index_of(frame) == frame - RegionBegin

\* BitArray::expected_size(elems), in bytes.
expected_size(elems) ==
  IF elems % 8 # 0 THEN elems \div 8 + 1 ELSE elems \div 8

\* The pages that initialize() sets aside for map_.
MapSize == (expected_size(RegionSize) + PAGE_SIZE - 1) \div PAGE_SIZE

\* The first page handed to the buddy system.
FirstPage == FirstFree + MapSize

ASSUME RegionAssumption ==
  /\ RegionBegin \in Nat \ {0}
  /\ RegionEnd \in Nat
  /\ FirstFree \in Nat
  /\ RegionBegin <= FirstFree
  /\ MapSize \in Nat
  /\ FirstPage < RegionEnd

ASSUME MaxRequestAssumption == MaxRequest \in Nat

VARIABLES
  map_,          \* the indices of the bits that are set in map_
  call,          \* the call in progress, or "none"
  free_memory,   \* allocate(): the block that get() returned
  ret,           \* history: the last request and what allocate() returned
  live           \* history: the blocks the clients hold

vars == <<free_list_, blk, squashed_pages, putting_list,
          map_, call, free_memory, ret, live>>

Managed == FirstPage .. (RegionEnd - 1)

-----------------------------------------------------------------------------
\* initialize(): the whole region behind the kernel and the map is put into
\* the buddy system (the steps of put follow), the map starts cleared.
Init ==
  /\ BuddyInit
  /\ blk = [ptr |-> FirstPage, size |-> RegionEnd - FirstPage]
  /\ squashed_pages = nullptr
  /\ putting_list = 0
  /\ map_ = {}
  /\ call = "initialize"
  /\ free_memory = EmptyBlock
  /\ ret = NoAnswer
  /\ live = {}

InitializeReturns ==
  /\ call = "initialize"
  /\ PutDone
  /\ call' = "none"
  /\ UNCHANGED <<buddyVars, map_, free_memory, ret, live>>

\* allocate(0): "zero-size allocation should return valid address!"
AllocateZero ==
  /\ call = "none"
  /\ ret' = Answer(0, zero_size_page)
  /\ UNCHANGED <<buddyVars, map_, call, free_memory, live>>

\* allocate(pages), the buddy system has no block: nullptr.
AllocateFails(pages) ==
  /\ call = "none"
  /\ GetFails(pages)
  /\ ret' = Answer(pages, nullptr)
  /\ UNCHANGED <<buddyVars, map_, call, free_memory, live>>

\* allocate(pages) up to the put() of what get() took too much.
AllocateBegin(pages) ==
  /\ call = "none"
  /\ \E order \in Orders : \E frame \in free_list_[order] :
       /\ Get(pages, frame, order)
       /\ free_memory' = [ptr |-> frame, size |-> pages]
  /\ call' = "allocate"
  /\ UNCHANGED <<map_, ret, live>>

\* allocate() marks the last page of the block and returns it.
AllocateReturns ==
  /\ call = "allocate"
  /\ PutDone
  /\ map_' = map_ \cup {index_of(free_memory.ptr) + free_memory.size - 1}
  /\ ret' = Answer(free_memory.size, free_memory.ptr)
  /\ live' = live \cup {free_memory}
  /\ call' = "none"
  /\ free_memory' = EmptyBlock
  /\ UNCHANGED buddyVars

\* deallocate(nullptr) and deallocate(zero_size_page) return at once: a step
\* that changes nothing, hence no action.

\* deallocate() scans map_ from the block's first page for the first set
\* bit; without one it runs to the end of the region.
ScanStops(index, last) ==
  /\ last \in index .. (RegionSize - 1)
  /\ \A i \in index .. (last - 1) : i \notin map_
  /\ last \in map_ \/ last = RegionSize - 1

\* Mutant of DeallocateBegin: the mark of the last page is not cleared.
DeallocateKeepsMark(b) ==
  /\ call = "none"
  /\ b \in live
  /\ \E last \in 0 .. (RegionSize - 1) :
       /\ ScanStops(index_of(b.ptr), last)
       /\ PutBegin([ptr |-> b.ptr, size |-> last - index_of(b.ptr) + 1])
  /\ live' = live \ {b}
  /\ call' = "deallocate"
  /\ ret' = NoAnswer
  /\ UNCHANGED <<free_list_, map_, free_memory>>

\* deallocate(b.ptr) up to its put().
DeallocateBegin(b) ==
  /\ call = "none"
  /\ b \in live
  /\ \E last \in 0 .. (RegionSize - 1) :
       /\ ScanStops(index_of(b.ptr), last)
       /\ map_' = map_ \ {last}
       /\ PutBegin([ptr |-> b.ptr, size |-> last - index_of(b.ptr) + 1])
  /\ live' = live \ {b}
  /\ call' = "deallocate"
  /\ ret' = NoAnswer
  /\ UNCHANGED <<free_list_, free_memory>>

DeallocateReturns ==
  /\ call = "deallocate"
  /\ PutDone
  /\ call' = "none"
  /\ UNCHANGED <<buddyVars, map_, free_memory, ret, live>>

\* A step of the put() loop inside initialize, allocate or deallocate.
PutStep ==
  /\ call # "none"
  /\ PutBlock \/ PutSquashed
  /\ UNCHANGED <<map_, call, free_memory, ret, live>>

Request == 1..MaxRequest

Next ==
  \/ InitializeReturns
  \/ AllocateZero
  \/ \E pages \in Request : AllocateFails(pages)
  \/ \E pages \in Request : AllocateBegin(pages)
  \/ AllocateReturns
  \/ \E b \in live : DeallocateBegin(b)
  \/ DeallocateReturns
  \/ PutStep

Spec == Init /\ [][Next]_vars

\* A call, once begun, is executed: interrupts are off and the CPU goes on.
Fairness ==
  WF_vars(InitializeReturns \/ AllocateReturns \/ DeallocateReturns \/ PutStep)

FairSpec == Spec /\ Fairness

-----------------------------------------------------------------------------
(* Properties.                                                             *)

\* Every variable keeps its type; in particular put() never indexes
\* free_list_ beyond MaxOrder (free_list_ has MAX_ORDER + 1 elements).
TypeOK ==
  /\ free_list_ \in [Orders -> SUBSET Nat]
  /\ blk \in pblk_t
  /\ squashed_pages \in Nat
  /\ putting_list \in Orders
  /\ map_ \in SUBSET Nat
  /\ call \in {"none", "initialize", "allocate", "deallocate"}
  /\ free_memory \in pblk_t
  /\ ret \in Answers
  /\ live \in SUBSET pblk_t

\* Everything that owns pages at this moment: the blocks of the free lists,
\* the locals of a put() or an allocate() in progress, the clients' blocks.
Ext(own, list, ptr, size) ==
  [own |-> own, list |-> list, ptr |-> ptr, size |-> size]

FreeExtents ==
  UNION {{Ext("free", order, frame, 2^order) : frame \in free_list_[order]}
           : order \in Orders}

PutExtents ==
  IF blk.size > 0 THEN {Ext("put", 0, blk.ptr, blk.size)} ELSE {}

SquashedExtents ==
  IF squashed_pages # nullptr
  THEN {Ext("squashed", putting_list, squashed_pages, 2^putting_list)}
  ELSE {}

AllocateExtents ==
  IF free_memory.size > 0
  THEN {Ext("allocate", 0, free_memory.ptr, free_memory.size)}
  ELSE {}

ClientExtents == {Ext("client", 0, b.ptr, b.size) : b \in live}

Extents ==
  FreeExtents \cup SquashedExtents
    \cup PutExtents \cup AllocateExtents \cup ClientExtents

Disjoint(e1, e2) ==
  \/ e1.ptr + e1.size <= e2.ptr
  \/ e2.ptr + e2.size <= e1.ptr

\* The extents of E are pairwise disjoint and make up the managed pages.
PartitionsManaged(E) ==
  /\ \A e1, e2 \in E : e1 # e2 => Disjoint(e1, e2)
  /\ \A e \in E : FirstPage <= e.ptr /\ e.ptr + e.size <= RegionEnd
  /\ \A page \in Managed : \E e \in E : page \in Extent(e.ptr, e.size)

\* At every step of every call each managed page has exactly one owner: no
\* page is handed to two clients, is free while a client holds it or is in
\* two free lists, and none is lost by the splits of get() and the merges
\* of put() (buddy_allocator.cpp:22-96, page_allocator.cpp:37-79).
PagesHaveOneOwner == PartitionsManaged(Extents)

\* map_ marks exactly the last pages of the blocks the clients hold, so that
\* the scan of deallocate() finds the size allocate() was given
\* (page_allocator.cpp:50-52 and 69-76).
MapMarksLastPages ==
  map_ = {index_of(b.ptr) + b.size - 1 : b \in live}

\* The inductive invariant behind the three properties above: the locals of
\* put() are in use only during a call, those of allocate() only in it.
CallState ==
  /\ call = "none" => PutDone
  /\ free_memory.size > 0 <=> call = "allocate"
  /\ \A b \in live : b.size > 0

IInv == TypeOK /\ CallState /\ MapMarksLastPages /\ PagesHaveOneOwner

\* Between calls the free lists are the coarsest ones for the pages that are
\* free: a free aligned block is in its list unless the block around it is
\* free as well.  Hence the lists depend only on which pages are free, and
\* not on the order in which they were freed.
FreeListsCoalesced ==
  LET Free == Managed \ UNION {Extent(b.ptr, b.size) : b \in live}
      IsFree(frame, order) == Extent(frame, 2^order) \subseteq Free
  IN  call = "none" =>
        \A order \in Orders :
          free_list_[order] =
            {frame \in Managed :
               /\ Aligned(frame, order)
               /\ IsFree(frame, order)
               /\ order = MaxOrder
                  \/ ~IsFree(Buddy(frame, order), order)}

\* Every call of the allocator returns: the loops of put() end.
CallsReturn == call # "none" ~> call = "none"

\* The allocator keeps the promises of PageAllocatorSpec: an allocation takes
\* effect when it returns, a deallocation when it begins.
Abstract == INSTANCE PageAllocatorSpec

ImplementsPageAllocatorSpec == Abstract!Spec
=============================================================================
