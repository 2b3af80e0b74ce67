----------------------------- MODULE Mallocator -----------------------------
(***************************************************************************)
(* kmalloc and kfree: memory::allocators::Mallocator (src/kernel/memory/   *)
(* mallocator.cpp) and the slabs it is made of, memory::allocators::       *)
(* SlabAllocator (slab.cpp), on top of a page allocator that behaves as    *)
(* PageAllocatorSpec says.                                                 *)
(*                                                                         *)
(* Addresses are in bytes here.  Neither class has a lock; tasks are       *)
(* scheduled cooperatively and no interrupt handler allocates, so a call   *)
(* is one step.  PAGE_SIZE and the parameters that memory.cpp passes to    *)
(* initialize() are constants, for TLC to check small values of them.      *)
(***************************************************************************)
EXTENDS PageFrames, FiniteSetsExt

CONSTANTS
  FirstPage,       \* the pages the page allocator manages
  RegionEnd,
  PAGE_SIZE,       \* 4096
  chain_memory,    \* bytes in each slab of the chain, 1 MiB
  chain_length_,   \* number of slabs in the chain, 33
  SizeofSlab,      \* sizeof(SlabAllocator)
  Bytes,           \* bound: the arguments of kmalloc
  MaxHeld          \* bound: allocations that are held at the same time

ASSUME HeapAssumption ==
  /\ FirstPage \in Nat \ {0} /\ RegionEnd \in Nat
  /\ PAGE_SIZE \in Nat \ {0}
  /\ chain_memory \in Nat /\ chain_length_ \in Nat \ {0}
  /\ chain_memory >= 8                          \* every slab of the chain
  /\ chain_memory >= 16 * (chain_length_ - 1)   \* has an element
  /\ SizeofSlab \in Nat \ {0}
  /\ Bytes \subseteq Nat /\ MaxHeld \in Nat

VARIABLES
  blocks,            \* page allocator: the blocks it has given away
  page_ret,          \* page allocator: its last answer
  area_,             \* area_[s]: the first page of slab s, or nullptr
  allocation_map_,   \* allocation_map_[s]: the free chunks of slab s
  step,              \* initialize(): the slab that is next; then `ready`
  held               \* history: what the callers of kmalloc hold

heap_vars == <<blocks, page_ret, area_, allocation_map_, step, held>>

Pages == INSTANCE PageAllocatorSpec
           WITH live <- blocks, ret <- page_ret,
                MaxRequest <- RegionEnd - FirstPage

-----------------------------------------------------------------------------
(* Slabs.                                                                  *)

internal_allocator_ == -1
Chain == 0 .. (chain_length_ - 1)
Slabs == {internal_allocator_} \cup Chain

\* The values of step after initialize().
ready == chain_length_
heap_panicked == -2

align_up(value, boundary) ==
  IF value % boundary # 0
  THEN value - (value % boundary) + boundary
  ELSE value

\* BitArray::expected_size(elems), in bytes.
expected_size(elems) ==
  IF elems % 8 # 0 THEN elems \div 8 + 1 ELSE elems \div 8

chain_unit_size(index) == IF index = 0 THEN 8 ELSE index * 16

\* The arguments that Mallocator::initialize passes to the slab's.
elem_size_(s) ==
  IF s = internal_allocator_
  THEN SizeofSlab * chain_length_
  ELSE chain_unit_size(s)
nelems_(s) ==
  IF s = internal_allocator_ THEN 1 ELSE chain_memory \div elem_size_(s)

\* The map precedes the elements in the slab's area.
required_pages(s) ==
  align_up(elem_size_(s) * nelems_(s) + expected_size(nelems_(s)), PAGE_SIZE)
    \div PAGE_SIZE

memory_(s) == area_[s] * PAGE_SIZE + expected_size(nelems_(s))

owns(s, memory) ==
  /\ memory_(s) <= memory
  /\ memory < memory_(s) + nelems_(s) * elem_size_(s)

-----------------------------------------------------------------------------
(* Initialization.                                                         *)

HeapInit ==
  /\ Pages!Init
  /\ area_ = [s \in Slabs |-> nullptr]
  /\ allocation_map_ = [s \in Slabs |-> {}]
  /\ step = internal_allocator_
  /\ held = {}

\* One slab is initialized: first internal_allocator_, whose only element is
\* allocated at once for the chain, then the slabs of the chain in order.
InitializeSlab ==
  /\ step \in Slabs
  /\ Pages!Allocate(required_pages(step))
  /\ area_' = [area_ EXCEPT ![step] = page_ret'.ptr]
  /\ allocation_map_' =
       [allocation_map_ EXCEPT
          ![step] = IF step = internal_allocator_
                    THEN {}
                    ELSE 0 .. (nelems_(step) - 1)]
  /\ step' = step + 1
  /\ UNCHANGED held

\* "Initializing of internal allocator failed!", "Initializing of chain
\* failed!"
InitializePanics ==
  /\ step \in Slabs
  /\ Pages!AllocateFails(required_pages(step))
  /\ step' = heap_panicked
  /\ UNCHANGED <<area_, allocation_map_, held>>

-----------------------------------------------------------------------------
(* allocate and deallocate.                                                *)

\* Mutant of slab_idx: the size is rounded down.
slab_idx_down(bytes) ==
  IF bytes <= 8 THEN 0 ELSE Min({bytes \div 16, chain_length_})

\* The slab allocate(bytes) looks at first; chain_length_ for none.
slab_idx(bytes) ==
  IF bytes <= 8 THEN 0
  ELSE Min({align_up(bytes, 16) \div 16, chain_length_})

HasFree(s) == allocation_map_[s] # {}

Allocation(ptr, bytes) == [ptr |-> ptr, bytes |-> bytes]

\* Mutant of KmallocFromSlab: the chunk is not marked.
KmallocFromSlabUnmarked(bytes) ==
  /\ step = ready
  /\ \E s \in slab_idx(bytes) .. (chain_length_ - 1) :
       /\ HasFree(s)
       /\ held' = held \cup
            {Allocation(memory_(s) + Min(allocation_map_[s]) * elem_size_(s),
                        bytes)}
  /\ UNCHANGED <<blocks, page_ret, area_, allocation_map_, step>>

\* The first slab from slab_idx on that has a free chunk gives its first.
KmallocFromSlab(bytes) ==
  /\ step = ready
  /\ \E s \in slab_idx(bytes) .. (chain_length_ - 1) :
       /\ HasFree(s)
       /\ \A other \in slab_idx(bytes) .. (s - 1) : ~HasFree(other)
       /\ LET chunk == Min(allocation_map_[s])
          IN  /\ allocation_map_' = [allocation_map_ EXCEPT ![s] = @ \ {chunk}]
              /\ held' = held \cup
                   {Allocation(memory_(s) + chunk * elem_size_(s), bytes)}
  /\ UNCHANGED <<blocks, page_ret, area_, step>>

SlabsAreFull(bytes) ==
  \A s \in slab_idx(bytes) .. (chain_length_ - 1) : ~HasFree(s)

\* The fallback_ page allocator answers.  Nobody is given zero_size_page to
\* hold: it has no bytes, and deallocate() ignores it.
KmallocPages(bytes) ==
  /\ step = ready
  /\ SlabsAreFull(bytes)
  /\ LET pages == align_up(bytes, PAGE_SIZE) \div PAGE_SIZE
     IN  \/ /\ pages = 0
            /\ Pages!AllocateZero
            /\ UNCHANGED held
         \/ /\ pages > 0
            /\ Pages!Allocate(pages)
            /\ held' = held \cup {Allocation(page_ret'.ptr * PAGE_SIZE, bytes)}
         \/ /\ pages > 0
            /\ Pages!AllocateFails(pages)
            /\ UNCHANGED held
  /\ UNCHANGED <<area_, allocation_map_, step>>

\* deallocate() finds a slab that owns the memory.
KfreeToSlab(h) ==
  /\ step = ready
  /\ \E s \in Chain :
       /\ owns(s, h.ptr)
       /\ \A other \in 0 .. (s - 1) : ~owns(other, h.ptr)
       /\ LET chunk == (h.ptr - memory_(s)) \div elem_size_(s)
          IN  allocation_map_' = [allocation_map_ EXCEPT ![s] = @ \cup {chunk}]
  /\ held' = held \ {h}
  /\ UNCHANGED <<blocks, page_ret, area_, step>>

\* deallocate() hands the memory to fallback_.
KfreePages(h) ==
  /\ step = ready
  /\ \A s \in Chain : ~owns(s, h.ptr)
  /\ \E b \in blocks :
       /\ b.ptr * PAGE_SIZE = h.ptr
       /\ Pages!Deallocate(b)
  /\ held' = held \ {h}
  /\ UNCHANGED <<area_, allocation_map_, step>>

HeapNext ==
  \/ InitializeSlab
  \/ InitializePanics
  \/ \E bytes \in Bytes :
       /\ Cardinality(held) < MaxHeld
       /\ KmallocFromSlab(bytes) \/ KmallocPages(bytes)
  \/ \E h \in held : KfreeToSlab(h) \/ KfreePages(h)

HeapSpec == HeapInit /\ [][HeapNext]_heap_vars

-----------------------------------------------------------------------------
(* Properties.                                                             *)

\* The bytes that the allocator itself uses: every slab's map and the chain.
OwnBytes ==
  (UNION {Extent(area_[s] * PAGE_SIZE, expected_size(nelems_(s))) : s \in Slabs})
    \cup Extent(memory_(internal_allocator_), elem_size_(internal_allocator_))

\* What a caller may write to: the bytes it asked for (and its address is
\* its own, even if it asked for none).
BytesOf(h) == Extent(h.ptr, Max({h.bytes, 1}))

\* No two callers of kmalloc share a byte, none is given a byte of the
\* allocator's own data or of a free page, whether the memory came from the
\* right slab, a larger one or the page allocator (mallocator.cpp:40-64,
\* slab.cpp:18-61).
AllocationsAreDisjoint ==
  step = ready =>
    /\ \A h \in held :
         /\ BytesOf(h) \cap OwnBytes = {}
         /\ \E b \in blocks :
              BytesOf(h) \subseteq Extent(b.ptr * PAGE_SIZE, b.size * PAGE_SIZE)
    /\ \A g, h \in held : g # h => BytesOf(g) \cap BytesOf(h) = {}

\* kfree gives memory back to where kmalloc took it, whatever was freed in
\* between: a chunk is free exactly if nobody holds it, and the pages in use
\* are those of the slabs and of the callers (mallocator.cpp:67-79,
\* slab.cpp:64-92).
FreedMemoryReturns ==
  step = ready =>
    /\ \A s \in Chain : \A chunk \in 0 .. (nelems_(s) - 1) :
         chunk \in allocation_map_[s]
           <=> \A h \in held : h.ptr # memory_(s) + chunk * elem_size_(s)
    /\ {b.ptr : b \in blocks} =
         {area_[s] : s \in Slabs}
           \cup {h.ptr \div PAGE_SIZE :
                   h \in {g \in held : \A s \in Chain : ~owns(s, g.ptr)}}
=============================================================================
