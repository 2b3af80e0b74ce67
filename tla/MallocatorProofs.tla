-------------------------- MODULE MallocatorProofs --------------------------
(***************************************************************************)
(* Allocations are disjoint and freed memory returns, for every number and *)
(* size of slabs and pages and every sequence of calls.                    *)
(*                                                                         *)
(* The argument: an address lies in the bytes of at most one block of the  *)
(* page allocator.  Each slab has a block, and each allocation is either a *)
(* chunk of a slab, which the slab's map does not have, or a block that is *)
(* no slab's; conversely each such chunk and block is held.                *)
(***************************************************************************)
EXTENDS Mallocator, WellFoundedInduction, TLAPS

SlabBlock(s) == [ptr |-> area_[s], size |-> required_pages(s)]
ChunkPtr(s, chunk) == memory_(s) + chunk * elem_size_(s)
Chunks(s) == 0 .. (nelems_(s) - 1)

Types ==
  /\ blocks \in SUBSET [ptr : Nat, size : Nat \ {0}]
  /\ area_ \in [Slabs -> Nat]
  /\ allocation_map_ \in [Slabs -> SUBSET Nat]
  /\ step \in Slabs \cup {ready, heap_panicked}
  /\ held \in SUBSET [ptr : Nat, bytes : Nat]

\* The page allocator's blocks are disjoint.
BlocksInv ==
  \A b, c \in blocks : b # c => b.ptr + b.size <= c.ptr \/ c.ptr + c.size <= b.ptr

\* Every initialized slab has a block of its own.
SlabsInv ==
  /\ \A s \in Slabs : s < step => SlabBlock(s) \in blocks
  /\ \A s, r \in Slabs : s < step /\ r < step /\ area_[s] = area_[r] => s = r
  /\ \A s \in Chain : s < step => allocation_map_[s] \subseteq Chunks(s)

\* Where an allocation may come from.
FromSlab(h) ==
  \E s \in Chain : \E chunk \in Chunks(s) :
    /\ chunk \notin allocation_map_[s]
    /\ h.ptr = ChunkPtr(s, chunk)
    /\ h.bytes <= elem_size_(s)

FromPages(h) ==
  \E b \in blocks :
    /\ \A s \in Slabs : area_[s] # b.ptr
    /\ h.ptr = b.ptr * PAGE_SIZE
    /\ h.bytes > 0
    /\ h.bytes <= b.size * PAGE_SIZE

HeldInv ==
  /\ step # ready => held = {}
  /\ \A h \in held : FromSlab(h) \/ FromPages(h)
  /\ \A g, h \in held : g.ptr = h.ptr => g = h

\* Nothing is lost: what is neither free nor a slab's is held.
ReturnInv ==
  step # heap_panicked =>
    /\ \A s \in Chain : \A chunk \in Chunks(s) :
         s < step /\ chunk \notin allocation_map_[s]
           => \E h \in held : h.ptr = ChunkPtr(s, chunk)
    /\ \A b \in blocks :
         \/ \E s \in Slabs : s < step /\ area_[s] = b.ptr
         \/ \E h \in held : h.ptr = b.ptr * PAGE_SIZE

IInv == Types /\ BlocksInv /\ SlabsInv /\ HeldInv /\ ReturnInv

-----------------------------------------------------------------------------
(* Arithmetic.                                                             *)

\* The order on the natural numbers, as a set of pairs, is well founded.
LEMMA LessIsWellFounded ==
  IsWellFoundedOn({ss \in Nat \X Nat : ss[1] < ss[2]}, Nat)
<1>1. {ss \in Nat \X Nat : ss[1] < ss[2]} = OpToRel(<, Nat)
  BY Zenon DEF OpToRel
<1>. QED BY <1>1, NatLessThanWellFounded, Zenon

\* The first free chunk of a slab exists if there is any (slab.cpp:43-52).
LEMMA MinIsElement ==
  ASSUME NEW T \in SUBSET Nat, T # {}
  PROVE  Min(T) \in T
<1>. DEFINE Less == {ss \in Nat \X Nat : ss[1] < ss[2]}
<1>1. PICK x \in T : \A y \in T : ~ (<<y, x>> \in Less)
  BY WFMin, LessIsWellFounded
<1>2. \A y \in T : x <= y
  <2>. SUFFICES ASSUME NEW y \in T PROVE x <= y
    OBVIOUS
  <2>1. ~ (<<y, x>> \in Less)
    BY <1>1
  <2>2. y < x => <<y, x>> \in Less
    OBVIOUS
  <2>. QED BY <2>1, <2>2
<1>. HIDE DEF Less
<1>. QED BY <1>2 DEF Min

\* Multiplication keeps the order.
LEMMA Scale ==
  ASSUME NEW a \in Nat, NEW b \in Nat, NEW k \in Nat, a <= b
  PROVE  a * k <= b * k /\ a * k \in Nat /\ b * k \in Nat
  BY Z3

\* Products of natural numbers.
LEMMA Products ==
  ASSUME NEW x \in Nat, NEW y \in Nat \ {0}, NEW z \in Nat \ {0}
  PROVE  x * z \in Nat /\ y * z \in Nat \ {0} /\ (x + y) * z = x * z + y * z
  BY Z3

\* Quotient and remainder.
LEMMA DivMod ==
  ASSUME NEW a \in Nat, NEW b \in Nat \ {0}
  PROVE  /\ a \div b \in Nat
         /\ a % b \in 0 .. (b - 1)
         /\ a = b * (a \div b) + (a % b)
  BY Z3

\* The quotient is determined by what it leaves.
LEMMA QuotientIsUnique ==
  ASSUME NEW b \in Nat \ {0}, NEW q \in Nat, NEW r \in 0 .. (b - 1)
  PROVE  (q * b + r) \div b = q
<1>. DEFINE a == q * b + r
<1>0. q * b \in Nat
  BY Z3
<1>1. a \in Nat
  BY <1>0
<1>2. a \div b \in Nat /\ a % b \in 0 .. (b - 1) /\ a = b * (a \div b) + (a % b)
  BY <1>1, DivMod
<1>3. ASSUME NEW p \in Nat, NEW t \in 0 .. (b - 1), b * p + t = q * b + r
      PROVE  p = q
  <2>1. CASE p < q
    <3>1. (p + 1) * b <= q * b
      BY <2>1, Scale
    <3>2. (p + 1) * b = b * p + b
      BY Z3
    <3>. QED BY <1>0, <1>3, <3>1, <3>2, Z3
  <2>2. CASE q < p
    <3>1. (q + 1) * b <= p * b
      BY <2>2, Scale
    <3>2. (q + 1) * b = q * b + b /\ p * b = b * p
      BY Z3
    <3>. QED BY <1>0, <1>3, <3>1, <3>2, Z3
  <2>. QED BY <2>1, <2>2
<1>. QED BY <1>2, <1>3

\* The pages that an amount of bytes needs hold them, and are none only for
\* no bytes (mallocator.cpp:60, slab.cpp:24-28).
LEMMA PagesHoldBytes ==
  ASSUME NEW bytes \in Nat
  PROVE  LET pages == align_up(bytes, PAGE_SIZE) \div PAGE_SIZE
         IN  pages \in Nat /\ bytes <= pages * PAGE_SIZE /\ (pages = 0 => bytes = 0)
<1>. DEFINE q == bytes \div PAGE_SIZE
            r == bytes % PAGE_SIZE
            pages == align_up(bytes, PAGE_SIZE) \div PAGE_SIZE
<1>0. PAGE_SIZE \in Nat \ {0}
  BY HeapAssumption
<1>1. q \in Nat /\ r \in 0 .. (PAGE_SIZE - 1) /\ bytes = PAGE_SIZE * q + r
  BY <1>0, DivMod
<1>2. PAGE_SIZE * q = q * PAGE_SIZE /\ q * PAGE_SIZE \in Nat
      /\ (q + 1) * PAGE_SIZE = q * PAGE_SIZE + PAGE_SIZE
  BY <1>0, <1>1, Z3
<1>3. CASE r = 0
  <2>1. align_up(bytes, PAGE_SIZE) = q * PAGE_SIZE + 0
    BY <1>0, <1>1, <1>2, <1>3 DEF align_up
  <2>2. pages = q
    BY <1>0, <1>1, <2>1, QuotientIsUnique
  <2>. QED BY <1>0, <1>1, <1>2, <1>3, <2>2
<1>4. CASE r # 0
  <2>1. align_up(bytes, PAGE_SIZE) = (q + 1) * PAGE_SIZE + 0
    BY <1>0, <1>1, <1>2, <1>4 DEF align_up
  <2>2. pages = q + 1
    BY <1>0, <1>1, <2>1, QuotientIsUnique
  <2>. QED BY <1>0, <1>1, <1>2, <2>2
<1>. QED BY <1>3, <1>4
-----------------------------------------------------------------------------
(* Slabs.                                                                  *)

\* Every slab has elements, and its pages hold them and the map
\* (mallocator.cpp:14-37, slab.cpp:18-41).
LEMMA Sizes ==
  ASSUME NEW s \in Slabs
  PROVE  /\ elem_size_(s) \in Nat \ {0}
         /\ nelems_(s) \in Nat \ {0}
         /\ expected_size(nelems_(s)) \in Nat
         /\ required_pages(s) \in Nat \ {0}
         /\ nelems_(s) * elem_size_(s) \in Nat
         /\ nelems_(s) * elem_size_(s) + expected_size(nelems_(s))
              <= required_pages(s) * PAGE_SIZE
<1>1. elem_size_(s) \in Nat \ {0}
  <2>1. CASE s = internal_allocator_
    <3>1. SizeofSlab \in Nat \ {0} /\ chain_length_ \in Nat \ {0}
      BY HeapAssumption
    <3>2. SizeofSlab * chain_length_ \in Nat \ {0}
      BY <3>1, Z3
    <3>. QED BY <2>1, <3>2 DEF elem_size_
  <2>2. CASE s # internal_allocator_
    BY <2>2, HeapAssumption DEF elem_size_, chain_unit_size, Slabs, Chain
  <2>. QED BY <2>1, <2>2
<1>2. nelems_(s) \in Nat \ {0}
  <2>1. CASE s = internal_allocator_
    BY <2>1 DEF nelems_
  <2>2. CASE s # internal_allocator_
    <3>1. elem_size_(s) <= chain_memory /\ chain_memory \in Nat
      BY <2>2, HeapAssumption DEF elem_size_, chain_unit_size, Slabs, Chain
    <3>2. \A e \in Nat \ {0}, m \in Nat : e <= m => m \div e \in Nat \ {0}
      <4>. SUFFICES ASSUME NEW e \in Nat \ {0}, NEW m \in Nat, e <= m
                    PROVE  m \div e \in Nat \ {0}
        OBVIOUS
      <4>1. m \div e \in Nat /\ m % e \in 0 .. (e - 1) /\ m = e * (m \div e) + (m % e)
        BY DivMod
      <4>2. ASSUME m \div e = 0 PROVE FALSE
        <5>1. e * 0 = 0
          OBVIOUS
        <5>. QED BY <4>1, <4>2, <5>1
      <4>. QED BY <4>1, <4>2
    <3>. QED BY <1>1, <2>2, <3>1, <3>2 DEF nelems_
  <2>. QED BY <2>1, <2>2
<1>3. expected_size(nelems_(s)) \in Nat
  BY <1>2 DEF expected_size
<1>4. \A n, e \in Nat \ {0} : n * e \in Nat \ {0} /\ n * e = e * n
  BY Z3
<1>5. /\ elem_size_(s) * nelems_(s) \in Nat \ {0}
      /\ nelems_(s) * elem_size_(s) = elem_size_(s) * nelems_(s)
  BY <1>1, <1>2, <1>4
<1>. DEFINE bytes == elem_size_(s) * nelems_(s) + expected_size(nelems_(s))
<1>6. bytes \in Nat \ {0}
  BY <1>3, <1>5
<1>7. /\ required_pages(s) = align_up(bytes, PAGE_SIZE) \div PAGE_SIZE
      /\ required_pages(s) \in Nat
      /\ bytes <= required_pages(s) * PAGE_SIZE
      /\ required_pages(s) = 0 => bytes = 0
  BY <1>6, PagesHoldBytes DEF required_pages
<1>. QED BY <1>1, <1>2, <1>3, <1>5, <1>6, <1>7

\* The slab that is tried first has elements that are large enough, and so
\* has every later one (mallocator.cpp:40-52).
LEMMA SlabFits ==
  ASSUME NEW bytes \in Nat, NEW s \in slab_idx(bytes) .. (chain_length_ - 1)
  PROVE  s \in Chain /\ bytes <= elem_size_(s)
<1>. USE HeapAssumption
<1>1. CASE bytes <= 8
  BY <1>1 DEF slab_idx, Chain, elem_size_, chain_unit_size, internal_allocator_
<1>2. CASE bytes > 8
  <2>. DEFINE i == align_up(bytes, 16) \div 16
  <2>1. i \in Nat /\ i * 16 >= bytes /\ i > 0
    BY <1>2 DEF align_up
  <2>. HIDE DEF i
  <2>2. Min({i, chain_length_}) = IF i <= chain_length_ THEN i ELSE chain_length_
    BY <2>1 DEF Min
  <2>3. slab_idx(bytes) = Min({i, chain_length_})
    BY <1>2 DEF slab_idx, i
  <2>4. s \in Nat /\ i <= s /\ s < chain_length_
    BY <2>1, <2>2, <2>3
  <2>. QED BY <2>1, <2>4 DEF Chain, elem_size_, chain_unit_size, internal_allocator_
<1>. QED BY <1>1, <1>2

\* An address of a block's bytes.
InBlock(b, p) == b.ptr * PAGE_SIZE <= p /\ p < (b.ptr + b.size) * PAGE_SIZE

\* No address is in two blocks that are disjoint.
LEMMA SeparateBlocks ==
  ASSUME NEW b \in [ptr : Nat, size : Nat \ {0}], NEW c \in [ptr : Nat, size : Nat \ {0}],
         b.ptr + b.size <= c.ptr \/ c.ptr + c.size <= b.ptr,
         NEW p \in Int, InBlock(b, p), InBlock(c, p)
  PROVE  FALSE
<1>0. /\ PAGE_SIZE \in Nat
      /\ b.ptr \in Nat /\ b.size \in Nat /\ c.ptr \in Nat /\ c.size \in Nat
  BY HeapAssumption
<1>1. \A x, y \in Nat : x <= y => x * PAGE_SIZE <= y * PAGE_SIZE
                               /\ x * PAGE_SIZE \in Nat /\ y * PAGE_SIZE \in Nat
  BY <1>0, Scale
<1>2. CASE b.ptr + b.size <= c.ptr
  <2>1. (b.ptr + b.size) * PAGE_SIZE <= c.ptr * PAGE_SIZE
    BY <1>0, <1>1, <1>2
  <2>2. (b.ptr + b.size) * PAGE_SIZE \in Nat /\ c.ptr * PAGE_SIZE \in Nat
    BY <1>0, <1>1, <1>2
  <2>. QED BY <2>1, <2>2 DEF InBlock
<1>3. CASE c.ptr + c.size <= b.ptr
  <2>1. (c.ptr + c.size) * PAGE_SIZE <= b.ptr * PAGE_SIZE
    BY <1>0, <1>1, <1>3
  <2>2. (c.ptr + c.size) * PAGE_SIZE \in Nat /\ b.ptr * PAGE_SIZE \in Nat
    BY <1>0, <1>1, <1>3
  <2>. QED BY <2>1, <2>2 DEF InBlock
<1>. QED BY <1>2, <1>3

\* No address is in two blocks of the page allocator.
LEMMA OneBlock ==
  ASSUME Types, BlocksInv, NEW b \in blocks, NEW c \in blocks, NEW p \in Int,
         InBlock(b, p), InBlock(c, p)
  PROVE  b = c
  BY SeparateBlocks DEF Types, BlocksInv

\* Where the elements of a slab are: behind its map, in its block, one after
\* the other (slab.cpp:18-61).
LEMMA ChunkGeometry ==
  ASSUME Types, NEW s \in Slabs, NEW chunk \in Chunks(s)
  PROVE  /\ memory_(s) \in Nat
         /\ memory_(s) = area_[s] * PAGE_SIZE + expected_size(nelems_(s))
         /\ ChunkPtr(s, chunk) \in Nat
         /\ memory_(s) <= ChunkPtr(s, chunk)
         /\ ChunkPtr(s, chunk) + elem_size_(s)
              <= memory_(s) + nelems_(s) * elem_size_(s)
         /\ memory_(s) + nelems_(s) * elem_size_(s)
              <= (area_[s] + required_pages(s)) * PAGE_SIZE
         /\ \A p \in Nat :
              ChunkPtr(s, chunk) <= p /\ p < ChunkPtr(s, chunk) + elem_size_(s)
                => (p - memory_(s)) \div elem_size_(s) = chunk
<1>. DEFINE e == elem_size_(s)
            n == nelems_(s)
            x == expected_size(nelems_(s))
            r == required_pages(s)
            a == area_[s]
<1>1. /\ e \in Nat \ {0} /\ n \in Nat \ {0} /\ x \in Nat /\ r \in Nat \ {0}
      /\ n * e \in Nat /\ n * e + x <= r * PAGE_SIZE
      /\ a \in Nat /\ PAGE_SIZE \in Nat \ {0} /\ chunk \in 0 .. (n - 1)
  BY Sizes, HeapAssumption DEF Types, Chunks
<1>2. memory_(s) = a * PAGE_SIZE + x /\ ChunkPtr(s, chunk) = memory_(s) + chunk * e
  BY DEF memory_, ChunkPtr
<1>. HIDE DEF e, n, x, r, a
<1>3. a * PAGE_SIZE \in Nat /\ r * PAGE_SIZE \in Nat /\ chunk * e \in Nat
      /\ (a + r) * PAGE_SIZE = a * PAGE_SIZE + r * PAGE_SIZE
      /\ (chunk + 1) * e = chunk * e + e
  BY <1>1, Z3
<1>4. (chunk + 1) * e <= n * e
  BY <1>1, Scale
<1>5. ASSUME NEW p \in Nat, ChunkPtr(s, chunk) <= p, p < ChunkPtr(s, chunk) + e
      PROVE  (p - memory_(s)) \div e = chunk
  <2>. DEFINE d == p - ChunkPtr(s, chunk)
  <2>1. d \in 0 .. (e - 1) /\ p - memory_(s) = chunk * e + d
    BY <1>1, <1>2, <1>3, <1>5
  <2>. HIDE DEF d
  <2>2. (chunk * e + d) \div e = chunk
    BY <1>1, <2>1, QuotientIsUnique
  <2>. QED BY <2>1, <2>2
<1>6. /\ memory_(s) \in Nat
      /\ memory_(s) = a * PAGE_SIZE + x
      /\ ChunkPtr(s, chunk) \in Nat
      /\ memory_(s) <= ChunkPtr(s, chunk)
      /\ ChunkPtr(s, chunk) + e <= memory_(s) + n * e
      /\ memory_(s) + n * e <= (a + r) * PAGE_SIZE
  BY <1>1, <1>2, <1>3, <1>4
<1>. QED BY <1>5, <1>6 DEF e, n, x, r, a

\* The addresses that a slab owns are in its block (slab.cpp:87-92).
LEMMA OwnedIsInBlock ==
  ASSUME Types, NEW s \in Slabs, NEW p \in Int, owns(s, p)
  PROVE  InBlock(SlabBlock(s), p)
<1>1. 0 \in Chunks(s)
  BY Sizes DEF Chunks
<1>2. /\ nelems_(s) * elem_size_(s) \in Nat /\ expected_size(nelems_(s)) \in Nat
      /\ area_[s] \in Nat /\ required_pages(s) \in Nat /\ PAGE_SIZE \in Nat
  BY Sizes, HeapAssumption DEF Types
<1>3. area_[s] * PAGE_SIZE \in Nat /\ (area_[s] + required_pages(s)) * PAGE_SIZE \in Nat
  BY <1>2, Scale
<1>4. /\ memory_(s) \in Nat
      /\ memory_(s) = area_[s] * PAGE_SIZE + expected_size(nelems_(s))
      /\ memory_(s) + nelems_(s) * elem_size_(s)
           <= (area_[s] + required_pages(s)) * PAGE_SIZE
  BY <1>1, ChunkGeometry
<1>5. memory_(s) <= p /\ p < memory_(s) + nelems_(s) * elem_size_(s)
  BY DEF owns
<1>6. area_[s] * PAGE_SIZE <= p /\ p < (area_[s] + required_pages(s)) * PAGE_SIZE
  BY <1>2, <1>3, <1>4, <1>5
<1>. QED BY <1>6 DEF InBlock, SlabBlock

\* Two initialized slabs own no address both.
LEMMA OneOwner ==
  ASSUME Types, BlocksInv, SlabsInv, NEW s \in Slabs, NEW r \in Slabs,
         s < step, r < step, NEW p \in Int, owns(s, p), owns(r, p)
  PROVE  s = r
<1>1. SlabBlock(s) = SlabBlock(r)
  <2>1. SlabBlock(s) \in blocks /\ SlabBlock(r) \in blocks
    BY DEF SlabsInv
  <2>. QED BY <2>1, OwnedIsInBlock, OneBlock
<1>2. area_[s] = area_[r]
  BY <1>1 DEF SlabBlock
<1>. QED BY <1>2 DEF SlabsInv

\* A slab owns the bytes of its chunks.
LEMMA ChunkIsOwned ==
  ASSUME Types, NEW s \in Slabs, NEW chunk \in Chunks(s), NEW p \in Nat,
         ChunkPtr(s, chunk) <= p, p < ChunkPtr(s, chunk) + elem_size_(s)
  PROVE  owns(s, p) /\ (p - memory_(s)) \div elem_size_(s) = chunk
<1>1. /\ elem_size_(s) \in Nat /\ nelems_(s) * elem_size_(s) \in Nat
  BY Sizes
<1>2. /\ memory_(s) \in Nat /\ ChunkPtr(s, chunk) \in Nat
      /\ memory_(s) <= ChunkPtr(s, chunk)
      /\ ChunkPtr(s, chunk) + elem_size_(s)
           <= memory_(s) + nelems_(s) * elem_size_(s)
  BY ChunkGeometry
<1>3. (p - memory_(s)) \div elem_size_(s) = chunk
  BY ChunkGeometry
<1>. QED BY <1>1, <1>2, <1>3 DEF owns

\* A chunk is identified by its address.
LEMMA ChunkPtrs ==
  ASSUME Types, BlocksInv, SlabsInv, NEW s \in Slabs, s < step,
         NEW chunk \in Chunks(s)
  PROVE  /\ ChunkPtr(s, chunk) \in Nat
         /\ owns(s, ChunkPtr(s, chunk))
         /\ (ChunkPtr(s, chunk) - memory_(s)) \div elem_size_(s) = chunk
         /\ \A r \in Slabs : r < step /\ owns(r, ChunkPtr(s, chunk)) => r = s
<1>1. ChunkPtr(s, chunk) \in Nat /\ elem_size_(s) \in Nat \ {0}
  BY ChunkGeometry, Sizes
<1>2. ChunkPtr(s, chunk) < ChunkPtr(s, chunk) + elem_size_(s)
  BY <1>1
<1>3. /\ owns(s, ChunkPtr(s, chunk))
      /\ (ChunkPtr(s, chunk) - memory_(s)) \div elem_size_(s) = chunk
  BY <1>1, <1>2, ChunkIsOwned
<1>. QED BY <1>1, <1>3, OneOwner

\* A block that is no slab's has no address that a slab owns.
LEMMA BlockIsNotOwned ==
  ASSUME Types, BlocksInv, SlabsInv, NEW b \in blocks,
         \A s \in Slabs : area_[s] # b.ptr,
         NEW r \in Slabs, r < step, NEW p \in Int, InBlock(b, p)
  PROVE  ~owns(r, p)
<1>. SUFFICES ASSUME owns(r, p) PROVE FALSE
  OBVIOUS
<1>1. SlabBlock(r) = b
  <2>1. SlabBlock(r) \in blocks
    BY DEF SlabsInv
  <2>. QED BY <2>1, OwnedIsInBlock, OneBlock
<1>. QED BY <1>1 DEF SlabBlock

\* The first bytes of a block are in the block.
LEMMA BlockBytes ==
  ASSUME NEW b \in [ptr : Nat, size : Nat \ {0}]
  PROVE  /\ b.ptr * PAGE_SIZE \in Nat
         /\ b.size * PAGE_SIZE \in Nat \ {0}
         /\ (b.ptr + b.size) * PAGE_SIZE = b.ptr * PAGE_SIZE + b.size * PAGE_SIZE
         /\ InBlock(b, b.ptr * PAGE_SIZE)
<1>1. b.ptr \in Nat /\ b.size \in Nat \ {0} /\ PAGE_SIZE \in Nat \ {0}
  BY HeapAssumption
<1>3. /\ b.ptr * PAGE_SIZE \in Nat
      /\ b.size * PAGE_SIZE \in Nat \ {0}
      /\ (b.ptr + b.size) * PAGE_SIZE = b.ptr * PAGE_SIZE + b.size * PAGE_SIZE
  <2>. DEFINE x == b.ptr
              y == b.size
  <2>1. x \in Nat /\ y \in Nat \ {0} /\ PAGE_SIZE \in Nat \ {0}
    BY <1>1
  <2>. HIDE DEF x, y
  <2>2. /\ x * PAGE_SIZE \in Nat
        /\ y * PAGE_SIZE \in Nat \ {0}
        /\ (x + y) * PAGE_SIZE = x * PAGE_SIZE + y * PAGE_SIZE
    BY <2>1, Products
  <2>. QED BY <2>2 DEF x, y
<1>. QED BY <1>3 DEF InBlock

\* A block that the page allocator gives is disjoint from the others.
LEMMA NewBlock ==
  ASSUME Types, BlocksInv, NEW pages \in Nat \ {0}, Pages!Allocate(pages)
  PROVE  \E b \in [ptr : Nat, size : Nat \ {0}] :
           /\ b.size = pages
           /\ page_ret'.ptr = b.ptr
           /\ blocks' = blocks \cup {b}
           /\ \A c \in blocks : b.ptr + b.size <= c.ptr \/ c.ptr + c.size <= b.ptr
<1>1. PICK frame \in Pages!Managed :
        /\ Extent(frame, pages) \subseteq Pages!FreePages
        /\ blocks' = blocks \cup {[ptr |-> frame, size |-> pages]}
        /\ page_ret' = Pages!Answer(pages, frame)
  BY DEF Pages!Allocate, Pages!Extent, Extent
<1>2. frame \in Nat
  BY <1>1, HeapAssumption DEF Pages!Managed
<1>3. ASSUME NEW c \in blocks
      PROVE  frame + pages <= c.ptr \/ c.ptr + c.size <= frame
  <2>. SUFFICES ASSUME ~(frame + pages <= c.ptr), ~(c.ptr + c.size <= frame)
                PROVE  FALSE
    OBVIOUS
  <2>1. c.ptr \in Nat /\ c.size \in Nat \ {0}
    BY DEF Types
  <2>. DEFINE p == IF frame <= c.ptr THEN c.ptr ELSE frame
  <2>2. p \in Extent(frame, pages) /\ p \in Extent(c.ptr, c.size)
    BY <1>2, <2>1 DEF Extent
  <2>. QED BY <1>1, <2>2 DEF Pages!FreePages, Pages!Extent, Extent
<1>4. [ptr |-> frame, size |-> pages] \in [ptr : Nat, size : Nat \ {0}]
  BY <1>2
<1>. QED BY <1>1, <1>3, <1>4 DEF Pages!Answer

-----------------------------------------------------------------------------
(* The invariant, action by action.                                        *)

\* Before initialize().
LEMMA InitEstablishesInv == HeapInit => IInv
<1>. SUFFICES ASSUME HeapInit PROVE IInv
  OBVIOUS
<1>1. Types
  BY DEF HeapInit, Types, Pages!Init, Slabs, internal_allocator_, nullptr
<1>2. \A s \in Slabs : ~(s < step)
  BY HeapAssumption DEF HeapInit, Slabs, Chain, internal_allocator_
<1>3. step # ready /\ Chain \subseteq Slabs
  BY HeapAssumption DEF HeapInit, ready, internal_allocator_, Slabs
<1>. QED BY <1>1, <1>2, <1>3 DEF HeapInit, IInv, Pages!Init, BlocksInv, SlabsInv, HeldInv, ReturnInv

\* A slab gets a block of its own (mallocator.cpp:14-37, slab.cpp:18-41).
LEMMA InitializeSlabKeepsInv == IInv /\ InitializeSlab => IInv'
<1>. SUFFICES ASSUME IInv, InitializeSlab PROVE IInv'
  OBVIOUS
<1>. USE DEF IInv
<1>s. step \in Slabs /\ step \in Int /\ step' = step + 1 /\ held' = held
  BY HeapAssumption DEF InitializeSlab, Slabs, Chain, internal_allocator_
<1>r. required_pages(step) \in Nat \ {0}
  BY <1>s, Sizes
<1>b. PICK b \in [ptr : Nat, size : Nat \ {0}] :
        /\ b.size = required_pages(step)
        /\ page_ret'.ptr = b.ptr
        /\ blocks' = blocks \cup {b}
        /\ \A c \in blocks : b.ptr + b.size <= c.ptr \/ c.ptr + c.size <= b.ptr
  BY <1>r, NewBlock DEF InitializeSlab
<1>a. /\ area_' = [area_ EXCEPT ![step] = b.ptr]
      /\ allocation_map_' \in [Slabs -> SUBSET Nat]
      /\ step \in Chain => allocation_map_'[step] = Chunks(step)
      /\ \A s \in Slabs \ {step} : allocation_map_'[s] = allocation_map_[s]
  <2>1. nelems_(step) \in Nat
    BY <1>s, Sizes
  <2>2. step \in Chain => step # internal_allocator_
    BY DEF Chain, internal_allocator_
  <2>. QED BY <1>b, <1>s, <2>1, <2>2 DEF InitializeSlab, Types, Chunks
<1>h. held = {} /\ step # heap_panicked /\ step # ready
  BY <1>s, HeapAssumption DEF HeldInv, Slabs, Chain, internal_allocator_, ready, heap_panicked
<1>o. /\ \A s \in Slabs : s \in Int
      /\ Chain \subseteq Slabs
      /\ \A s \in Slabs : s < step' <=> s < step \/ s = step
  BY <1>s, HeapAssumption DEF Slabs, Chain, internal_allocator_
<1>c. /\ area_'[step] = b.ptr
      /\ \A s \in Slabs \ {step} : area_'[s] = area_[s]
      /\ area_' \in [Slabs -> Nat]
  BY <1>a, <1>s DEF Types
<1>1. Types'
  <2>1. step' \in Slabs \cup {ready, heap_panicked}
    BY <1>s, HeapAssumption DEF Slabs, Chain, internal_allocator_, ready
  <2>2. blocks' \in SUBSET [ptr : Nat, size : Nat \ {0}]
    BY <1>b DEF Types
  <2>3. held' \in SUBSET [ptr : Nat, bytes : Nat]
    BY <1>s DEF Types
  <2>. QED BY <1>a, <1>c, <2>1, <2>2, <2>3 DEF Types, ready, heap_panicked, Slabs, Chain, internal_allocator_
<1>2. BlocksInv'
  BY <1>b DEF BlocksInv
<1>m. \A s \in Slabs : Chunks(s)' = Chunks(s)
  BY DEF Chunks
<1>3. SlabsInv'
  <2>1. ASSUME NEW s \in Slabs, s < step'
        PROVE  SlabBlock(s)' \in blocks'
    <3>1. CASE s = step
      <4>1. SlabBlock(s)' = [ptr |-> b.ptr, size |-> b.size]
        BY <1>b, <1>c, <3>1 DEF SlabBlock, required_pages
      <4>. QED BY <1>b, <4>1
    <3>2. CASE s # step
      <4>1. SlabBlock(s)' = SlabBlock(s)
        BY <1>c, <3>2 DEF SlabBlock
      <4>. QED BY <1>b, <1>o, <2>1, <3>2, <4>1 DEF SlabsInv
    <3>. QED BY <3>1, <3>2
  <2>2. ASSUME NEW s \in Slabs, s < step PROVE area_[s] # b.ptr
    <3>1. SlabBlock(s) \in blocks
      BY <2>2 DEF SlabsInv
    <3>2. SlabBlock(s).ptr = area_[s] /\ SlabBlock(s).size \in Nat \ {0}
      BY Sizes DEF SlabBlock
    <3>3. area_[s] \in Nat
      BY DEF Types
    <3>. QED BY <1>b, <3>1, <3>2, <3>3
  <2>3. ASSUME NEW s \in Slabs, NEW r \in Slabs, s < step', r < step',
               area_'[s] = area_'[r]
        PROVE  s = r
    BY <1>c, <1>o, <2>2, <2>3 DEF SlabsInv
  <2>4. ASSUME NEW s \in Chain, s < step' PROVE allocation_map_'[s] \subseteq Chunks(s)
    <3>1. CASE s = step
      BY <1>a, <3>1
    <3>2. CASE s # step
      BY <1>a, <1>o, <2>4, <3>2 DEF SlabsInv
    <3>. QED BY <3>1, <3>2
  <2>5. Slabs' = Slabs /\ Chain' = Chain
    BY DEF Slabs, Chain, internal_allocator_
  <2>. QED BY <1>m, <1>o, <2>1, <2>3, <2>4, <2>5 DEF SlabsInv
<1>4. HeldInv'
  BY <1>h, <1>s DEF HeldInv
<1>5. ReturnInv'
  <2>1. ASSUME NEW s \in Chain, NEW chunk \in Chunks(s), s < step',
               chunk \notin allocation_map_'[s]
        PROVE  FALSE
    BY <1>a, <1>h, <1>o, <2>1 DEF ReturnInv
  <2>2. ASSUME NEW c \in blocks' PROVE \E s \in Slabs : s < step' /\ area_'[s] = c.ptr
    <3>1. CASE c = b
      BY <1>c, <1>o, <1>s, <3>1
    <3>2. CASE c \in blocks
      <4>1. PICK s \in Slabs : s < step /\ area_[s] = c.ptr
        BY <1>h, <3>2 DEF ReturnInv
      <4>2. s # step
        BY <1>o, <4>1
      <4>. QED BY <1>c, <1>o, <4>1, <4>2
    <3>. QED BY <1>b, <3>1, <3>2
  <2>3. Slabs' = Slabs /\ Chain' = Chain
    BY DEF Slabs, Chain, internal_allocator_
  <2>. QED BY <1>m, <2>1, <2>2, <2>3 DEF ReturnInv
<1>. QED BY <1>1, <1>2, <1>3, <1>4, <1>5

\* panic() leaves nothing behind that would be used (mallocator.cpp:17-36).
LEMMA InitializePanicsKeepsInv == IInv /\ InitializePanics => IInv'
<1>. SUFFICES ASSUME IInv, InitializePanics PROVE IInv'
  OBVIOUS
<1>. USE DEF IInv, InitializePanics
<1>1. blocks' = blocks /\ step' = heap_panicked
  BY DEF Pages!AllocateFails
<1>2. \A s \in Slabs : ~(s < step')
  BY <1>1, HeapAssumption DEF Slabs, Chain, internal_allocator_, heap_panicked
<1>3. held = {}
  BY HeapAssumption DEF HeldInv, Slabs, Chain, internal_allocator_, ready
<1>4. Types'
  BY <1>1 DEF Types, ready, heap_panicked, Slabs, Chain, internal_allocator_
<1>5. Slabs' = Slabs /\ Chain' = Chain /\ heap_panicked' = heap_panicked /\ Chain \subseteq Slabs
  BY DEF Slabs, Chain, internal_allocator_, heap_panicked
<1>. QED BY <1>1, <1>2, <1>3, <1>4, <1>5 DEF BlocksInv, SlabsInv, HeldInv, ReturnInv

\* Nothing that depends on the areas alone moves with the areas unchanged.
LEMMA Unmoved ==
  ASSUME area_' = area_
  PROVE  /\ \A s, chunk : ChunkPtr(s, chunk)' = ChunkPtr(s, chunk)
         /\ \A s : SlabBlock(s)' = SlabBlock(s)
         /\ \A s : Chunks(s)' = Chunks(s) /\ elem_size_(s)' = elem_size_(s)
         /\ Slabs' = Slabs /\ Chain' = Chain /\ ready' = ready /\ heap_panicked' = heap_panicked
  BY DEF ChunkPtr, memory_, SlabBlock, Chunks, Slabs, Chain, ready, heap_panicked,
         internal_allocator_

\* After initialize(), every slab has its area.
LEMMA AllInitialized ==
  ASSUME step = ready
  PROVE  (\A s \in Slabs : s < step) /\ Chain \subseteq Slabs /\ step # heap_panicked
  BY HeapAssumption DEF ready, Slabs, Chain, internal_allocator_, heap_panicked

\* An allocation from a slab is one that the slab owns, and one from the page
\* allocator is one that no slab owns: how kfree tells them apart
\* (mallocator.cpp:67-79).
LEMMA Owner ==
  ASSUME IInv, step = ready, NEW h \in held
  PROVE  /\ \A s \in Chain : owns(s, h.ptr) =>
              LET chunk == (h.ptr - memory_(s)) \div elem_size_(s)
              IN  /\ chunk \in Chunks(s)
                  /\ chunk \notin allocation_map_[s]
                  /\ h.ptr = ChunkPtr(s, chunk)
                  /\ h.bytes <= elem_size_(s)
         /\ (\A s \in Chain : ~owns(s, h.ptr)) <=> FromPages(h)
<1>. USE DEF IInv
<1>0. (\A s \in Slabs : s < step) /\ Chain \subseteq Slabs
  BY AllInitialized
<1>1. ASSUME FromPages(h), NEW s \in Chain PROVE ~owns(s, h.ptr)
  <2>1. PICK b \in blocks :
          /\ \A r \in Slabs : area_[r] # b.ptr
          /\ h.ptr = b.ptr * PAGE_SIZE
    BY <1>1 DEF FromPages
  <2>2. InBlock(b, h.ptr) /\ h.ptr \in Int
    BY <2>1, BlockBytes DEF Types
  <2>. QED BY <1>0, <2>1, <2>2, BlockIsNotOwned
<1>2. ASSUME FromSlab(h)
      PROVE  \E s \in Chain : \E chunk \in Chunks(s) :
               /\ chunk \notin allocation_map_[s]
               /\ h.ptr = ChunkPtr(s, chunk)
               /\ h.bytes <= elem_size_(s)
               /\ owns(s, h.ptr)
               /\ (h.ptr - memory_(s)) \div elem_size_(s) = chunk
               /\ \A r \in Chain : owns(r, h.ptr) => r = s
  <2>1. PICK s \in Chain : \E chunk \in Chunks(s) :
          /\ chunk \notin allocation_map_[s]
          /\ h.ptr = ChunkPtr(s, chunk)
          /\ h.bytes <= elem_size_(s)
    BY <1>2 DEF FromSlab
  <2>2. PICK chunk \in Chunks(s) :
          /\ chunk \notin allocation_map_[s]
          /\ h.ptr = ChunkPtr(s, chunk)
          /\ h.bytes <= elem_size_(s)
    BY <2>1
  <2>3. /\ owns(s, ChunkPtr(s, chunk))
        /\ (ChunkPtr(s, chunk) - memory_(s)) \div elem_size_(s) = chunk
        /\ \A r \in Slabs : r < step /\ owns(r, ChunkPtr(s, chunk)) => r = s
    BY <1>0, ChunkPtrs
  <2>. QED BY <1>0, <2>2, <2>3
<1>3. FromSlab(h) \/ FromPages(h)
  BY DEF HeldInv
<1>4. CASE FromPages(h)
  BY <1>1, <1>4
<1>5. CASE FromSlab(h)
  BY <1>1, <1>2, <1>5
<1>. QED BY <1>3, <1>4, <1>5

\* An allocation's address is in a block.
LEMMA Home ==
  ASSUME IInv, step = ready, NEW h \in held
  PROVE  \E b \in blocks : InBlock(b, h.ptr)
<1>. USE DEF IInv
<1>0. (\A s \in Slabs : s < step) /\ Chain \subseteq Slabs
  BY AllInitialized
<1>1. CASE FromPages(h)
  BY <1>1, BlockBytes DEF FromPages, Types
<1>2. CASE ~FromPages(h)
  <2>1. PICK s \in Chain : owns(s, h.ptr)
    BY <1>2, Owner
  <2>2. InBlock(SlabBlock(s), h.ptr)
    BY <1>0, <2>1, OwnedIsInBlock DEF Types
  <2>. QED BY <1>0, <2>2 DEF SlabsInv
<1>. QED BY <1>1, <1>2

\* kmalloc takes the first free chunk of a slab: nobody holds it
\* (mallocator.cpp:40-58, slab.cpp:43-61).
LEMMA KmallocFromSlabKeepsInv ==
  ASSUME IInv, NEW bytes \in Nat, KmallocFromSlab(bytes)
  PROVE  IInv'
<1>. USE DEF IInv
<1>u. /\ step = ready /\ step' = step /\ area_' = area_ /\ blocks' = blocks
  BY DEF KmallocFromSlab
<1>0. (\A r \in Slabs : r < step) /\ Chain \subseteq Slabs /\ step # heap_panicked
  BY <1>u, AllInitialized
<1>1. PICK s \in slab_idx(bytes) .. (chain_length_ - 1) :
        /\ HasFree(s)
        /\ allocation_map_' = [allocation_map_ EXCEPT ![s] = @ \ {Min(allocation_map_[s])}]
        /\ held' = held \cup
             {Allocation(memory_(s) + Min(allocation_map_[s]) * elem_size_(s), bytes)}
  BY DEF KmallocFromSlab
<1>2. s \in Chain /\ bytes <= elem_size_(s)
  BY SlabFits
<1>3. PICK chunk \in Chunks(s) :
        chunk \in allocation_map_[s] /\ chunk = Min(allocation_map_[s])
  <2>1. allocation_map_[s] \in SUBSET Nat /\ allocation_map_[s] # {}
    BY <1>0, <1>1, <1>2 DEF Types, HasFree
  <2>2. allocation_map_[s] \subseteq Chunks(s)
    BY <1>0, <1>2 DEF SlabsInv
  <2>. QED BY <2>1, <2>2, MinIsElement
<1>n. PICK new : new = [ptr |-> ChunkPtr(s, chunk), bytes |-> bytes]
  OBVIOUS
<1>4. held' = held \cup {new}
  BY <1>1, <1>3, <1>n DEF Allocation, ChunkPtr
<1>5. /\ allocation_map_' \in [Slabs -> SUBSET Nat]
      /\ allocation_map_'[s] = allocation_map_[s] \ {chunk}
      /\ \A r \in Slabs \ {s} : allocation_map_'[r] = allocation_map_[r]
  BY <1>0, <1>1, <1>2, <1>3 DEF Types
<1>6. ChunkPtr(s, chunk) \in Nat /\ owns(s, ChunkPtr(s, chunk))
      /\ (ChunkPtr(s, chunk) - memory_(s)) \div elem_size_(s) = chunk
  BY <1>0, <1>2, <1>3, ChunkPtrs
<1>7. \A h \in held : h.ptr # new.ptr
  BY <1>u, <1>n, <1>2, <1>3, <1>6, Owner
<1>m. /\ \A r, c : ChunkPtr(r, c)' = ChunkPtr(r, c)
      /\ \A r : SlabBlock(r)' = SlabBlock(r)
      /\ \A r : Chunks(r)' = Chunks(r) /\ elem_size_(r)' = elem_size_(r)
      /\ Slabs' = Slabs /\ Chain' = Chain /\ ready' = ready /\ heap_panicked' = heap_panicked
  BY <1>u, Unmoved
<1>8. Types'
  <2>1. held' \in SUBSET [ptr : Nat, bytes : Nat]
    BY <1>4, <1>6, <1>n DEF Types
  <2>. QED BY <1>u, <1>m, <1>5, <2>1 DEF Types
<1>9. BlocksInv'
  BY <1>u DEF BlocksInv
<1>10. SlabsInv'
  BY <1>u, <1>m, <1>0, <1>2, <1>5 DEF SlabsInv
<1>11. HeldInv'
  <2>1. ASSUME NEW h \in held, FromPages(h) PROVE FromPages(h)'
    BY <1>u, <1>m, <2>1 DEF FromPages
  <2>2. ASSUME NEW h \in held, FromSlab(h) PROVE FromSlab(h)'
    BY <1>m, <1>0, <1>5, <2>2 DEF FromSlab
  <2>3. FromSlab(new)'
    BY <1>m, <1>n, <1>2, <1>3, <1>5 DEF FromSlab
  <2>4. \A h \in held' : FromSlab(h)' \/ FromPages(h)'
    BY <1>4, <2>1, <2>2, <2>3 DEF HeldInv
  <2>5. \A g, h \in held' : g.ptr = h.ptr => g = h
    BY <1>4, <1>7 DEF HeldInv
  <2>. QED BY <1>u, <1>m, <2>4, <2>5 DEF HeldInv
<1>12. ReturnInv'
  <2>1. ASSUME NEW r \in Chain, NEW c \in Chunks(r), c \notin allocation_map_'[r]
        PROVE  \E h \in held' : h.ptr = ChunkPtr(r, c)
    <3>1. CASE r = s /\ c = chunk
      BY <1>4, <1>n, <3>1
    <3>2. CASE ~(r = s /\ c = chunk)
      <4>1. c \notin allocation_map_[r]
        BY <1>0, <1>5, <2>1, <3>2
      <4>2. \E h \in held : h.ptr = ChunkPtr(r, c)
        BY <1>0, <4>1 DEF ReturnInv
      <4>. QED BY <1>4, <4>2
    <3>. QED BY <3>1, <3>2
  <2>2. ASSUME NEW b \in blocks
        PROVE  \/ \E r \in Slabs : r < step /\ area_[r] = b.ptr
               \/ \E h \in held' : h.ptr = b.ptr * PAGE_SIZE
    BY <1>0, <1>4 DEF ReturnInv
  <2>. QED BY <1>u, <1>m, <2>1, <2>2 DEF ReturnInv
<1>. QED BY <1>8, <1>9, <1>10, <1>11, <1>12

\* kmalloc takes pages: nobody has them (mallocator.cpp:58-64).
LEMMA KmallocPagesKeepsInv ==
  ASSUME IInv, NEW bytes \in Nat, KmallocPages(bytes)
  PROVE  IInv'
<1>. USE DEF IInv
<1>. DEFINE pages == align_up(bytes, PAGE_SIZE) \div PAGE_SIZE
<1>u. /\ step = ready /\ step' = step /\ area_' = area_
      /\ allocation_map_' = allocation_map_
  BY DEF KmallocPages
<1>0. (\A r \in Slabs : r < step) /\ Chain \subseteq Slabs /\ step # heap_panicked
  BY <1>u, AllInitialized
<1>m. /\ \A r, c : ChunkPtr(r, c)' = ChunkPtr(r, c)
      /\ \A r : SlabBlock(r)' = SlabBlock(r)
      /\ \A r : Chunks(r)' = Chunks(r) /\ elem_size_(r)' = elem_size_(r)
      /\ Slabs' = Slabs /\ Chain' = Chain /\ ready' = ready /\ heap_panicked' = heap_panicked
  BY <1>u, Unmoved
<1>1. CASE blocks' = blocks /\ held' = held
  BY <1>u, <1>m, <1>1 DEF Types, BlocksInv, SlabsInv, HeldInv, FromSlab, FromPages, ReturnInv
<1>2. CASE /\ pages > 0
           /\ Pages!Allocate(pages)
           /\ held' = held \cup {Allocation(page_ret'.ptr * PAGE_SIZE, bytes)}
  <2>0. pages \in Nat /\ bytes <= pages * PAGE_SIZE /\ bytes > 0
    <3>1. pages \in Nat /\ bytes <= pages * PAGE_SIZE /\ (pages = 0 => bytes = 0)
      BY PagesHoldBytes
    <3>2. bytes = 0 => pages = 0
      BY HeapAssumption DEF align_up
    <3>. QED BY <1>2, <3>1, <3>2
  <2>. HIDE DEF pages
  <2>1. PICK b \in [ptr : Nat, size : Nat \ {0}] :
          /\ b.size = pages
          /\ page_ret'.ptr = b.ptr
          /\ blocks' = blocks \cup {b}
          /\ \A c \in blocks : b.ptr + b.size <= c.ptr \/ c.ptr + c.size <= b.ptr
    BY <1>2, <2>0, NewBlock
  <2>. DEFINE new == [ptr |-> b.ptr * PAGE_SIZE, bytes |-> bytes]
  <2>2. held' = held \cup {new}
    BY <1>2, <2>1 DEF Allocation
  <2>3. Types'
    <3>1. b.ptr * PAGE_SIZE \in Nat
      BY HeapAssumption, Scale
    <3>2. held' \in SUBSET [ptr : Nat, bytes : Nat]
      BY <2>2, <3>1 DEF Types
    <3>. QED BY <1>u, <1>m, <2>1, <3>2 DEF Types
  <2>4. BlocksInv'
    BY <2>1 DEF BlocksInv
  <2>5. SlabsInv'
    BY <1>u, <1>m, <2>1 DEF SlabsInv
  <2>6. ASSUME NEW c \in blocks PROVE c.ptr # b.ptr
    BY <2>1 DEF Types
  <2>7. \A r \in Slabs : area_[r] # b.ptr
    <3>1. \A r \in Slabs : SlabBlock(r) \in blocks /\ SlabBlock(r).ptr = area_[r]
      BY <1>0 DEF SlabsInv, SlabBlock
    <3>. QED BY <2>6, <3>1
  <2>8. FromPages(new)'
    BY <1>u, <1>m, <2>0, <2>1, <2>7 DEF FromPages
  <2>9. ASSUME NEW h \in held, FromPages(h) PROVE FromPages(h)'
    BY <1>u, <1>m, <2>1, <2>9 DEF FromPages
  <2>10. ASSUME NEW h \in held, FromSlab(h) PROVE FromSlab(h)'
    BY <1>u, <1>m, <2>10 DEF FromSlab
  <2>11. ASSUME NEW h \in held PROVE h.ptr # new.ptr
    <3>1. PICK c \in blocks : InBlock(c, h.ptr)
      BY <1>u, Home
    <3>2. InBlock(b, new.ptr)
      BY BlockBytes
    <3>3. c \in [ptr : Nat, size : Nat \ {0}] /\ h.ptr \in Int
      BY DEF Types
    <3>. QED BY <2>1, <3>1, <3>2, <3>3, SeparateBlocks
  <2>12. HeldInv'
    <3>1. \A h \in held' : FromSlab(h)' \/ FromPages(h)'
      BY <2>2, <2>8, <2>9, <2>10 DEF HeldInv
    <3>2. \A g, h \in held' : g.ptr = h.ptr => g = h
      BY <2>2, <2>11 DEF HeldInv
    <3>. QED BY <1>u, <1>m, <3>1, <3>2 DEF HeldInv
  <2>13. ReturnInv'
    <3>1. \A r \in Chain : \A c \in Chunks(r) :
            c \notin allocation_map_[r] => \E h \in held' : h.ptr = ChunkPtr(r, c)
      BY <1>0, <2>2 DEF ReturnInv
    <3>2. ASSUME NEW c \in blocks'
          PROVE  \/ \E r \in Slabs : r < step /\ area_[r] = c.ptr
                 \/ \E h \in held' : h.ptr = c.ptr * PAGE_SIZE
      <4>1. CASE c = b
        <5>1. new \in held' /\ new.ptr = c.ptr * PAGE_SIZE
          BY <2>2, <4>1, Zenon
        <5>. QED BY <5>1, Zenon
      <4>2. CASE c \in blocks
        BY <1>0, <2>2, <4>2 DEF ReturnInv
      <4>. QED BY <2>1, <4>1, <4>2
    <3>. QED BY <1>u, <1>m, <3>1, <3>2 DEF ReturnInv
  <2>. QED BY <2>3, <2>4, <2>5, <2>12, <2>13
<1>. QED BY <1>1, <1>2 DEF KmallocPages, Pages!AllocateZero, Pages!AllocateFails

\* kfree returns a chunk to its slab (mallocator.cpp:67-76, slab.cpp:64-85).
LEMMA KfreeToSlabKeepsInv ==
  ASSUME IInv, NEW h \in held, KfreeToSlab(h)
  PROVE  IInv'
<1>. USE DEF IInv
<1>u. /\ step = ready /\ step' = step /\ area_' = area_ /\ blocks' = blocks
      /\ held' = held \ {h}
  BY DEF KfreeToSlab
<1>0. (\A r \in Slabs : r < step) /\ Chain \subseteq Slabs /\ step # heap_panicked
  BY <1>u, AllInitialized
<1>m. /\ \A r, c : ChunkPtr(r, c)' = ChunkPtr(r, c)
      /\ \A r : SlabBlock(r)' = SlabBlock(r)
      /\ \A r : Chunks(r)' = Chunks(r) /\ elem_size_(r)' = elem_size_(r)
      /\ Slabs' = Slabs /\ Chain' = Chain /\ ready' = ready /\ heap_panicked' = heap_panicked
  BY <1>u, Unmoved
<1>1. PICK s \in Chain :
        /\ owns(s, h.ptr)
        /\ allocation_map_' = [allocation_map_ EXCEPT
             ![s] = @ \cup {(h.ptr - memory_(s)) \div elem_size_(s)}]
  BY DEF KfreeToSlab
<1>. DEFINE chunk == (h.ptr - memory_(s)) \div elem_size_(s)
<1>2. chunk \in Chunks(s) /\ h.ptr = ChunkPtr(s, chunk)
  BY <1>u, <1>1, Owner
<1>3. chunk \in Nat
  BY <1>2 DEF Chunks
<1>5. /\ allocation_map_' \in [Slabs -> SUBSET Nat]
      /\ allocation_map_'[s] = allocation_map_[s] \cup {chunk}
      /\ \A r \in Slabs \ {s} : allocation_map_'[r] = allocation_map_[r]
  BY <1>0, <1>1, <1>3 DEF Types
<1>. HIDE DEF chunk
<1>8. Types'
  BY <1>u, <1>m, <1>5 DEF Types
<1>9. BlocksInv'
  BY <1>u DEF BlocksInv
<1>10. SlabsInv'
  BY <1>u, <1>m, <1>0, <1>2, <1>5 DEF SlabsInv
<1>11. HeldInv'
  <2>1. ASSUME NEW g \in held', FromPages(g) PROVE FromPages(g)'
    BY <1>u, <1>m, <2>1 DEF FromPages
  <2>2. ASSUME NEW g \in held', FromSlab(g) PROVE FromSlab(g)'
    <3>0. g.ptr # ChunkPtr(s, chunk)
      BY <1>u, <1>2 DEF HeldInv
    <3>1. PICK r \in Chain : \E c \in Chunks(r) :
            /\ c \notin allocation_map_[r]
            /\ g.ptr = ChunkPtr(r, c)
            /\ g.bytes <= elem_size_(r)
      BY <2>2 DEF FromSlab
    <3>2. PICK c \in Chunks(r) :
            /\ c \notin allocation_map_[r]
            /\ g.ptr = ChunkPtr(r, c)
            /\ g.bytes <= elem_size_(r)
      BY <3>1
    <3>3. c \notin allocation_map_'[r]
      BY <1>0, <1>5, <3>0, <3>2
    <3>. QED BY <1>m, <3>2, <3>3 DEF FromSlab
  <2>3. \A g \in held' : FromSlab(g)' \/ FromPages(g)'
    BY <1>u, <2>1, <2>2 DEF HeldInv
  <2>. QED BY <1>u, <1>m, <2>3 DEF HeldInv
<1>12. ReturnInv'
  <2>1. ASSUME NEW r \in Chain, NEW c \in Chunks(r), c \notin allocation_map_'[r]
        PROVE  \E g \in held' : g.ptr = ChunkPtr(r, c)
    <3>1. c \notin allocation_map_[r] /\ ~(r = s /\ c = chunk)
      BY <1>0, <1>5, <2>1
    <3>2. PICK g \in held : g.ptr = ChunkPtr(r, c)
      BY <1>0, <3>1 DEF ReturnInv
    <3>3. ChunkPtr(r, c) # ChunkPtr(s, chunk)
      <4>. SUFFICES ASSUME ChunkPtr(r, c) = ChunkPtr(s, chunk) PROVE FALSE
        OBVIOUS
      <4>1. /\ owns(r, ChunkPtr(r, c))
            /\ (ChunkPtr(r, c) - memory_(r)) \div elem_size_(r) = c
        BY <1>0, ChunkPtrs
      <4>2. /\ (ChunkPtr(s, chunk) - memory_(s)) \div elem_size_(s) = chunk
            /\ \A q \in Slabs : q < step /\ owns(q, ChunkPtr(s, chunk)) => q = s
        BY <1>0, <1>2, ChunkPtrs
      <4>3. r = s
        BY <1>0, <4>1, <4>2
      <4>. QED BY <3>1, <4>1, <4>2, <4>3
    <3>4. g # h
      BY <1>2, <3>2, <3>3
    <3>. QED BY <1>u, <3>2, <3>4
  <2>2. ASSUME NEW b \in blocks
        PROVE  \/ \E r \in Slabs : r < step /\ area_[r] = b.ptr
               \/ \E g \in held' : g.ptr = b.ptr * PAGE_SIZE
    <3>1. CASE \E r \in Slabs : r < step /\ area_[r] = b.ptr
      BY <3>1
    <3>2. CASE ~\E r \in Slabs : r < step /\ area_[r] = b.ptr
      <4>1. PICK g \in held : g.ptr = b.ptr * PAGE_SIZE
        BY <1>0, <3>2 DEF ReturnInv
      <4>2. InBlock(b, g.ptr) /\ g.ptr \in Int
        BY <4>1, BlockBytes DEF Types
      <4>3. ~owns(s, g.ptr)
        BY <1>0, <1>1, <3>2, <4>2, BlockIsNotOwned
      <4>. QED BY <1>u, <1>1, <4>1, <4>3
    <3>. QED BY <3>1, <3>2
  <2>. QED BY <1>u, <1>m, <2>1, <2>2 DEF ReturnInv
<1>. QED BY <1>8, <1>9, <1>10, <1>11, <1>12

\* kfree returns pages, which are no slab's (mallocator.cpp:76-79).
LEMMA KfreePagesKeepsInv ==
  ASSUME IInv, NEW h \in held, KfreePages(h)
  PROVE  IInv'
<1>. USE DEF IInv
<1>u. /\ step = ready /\ step' = step /\ area_' = area_
      /\ allocation_map_' = allocation_map_ /\ held' = held \ {h}
  BY DEF KfreePages
<1>0. (\A r \in Slabs : r < step) /\ Chain \subseteq Slabs /\ step # heap_panicked
  BY <1>u, AllInitialized
<1>m. /\ \A r, c : ChunkPtr(r, c)' = ChunkPtr(r, c)
      /\ \A r : SlabBlock(r)' = SlabBlock(r)
      /\ \A r : Chunks(r)' = Chunks(r) /\ elem_size_(r)' = elem_size_(r)
      /\ Slabs' = Slabs /\ Chain' = Chain /\ ready' = ready /\ heap_panicked' = heap_panicked
  BY <1>u, Unmoved
<1>1. PICK b \in blocks : b.ptr * PAGE_SIZE = h.ptr /\ blocks' = blocks \ {b}
  BY DEF KfreePages, Pages!Deallocate
<1>2. \A s \in Chain : ~owns(s, h.ptr)
  BY DEF KfreePages
<1>3. \A r \in Slabs : area_[r] # b.ptr
  <2>1. PICK c \in blocks : h.ptr = c.ptr * PAGE_SIZE /\ \A r \in Slabs : area_[r] # c.ptr
    BY <1>u, <1>2, Owner DEF FromPages
  <2>2. InBlock(b, h.ptr) /\ InBlock(c, h.ptr) /\ h.ptr \in Int
    BY <1>1, <2>1, BlockBytes DEF Types
  <2>. QED BY <2>1, <2>2, OneBlock
<1>8. Types'
  BY <1>u, <1>m, <1>1 DEF Types
<1>9. BlocksInv'
  BY <1>1 DEF BlocksInv
<1>10. SlabsInv'
  <2>1. \A r \in Slabs : SlabBlock(r) \in blocks /\ SlabBlock(r).ptr = area_[r]
    BY <1>0 DEF SlabsInv, SlabBlock
  <2>2. \A r \in Slabs : SlabBlock(r) \in blocks'
    BY <1>1, <1>3, <2>1
  <2>. QED BY <1>u, <1>m, <2>2 DEF SlabsInv
<1>11. HeldInv'
  <2>1. ASSUME NEW g \in held', FromPages(g) PROVE FromPages(g)'
    <3>1. PICK c \in blocks :
            /\ \A s \in Slabs : area_[s] # c.ptr
            /\ g.ptr = c.ptr * PAGE_SIZE
            /\ g.bytes > 0
            /\ g.bytes <= c.size * PAGE_SIZE
      BY <2>1 DEF FromPages
    <3>2. c # b
      BY <1>u, <1>1, <3>1 DEF HeldInv
    <3>. QED BY <1>u, <1>m, <1>1, <3>1, <3>2 DEF FromPages
  <2>2. ASSUME NEW g \in held', FromSlab(g) PROVE FromSlab(g)'
    BY <1>u, <1>m, <2>2 DEF FromSlab
  <2>3. \A g \in held' : FromSlab(g)' \/ FromPages(g)'
    BY <1>u, <2>1, <2>2 DEF HeldInv
  <2>. QED BY <1>u, <1>m, <2>3 DEF HeldInv
<1>12. ReturnInv'
  <2>1. ASSUME NEW r \in Chain, NEW c \in Chunks(r), c \notin allocation_map_[r]
        PROVE  \E g \in held' : g.ptr = ChunkPtr(r, c)
    <3>1. PICK g \in held : g.ptr = ChunkPtr(r, c)
      BY <1>0, <2>1 DEF ReturnInv
    <3>2. owns(r, g.ptr)
      BY <1>0, <3>1, ChunkPtrs
    <3>. QED BY <1>u, <1>2, <3>1, <3>2
  <2>2. ASSUME NEW c \in blocks', ~\E r \in Slabs : r < step /\ area_[r] = c.ptr
        PROVE  \E g \in held' : g.ptr = c.ptr * PAGE_SIZE
    <3>1. PICK g \in held : g.ptr = c.ptr * PAGE_SIZE
      BY <1>0, <1>1, <2>2 DEF ReturnInv
    <3>2. g # h
      <4>. SUFFICES ASSUME g = h PROVE FALSE
        OBVIOUS
      <4>1. InBlock(b, h.ptr) /\ InBlock(c, h.ptr) /\ h.ptr \in Int /\ c \in blocks /\ c # b
        BY <1>1, <3>1, BlockBytes DEF Types
      <4>. QED BY <4>1, OneBlock
    <3>. QED BY <1>u, <3>1, <3>2
  <2>. QED BY <1>u, <1>m, <2>1, <2>2 DEF ReturnInv
<1>. QED BY <1>8, <1>9, <1>10, <1>11, <1>12

-----------------------------------------------------------------------------
(* The theorems.                                                           *)

\* IInv is inductive (mallocator.cpp, slab.cpp).
LEMMA SpecKeepsInv == HeapSpec => []IInv
<1>1. IInv /\ [HeapNext]_heap_vars => IInv'
  <2>. SUFFICES ASSUME IInv, [HeapNext]_heap_vars PROVE IInv'
    OBVIOUS
  <2>1. CASE InitializeSlab
    BY <2>1, InitializeSlabKeepsInv
  <2>2. CASE InitializePanics
    BY <2>2, InitializePanicsKeepsInv
  <2>3. ASSUME NEW bytes \in Bytes, KmallocFromSlab(bytes) \/ KmallocPages(bytes)
        PROVE  IInv'
    BY <2>3, HeapAssumption, KmallocFromSlabKeepsInv, KmallocPagesKeepsInv
  <2>4. ASSUME NEW h \in held, KfreeToSlab(h) \/ KfreePages(h)
        PROVE  IInv'
    BY <2>4, KfreeToSlabKeepsInv, KfreePagesKeepsInv
  <2>5. CASE UNCHANGED heap_vars
    BY <2>5 DEF heap_vars, IInv, Types, BlocksInv, SlabsInv, HeldInv, ReturnInv,
       FromSlab, FromPages, SlabBlock, ChunkPtr, memory_
  <2>. QED BY <2>1, <2>2, <2>3, <2>4, <2>5 DEF HeapNext
<1>. QED BY <1>1, InitEstablishesInv, PTL DEF HeapSpec

\* The bytes of an allocation: in a chunk that a slab owns, or in a block that
\* is no slab's.
LEMMA BytesAt ==
  ASSUME IInv, step = ready, NEW h \in held, NEW p \in BytesOf(h)
  PROVE  /\ p \in Nat
         /\ \/ \E s \in Chain : \E chunk \in Chunks(s) :
                 /\ h.ptr = ChunkPtr(s, chunk)
                 /\ owns(s, p)
                 /\ (p - memory_(s)) \div elem_size_(s) = chunk
            \/ \E b \in blocks :
                 /\ \A s \in Slabs : area_[s] # b.ptr
                 /\ h.ptr = b.ptr * PAGE_SIZE
                 /\ InBlock(b, p)
<1>. USE DEF IInv
<1>0. (\A s \in Slabs : s < step) /\ Chain \subseteq Slabs
  BY AllInitialized
<1>1. h.ptr \in Nat /\ h.bytes \in Nat
  BY DEF Types
<1>2. Max({h.bytes, 1}) = IF h.bytes >= 1 THEN h.bytes ELSE 1
  BY <1>1 DEF Max
<1>3. /\ p \in Nat /\ h.ptr <= p
      /\ p < h.ptr + h.bytes \/ p < h.ptr + 1
  BY <1>1, <1>2 DEF BytesOf, Extent
<1>4. CASE FromPages(h)
  <2>1. PICK b \in blocks :
          /\ \A s \in Slabs : area_[s] # b.ptr
          /\ h.ptr = b.ptr * PAGE_SIZE
          /\ h.bytes > 0
          /\ h.bytes <= b.size * PAGE_SIZE
    BY <1>4 DEF FromPages
  <2>2. /\ b.size * PAGE_SIZE \in Nat
        /\ (b.ptr + b.size) * PAGE_SIZE = b.ptr * PAGE_SIZE + b.size * PAGE_SIZE
    BY BlockBytes DEF Types
  <2>3. InBlock(b, p)
    BY <1>1, <1>3, <2>1, <2>2 DEF InBlock
  <2>. QED BY <1>3, <2>1, <2>3
<1>5. CASE ~FromPages(h)
  <2>1. PICK s \in Chain : owns(s, h.ptr)
    BY <1>5, Owner
  <2>. DEFINE chunk == (h.ptr - memory_(s)) \div elem_size_(s)
  <2>2. /\ chunk \in Chunks(s)
        /\ h.ptr = ChunkPtr(s, chunk)
        /\ h.bytes <= elem_size_(s)
    BY <2>1, Owner
  <2>. HIDE DEF chunk
  <2>3. elem_size_(s) \in Nat \ {0}
    BY <1>0, Sizes
  <2>4. ChunkPtr(s, chunk) <= p /\ p < ChunkPtr(s, chunk) + elem_size_(s)
    BY <1>1, <1>3, <2>2, <2>3
  <2>5. owns(s, p) /\ (p - memory_(s)) \div elem_size_(s) = chunk
    BY <1>0, <1>3, <2>2, <2>4, ChunkIsOwned
  <2>. QED BY <1>3, <2>2, <2>5
<1>. QED BY <1>4, <1>5

\* No byte is the allocator's own and a caller's.
LEMMA OwnBytesAreNotGiven ==
  ASSUME IInv, step = ready, NEW h \in held
  PROVE  BytesOf(h) \cap OwnBytes = {}
<1>. USE DEF IInv
<1>0. (\A s \in Slabs : s < step) /\ Chain \subseteq Slabs
  BY AllInitialized
<1>. SUFFICES ASSUME NEW p \in BytesOf(h), p \in OwnBytes PROVE FALSE
  OBVIOUS
<1>i. internal_allocator_ \in Slabs /\ internal_allocator_ \notin Chain
  BY DEF Slabs, Chain, internal_allocator_
<1>1. ASSUME NEW s \in Slabs, p \in Extent(area_[s] * PAGE_SIZE, expected_size(nelems_(s)))
      PROVE  InBlock(SlabBlock(s), p) /\ ~owns(s, p)
  <2>1. /\ area_[s] \in Nat /\ required_pages(s) \in Nat \ {0} /\ PAGE_SIZE \in Nat
        /\ expected_size(nelems_(s)) \in Nat /\ nelems_(s) * elem_size_(s) \in Nat
        /\ 0 \in Chunks(s)
    BY Sizes, HeapAssumption DEF Types, Chunks
  <2>2. /\ memory_(s) \in Nat
        /\ memory_(s) = area_[s] * PAGE_SIZE + expected_size(nelems_(s))
        /\ memory_(s) + nelems_(s) * elem_size_(s)
             <= (area_[s] + required_pages(s)) * PAGE_SIZE
    BY <2>1, ChunkGeometry
  <2>3. area_[s] * PAGE_SIZE \in Nat /\ (area_[s] + required_pages(s)) * PAGE_SIZE \in Nat
    BY <2>1, Scale
  <2>4. area_[s] * PAGE_SIZE <= p /\ p < memory_(s) /\ p \in Int
    BY <1>1, <2>1, <2>2, <2>3 DEF Extent
  <2>5. InBlock(SlabBlock(s), p)
    <3>1. p < (area_[s] + required_pages(s)) * PAGE_SIZE
      BY <2>1, <2>2, <2>3, <2>4
    <3>. QED BY <2>4, <3>1 DEF InBlock, SlabBlock
  <2>. QED BY <2>2, <2>4, <2>5 DEF owns
<1>2. ASSUME p \in Extent(memory_(internal_allocator_), elem_size_(internal_allocator_))
      PROVE  owns(internal_allocator_, p)
  <2>1. /\ elem_size_(internal_allocator_) \in Nat
        /\ 0 \in Chunks(internal_allocator_)
        /\ nelems_(internal_allocator_) = 1
    BY <1>i, Sizes DEF Chunks, nelems_
  <2>2. memory_(internal_allocator_) \in Nat
    BY <1>i, <2>1, ChunkGeometry
  <2>3. 1 * elem_size_(internal_allocator_) = elem_size_(internal_allocator_)
    BY <2>1
  <2>. QED BY <1>2, <2>1, <2>2, <2>3 DEF Extent, owns
<1>3. PICK r \in Slabs : InBlock(SlabBlock(r), p) /\ (r \in Chain => ~owns(r, p))
  <2>1. CASE \E s \in Slabs : p \in Extent(area_[s] * PAGE_SIZE, expected_size(nelems_(s)))
    BY <1>1, <2>1
  <2>2. CASE p \in Extent(memory_(internal_allocator_), elem_size_(internal_allocator_))
    <3>1. InBlock(SlabBlock(internal_allocator_), p)
      BY <1>2, <1>i, <2>2, BytesAt, OwnedIsInBlock
    <3>. QED BY <1>i, <3>1
  <2>. DEFINE maps == UNION {Extent(area_[s] * PAGE_SIZE, expected_size(nelems_(s))) : s \in Slabs}
              chain == Extent(memory_(internal_allocator_), elem_size_(internal_allocator_))
  <2>3. p \in maps => \E s \in Slabs : p \in Extent(area_[s] * PAGE_SIZE, expected_size(nelems_(s)))
    BY Zenon
  <2>4. OwnBytes = maps \cup chain
    BY DEF OwnBytes
  <2>. HIDE DEF maps, chain
  <2>5. p \in maps \/ p \in chain
    BY <2>4
  <2>. QED BY <2>1, <2>2, <2>3, <2>5 DEF chain
<1>4. SlabBlock(r) \in blocks /\ SlabBlock(r).ptr = area_[r]
  BY <1>0 DEF SlabsInv, SlabBlock
<1>5. p \in Nat
  BY BytesAt
<1>6. CASE \E s \in Chain : owns(s, p)
  <2>1. PICK s \in Chain : owns(s, p)
    BY <1>6
  <2>2. SlabBlock(s) \in blocks /\ SlabBlock(s).ptr = area_[s] /\ InBlock(SlabBlock(s), p)
    BY <1>0, <1>5, <2>1, OwnedIsInBlock DEF SlabsInv, SlabBlock
  <2>3. SlabBlock(s) = SlabBlock(r)
    BY <1>3, <1>4, <1>5, <2>2, OneBlock
  <2>4. s = r
    BY <1>0, <1>4, <2>2, <2>3 DEF SlabsInv
  <2>. QED BY <1>3, <2>1, <2>4
<1>7. CASE ~\E s \in Chain : owns(s, p)
  <2>1. PICK b \in blocks : (\A s \in Slabs : area_[s] # b.ptr) /\ InBlock(b, p)
    BY <1>7, BytesAt
  <2>2. b = SlabBlock(r)
    BY <1>3, <1>4, <1>5, <2>1, OneBlock
  <2>. QED BY <1>4, <2>1, <2>2
<1>. QED BY <1>6, <1>7

\* Two allocations share no byte.
LEMMA AllocationsAreApart ==
  ASSUME IInv, step = ready, NEW g \in held, NEW h \in held, g # h
  PROVE  BytesOf(g) \cap BytesOf(h) = {}
<1>. USE DEF IInv
<1>0. (\A s \in Slabs : s < step) /\ Chain \subseteq Slabs
  BY AllInitialized
<1>. SUFFICES ASSUME NEW p \in BytesOf(g), p \in BytesOf(h) PROVE FALSE
  OBVIOUS
<1>1. p \in Nat
  BY BytesAt
<1>2. CASE \E s \in Chain : owns(s, p)
  <2>1. PICK s \in Chain : owns(s, p)
    BY <1>2
  <2>2. ASSUME NEW b \in blocks, \A r \in Slabs : area_[r] # b.ptr, InBlock(b, p)
        PROVE  FALSE
    BY <1>0, <1>1, <2>1, <2>2, BlockIsNotOwned
  <2>3. \A r \in Chain : owns(r, p) => r = s
    BY <1>0, <1>1, <2>1, OneOwner
  <2>4. g.ptr = ChunkPtr(s, (p - memory_(s)) \div elem_size_(s))
    BY <2>2, <2>3, BytesAt
  <2>5. h.ptr = ChunkPtr(s, (p - memory_(s)) \div elem_size_(s))
    BY <2>2, <2>3, BytesAt
  <2>. QED BY <2>4, <2>5 DEF HeldInv
<1>3. CASE ~\E s \in Chain : owns(s, p)
  <2>1. PICK b \in blocks : g.ptr = b.ptr * PAGE_SIZE /\ InBlock(b, p)
    BY <1>3, BytesAt
  <2>2. PICK c \in blocks : h.ptr = c.ptr * PAGE_SIZE /\ InBlock(c, p)
    BY <1>3, BytesAt
  <2>3. b = c
    BY <1>1, <2>1, <2>2, OneBlock
  <2>. QED BY <2>1, <2>2, <2>3 DEF HeldInv
<1>. QED BY <1>2, <1>3

\* The bytes of an allocation are in one block of the page allocator.
LEMMA BytesInOneBlock ==
  ASSUME IInv, step = ready, NEW h \in held
  PROVE  \E b \in blocks :
           BytesOf(h) \subseteq Extent(b.ptr * PAGE_SIZE, b.size * PAGE_SIZE)
<1>. USE DEF IInv
<1>0. (\A s \in Slabs : s < step) /\ Chain \subseteq Slabs
  BY AllInitialized
<1>1. ASSUME NEW b \in blocks, NEW p \in Nat, InBlock(b, p)
      PROVE  p \in Extent(b.ptr * PAGE_SIZE, b.size * PAGE_SIZE)
  <2>1. /\ b.ptr * PAGE_SIZE \in Nat /\ b.size * PAGE_SIZE \in Nat
        /\ (b.ptr + b.size) * PAGE_SIZE = b.ptr * PAGE_SIZE + b.size * PAGE_SIZE
    BY BlockBytes DEF Types
  <2>. QED BY <1>1, <2>1 DEF InBlock, Extent
<1>2. PICK b \in blocks : InBlock(b, h.ptr)
  BY Home
<1>3. ASSUME NEW p \in BytesOf(h) PROVE InBlock(b, p) /\ p \in Nat
  <2>0. h.ptr \in Nat
    BY DEF Types
  <2>1. CASE \E s \in Chain : \E chunk \in Chunks(s) :
               h.ptr = ChunkPtr(s, chunk) /\ owns(s, p)
    <3>1. PICK s \in Chain : \E chunk \in Chunks(s) :
            h.ptr = ChunkPtr(s, chunk) /\ owns(s, p)
      BY <2>1
    <3>2. owns(s, h.ptr)
      BY <1>0, <3>1, ChunkPtrs
    <3>3. InBlock(SlabBlock(s), h.ptr) /\ InBlock(SlabBlock(s), p) /\ SlabBlock(s) \in blocks
      BY <1>0, <2>0, <3>1, <3>2, BytesAt, OwnedIsInBlock DEF SlabsInv
    <3>4. b = SlabBlock(s)
      BY <1>2, <2>0, <3>3, OneBlock
    <3>. QED BY <3>3, <3>4, BytesAt
  <2>2. CASE \E c \in blocks : h.ptr = c.ptr * PAGE_SIZE /\ InBlock(c, p)
    <3>1. PICK c \in blocks : h.ptr = c.ptr * PAGE_SIZE /\ InBlock(c, p)
      BY <2>2
    <3>2. InBlock(c, h.ptr)
      BY <3>1, BlockBytes DEF Types
    <3>3. b = c
      BY <1>2, <2>0, <3>1, <3>2, OneBlock
    <3>. QED BY <3>1, <3>3, BytesAt
  <2>. QED BY <2>1, <2>2, BytesAt
<1>. QED BY <1>1, <1>3

\* However kmalloc and kfree are called, no two callers share a byte, and
\* none has a byte of the allocator's own or of a free page
\* (mallocator.cpp:40-64, slab.cpp:18-61).
THEOREM AllocationsAlwaysDisjoint == HeapSpec => []AllocationsAreDisjoint
<1>1. IInv => AllocationsAreDisjoint
  BY OwnBytesAreNotGiven, BytesInOneBlock, AllocationsAreApart DEF AllocationsAreDisjoint
<1>. QED BY <1>1, SpecKeepsInv, PTL

\* A chunk is free exactly if nobody holds it, and the page allocator's blocks
\* in use are those of the slabs and of the callers: kfree loses nothing
\* (mallocator.cpp:67-79, slab.cpp:64-92).
THEOREM FreedMemoryAlwaysReturns == HeapSpec => []FreedMemoryReturns
<1>1. IInv => FreedMemoryReturns
  <2>. SUFFICES ASSUME IInv, step = ready PROVE FreedMemoryReturns
    BY DEF FreedMemoryReturns
  <2>. USE DEF IInv
  <2>0. (\A s \in Slabs : s < step) /\ Chain \subseteq Slabs /\ step # heap_panicked
    BY AllInitialized
  <2>1. ASSUME NEW s \in Chain, NEW chunk \in Chunks(s)
        PROVE  chunk \in allocation_map_[s]
                 <=> \A h \in held : h.ptr # ChunkPtr(s, chunk)
    <3>1. ASSUME chunk \in allocation_map_[s], NEW h \in held PROVE h.ptr # ChunkPtr(s, chunk)
      <4>. SUFFICES ASSUME h.ptr = ChunkPtr(s, chunk) PROVE FALSE
        OBVIOUS
      <4>1. /\ owns(s, ChunkPtr(s, chunk))
            /\ (ChunkPtr(s, chunk) - memory_(s)) \div elem_size_(s) = chunk
        BY <2>0, ChunkPtrs
      <4>. QED BY <3>1, <4>1, Owner
    <3>2. ASSUME chunk \notin allocation_map_[s] PROVE \E h \in held : h.ptr = ChunkPtr(s, chunk)
      BY <2>0, <3>2 DEF ReturnInv
    <3>. QED BY <3>1, <3>2
  <2>2. \A b \in blocks : (b.ptr * PAGE_SIZE) \div PAGE_SIZE = b.ptr
    <3>. SUFFICES ASSUME NEW b \in blocks PROVE (b.ptr * PAGE_SIZE) \div PAGE_SIZE = b.ptr
      OBVIOUS
    <3>1. b.ptr \in Nat /\ PAGE_SIZE \in Nat \ {0} /\ 0 \in 0 .. (PAGE_SIZE - 1)
      BY HeapAssumption DEF Types
    <3>2. (b.ptr * PAGE_SIZE + 0) \div PAGE_SIZE = b.ptr
      BY <3>1, QuotientIsUnique
    <3>3. b.ptr * PAGE_SIZE + 0 = b.ptr * PAGE_SIZE
      BY BlockBytes DEF Types
    <3>. QED BY <3>2, <3>3
  <2>3. ASSUME NEW b \in blocks
        PROVE  \/ \E s \in Slabs : b.ptr = area_[s]
               \/ \E h \in held : b.ptr = h.ptr \div PAGE_SIZE
                                  /\ \A s \in Chain : ~owns(s, h.ptr)
    <3>1. CASE \E s \in Slabs : b.ptr = area_[s]
      BY <3>1
    <3>2. CASE ~\E s \in Slabs : b.ptr = area_[s]
      <4>1. PICK h \in held : h.ptr = b.ptr * PAGE_SIZE
        BY <2>0, <3>2 DEF ReturnInv
      <4>2. InBlock(b, h.ptr) /\ h.ptr \in Int
        BY <4>1, BlockBytes DEF Types
      <4>3. \A s \in Chain : ~owns(s, h.ptr)
        BY <2>0, <3>2, <4>2, BlockIsNotOwned
      <4>. QED BY <2>2, <4>1, <4>3
    <3>. QED BY <3>1, <3>2
  <2>4. ASSUME NEW s \in Slabs PROVE \E b \in blocks : b.ptr = area_[s]
    BY <2>0 DEF SlabsInv, SlabBlock
  <2>5. ASSUME NEW h \in held, \A s \in Chain : ~owns(s, h.ptr)
        PROVE  \E b \in blocks : b.ptr = h.ptr \div PAGE_SIZE
    BY <2>2, <2>5, Owner DEF FromPages
  <2>6. {b.ptr : b \in blocks} =
          {area_[s] : s \in Slabs}
            \cup {h.ptr \div PAGE_SIZE :
                    h \in {g \in held : \A s \in Chain : ~owns(s, g.ptr)}}
    BY <2>3, <2>4, <2>5
  <2>. QED BY <2>1, <2>6 DEF FreedMemoryReturns, Chunks, ChunkPtr
<1>. QED BY <1>1, SpecKeepsInv, PTL
=============================================================================
