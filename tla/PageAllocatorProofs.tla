------------------------ MODULE PageAllocatorProofs ------------------------
(***************************************************************************)
(* Proofs about PageAllocator, for every region, every maximal order and   *)
(* every request size.                                                     *)
(*                                                                         *)
(* The argument: the extents (free blocks, the locals of the call in       *)
(* progress, the clients' blocks) partition the managed pages.  Every step *)
(* only renames an extent, splits one in two or joins two neighbours, and  *)
(* each of these keeps a partition a partition.  deallocate() relies on    *)
(* map_, so that map_ marks the ends of the clients' blocks belongs to the *)
(* inductive invariant.                                                    *)
(***************************************************************************)
EXTENDS PageAllocator, TLAPS, WellFoundedInduction

\* Extents with the fields the partition lemmas compute with.
Typed(E) == \A e \in E : e.ptr \in Nat /\ e.size \in Nat \ {0}

-----------------------------------------------------------------------------
(* The natural numbers are well ordered.                                   *)

Less == {ss \in Nat \X Nat : ss[1] < ss[2]}

\* The order on the natural numbers, as a set of pairs, is well founded.
LEMMA LessWellFounded == IsWellFoundedOn(Less, Nat)
<1>1. Less = OpToRel(<, Nat)
  BY Zenon DEF Less, OpToRel
<1>2. QED
  BY <1>1, NatLessThanWellFounded, Zenon

\* A non-empty set of natural numbers has a least element.
LEMMA NatMin ==
  ASSUME NEW T \in SUBSET Nat, T # {}
  PROVE  \E x \in T : \A y \in T : x <= y
<1>1. PICK x \in T : \A y \in T : ~ (<<y, x>> \in Less)
  BY WFMin, LessWellFounded
<1>2. ASSUME NEW y \in T
      PROVE  x <= y
  <2>1. ~ (<<y, x>> \in Less)
    BY <1>1
  <2>2. y < x => <<y, x>> \in Less
    BY DEF Less
  <2>3. QED
    BY <2>1, <2>2
<1>3. QED
  BY <1>2

\* compute_order finds an order for every non-empty block, and a block of
\* that order fits and is aligned (buddy_allocator.cpp:104-121).
LEMMA ComputeOrderFits ==
  ASSUME NEW b \in pblk_t, b.size > 0
  PROVE  /\ compute_order(b) \in Orders
         /\ 2^compute_order(b) <= b.size
         /\ Aligned(b.ptr, compute_order(b))
<1> DEFINE Fits(o) == Aligned(b.ptr, o) /\ 2^o <= b.size
           Gaps == {n \in Nat : \E o \in Orders : n = MaxOrder - o /\ Fits(o)}
<1>1. Fits(0) /\ 0 \in Orders
  <2>1. b.ptr \in Nat /\ b.size \in Nat
    BY DEF pblk_t
  <2>2. 0 \in Orders
    BY MaxOrderAssumption DEF Orders
  <2>3. b.ptr % 1 = 0
    BY <2>1
  <2>4. QED
    BY <2>1, <2>2, <2>3, PowersOfTwo DEF Aligned
<1>2. MaxOrder \in Gaps
  <2>1. MaxOrder = MaxOrder - 0 /\ MaxOrder \in Nat
    BY MaxOrderAssumption
  <2>2. \E o \in Orders : MaxOrder = MaxOrder - o /\ Fits(o)
    BY <1>1, <2>1, Zenon
  <2>3. QED
    BY <2>1, <2>2, Zenon
<1>3. PICK least \in Gaps : \A n \in Gaps : least <= n
  BY <1>2, NatMin
<1>4. PICK order \in Orders : least = MaxOrder - order /\ Fits(order)
  BY <1>3
<1>5. ASSUME NEW o \in Orders, Fits(o)
      PROVE  o <= order
  <2>1. MaxOrder - o \in Gaps
    BY <1>5, MaxOrderAssumption DEF Orders
  <2>2. QED
    BY <2>1, <1>3, <1>4, MaxOrderAssumption DEF Orders
<1>6. \E o \in Orders : /\ Aligned(b.ptr, o)
                        /\ 2^o <= b.size
                        /\ \A p \in Orders : Aligned(b.ptr, p) /\ 2^p <= b.size => p <= o
  BY <1>4, <1>5
<1>7. QED
  BY <1>6 DEF compute_order

-----------------------------------------------------------------------------
(* Three ways to rearrange a partition.                                    *)

\* Renaming an extent keeps the partition.
LEMMA RenameKeepsPartition ==
  ASSUME NEW E, Typed(E), PartitionsManaged(E),
         NEW e \in E, NEW new, new.ptr = e.ptr, new.size = e.size
  PROVE  /\ PartitionsManaged((E \ {e}) \cup {new})
         /\ Typed((E \ {e}) \cup {new})
<1> DEFINE F == (E \ {e}) \cup {new}
<1>1. Typed(F)
  BY DEF Typed
<1>2. ASSUME NEW e1 \in F, NEW e2 \in F, e1 # e2
      PROVE  Disjoint(e1, e2)
  BY <1>2 DEF PartitionsManaged, Typed, Disjoint
<1>3. ASSUME NEW f \in F
      PROVE  FirstPage <= f.ptr /\ f.ptr + f.size <= RegionEnd
  BY DEF PartitionsManaged
<1>4. ASSUME NEW page \in Managed
      PROVE  \E f \in F : page \in Extent(f.ptr, f.size)
  BY DEF PartitionsManaged
<1>5. QED
  BY <1>1, <1>2, <1>3, <1>4 DEF PartitionsManaged

\* Splitting an extent in two keeps the partition.
LEMMA SplitKeepsPartition ==
  ASSUME NEW E, Typed(E), PartitionsManaged(E),
         NEW e \in E, NEW left, NEW right,
         left.size \in Nat \ {0}, right.size \in Nat \ {0},
         left.ptr = e.ptr, right.ptr = e.ptr + left.size,
         left.size + right.size = e.size
  PROVE  /\ PartitionsManaged((E \ {e}) \cup {left, right})
         /\ Typed((E \ {e}) \cup {left, right})
<1> DEFINE F == (E \ {e}) \cup {left, right}
<1>1. Typed(F)
  BY DEF Typed
<1>2. ASSUME NEW e1 \in F, NEW e2 \in F, e1 # e2
      PROVE  Disjoint(e1, e2)
  BY <1>2 DEF PartitionsManaged, Typed, Disjoint
<1>3. ASSUME NEW f \in F
      PROVE  FirstPage <= f.ptr /\ f.ptr + f.size <= RegionEnd
  BY RegionAssumption DEF PartitionsManaged, Typed, FirstPage
<1>4. ASSUME NEW page \in Managed
      PROVE  \E f \in F : page \in Extent(f.ptr, f.size)
  <2>1. PICK d \in E : page \in Extent(d.ptr, d.size)
    BY DEF PartitionsManaged
  <2>2. CASE d # e
    BY <2>1, <2>2
  <2>3. CASE d = e
    BY <2>1, <2>3 DEF Extent, Typed
  <2>4. QED
    BY <2>2, <2>3
<1>5. QED
  BY <1>1, <1>2, <1>3, <1>4 DEF PartitionsManaged

\* Joining two adjacent extents keeps the partition.
LEMMA JoinKeepsPartition ==
  ASSUME NEW E, Typed(E), PartitionsManaged(E),
         NEW left \in E, NEW right \in E, NEW new,
         right.ptr = left.ptr + left.size,
         new.ptr = left.ptr, new.size = left.size + right.size
  PROVE  /\ PartitionsManaged((E \ {left, right}) \cup {new})
         /\ Typed((E \ {left, right}) \cup {new})
<1> DEFINE F == (E \ {left, right}) \cup {new}
<1>1. Typed(F)
  BY DEF Typed
<1>2. ASSUME NEW e1 \in F, NEW e2 \in F, e1 # e2
      PROVE  Disjoint(e1, e2)
  BY <1>2 DEF PartitionsManaged, Typed, Disjoint
<1>3. ASSUME NEW f \in F
      PROVE  FirstPage <= f.ptr /\ f.ptr + f.size <= RegionEnd
  BY RegionAssumption DEF PartitionsManaged, Typed, FirstPage
<1>4. ASSUME NEW page \in Managed
      PROVE  \E f \in F : page \in Extent(f.ptr, f.size)
  <2>1. PICK d \in E : page \in Extent(d.ptr, d.size)
    BY DEF PartitionsManaged
  <2>2. CASE d \notin {left, right}
    BY <2>1, <2>2
  <2>3. CASE d \in {left, right}
    BY <2>1, <2>3 DEF Extent, Typed
  <2>4. QED
    BY <2>2, <2>3
<1>5. QED
  BY <1>1, <1>2, <1>3, <1>4 DEF PartitionsManaged

-----------------------------------------------------------------------------
(* FreeList::put.                                                          *)

\* The first managed page is not page 0, so no extent starts at nullptr.
LEMMA FirstPageIsNotNull == FirstPage \in Nat \ {0} /\ RegionEnd \in Nat
BY RegionAssumption DEF FirstPage

\* What allocate() answers is an answer.
LEMMA AnswersTyped ==
  /\ NoAnswer \in Answers
  /\ Answer(0, zero_size_page) \in Answers
  /\ \A pages, ptr \in Nat : Answer(pages, ptr) \in Answers
  /\ \A pages \in Nat : Answer(pages, nullptr) \in Answers
BY DEF NoAnswer, Answers, Answer, nullptr

\* A block of 2^order pages given to the list of its order ends up either in
\* that list, or joined with its buddy in the hands of put(): the rest of the
\* partition (Rest) is not touched (free_list.cpp:52-135).
LEMMA FreeListPutKeepsPartition ==
  ASSUME NEW Rest, \A r \in Rest : r.own \notin {"free", "squashed"},
         NEW frame \in Nat, NEW order \in Orders,
         free_list_ \in [Orders -> SUBSET Nat],
         FreeListPut(frame, order),
         Typed(FreeExtents \cup {Ext("squashed", order, frame, 2^order)} \cup Rest),
         PartitionsManaged(FreeExtents \cup {Ext("squashed", order, frame, 2^order)} \cup Rest)
  PROVE  /\ PartitionsManaged(FreeExtents' \cup SquashedExtents' \cup Rest)
         /\ free_list_' \in [Orders -> SUBSET Nat]
         /\ squashed_pages' \in Nat
         /\ putting_list' \in Orders
<1> DEFINE x == Ext("squashed", order, frame, 2^order)
           E == FreeExtents \cup {x} \cup Rest
           buddy == Buddy(frame, order)
           y == Ext("free", order, buddy, 2^order)
<1>1. /\ x.own = "squashed" /\ x.ptr = frame /\ x.size = 2^order
      /\ x \notin Rest
      /\ \A f \in FreeExtents : f.own = "free"
  <2>1. \A f \in FreeExtents : f.own = "free"
    BY DEF FreeExtents, Ext
  <2>2. QED
    BY <2>1 DEF Ext
<1>2. x \notin FreeExtents
  BY <1>1
<1>3. CASE ~Squashes(frame, order)
  <2> DEFINE new == Ext("free", order, frame, 2^order)
  <2>1. /\ free_list_' = [free_list_ EXCEPT ![order] = @ \cup {frame}]
        /\ squashed_pages' = nullptr
        /\ putting_list' = 0
    BY <1>3 DEF FreeListPut
  <2>2. FreeExtents' = FreeExtents \cup {new}
    BY <2>1 DEF FreeExtents
  <2>3. SquashedExtents' = {}
    BY <2>1 DEF SquashedExtents
  <2>4. PartitionsManaged((E \ {x}) \cup {new})
    <3>1. x \in E
      OBVIOUS
    <3>2. new.ptr = x.ptr /\ new.size = x.size
      BY DEF Ext
    <3>3. QED
      BY <3>1, <3>2, RenameKeepsPartition
  <2>5. (E \ {x}) \cup {new} = FreeExtents' \cup SquashedExtents' \cup Rest
    BY <1>1, <1>2, <2>2, <2>3
  <2>6. free_list_' \in [Orders -> SUBSET Nat]
    BY <2>1
  <2>7. squashed_pages' \in Nat /\ putting_list' \in Orders
    BY <2>1, MaxOrderAssumption DEF nullptr, Orders
  <2>8. QED
    BY <2>4, <2>5, <2>6, <2>7
<1>4. CASE Squashes(frame, order)
  <2> DEFINE first == IF is_the_first_in_buddy(frame, order) THEN frame ELSE buddy
             new == Ext("squashed", order + 1, first, 2^(order + 1))
  <2>1. /\ free_list_' = [free_list_ EXCEPT ![order] = @ \ {buddy}]
        /\ squashed_pages' = first
        /\ putting_list' = order + 1
        /\ order # MaxOrder
        /\ buddy \in free_list_[order]
    BY <1>4 DEF FreeListPut, Squashes
  <2>2. y \in FreeExtents
    BY <2>1 DEF FreeExtents
  <2>3. FreeExtents' = FreeExtents \ {y}
    BY <2>1 DEF FreeExtents, Ext
  <2>4. /\ y.ptr = buddy /\ y.size = 2^order
        /\ y.own = "free" /\ y \notin Rest
    BY DEF Ext
  <2>5. buddy \in Nat /\ 2^order \in Nat \ {0} /\ 2^(order + 1) = 2 * 2^order
    BY <2>1, PowersOfTwo
  <2>6. first \in Nat /\ first # nullptr
    <3>1. x \in E /\ y \in E
      BY <2>2
    <3>2. FirstPage <= frame /\ FirstPage <= buddy
      BY <3>1, <1>1, <2>4 DEF PartitionsManaged
    <3>3. QED
      BY <3>2, <2>5, FirstPageIsNotNull DEF nullptr
  <2>7. SquashedExtents' = {new}
    BY <2>1, <2>6 DEF SquashedExtents
  <2>8. new.ptr = first /\ new.size = 2 * 2^order
    BY <2>5 DEF Ext
  <2>9. PartitionsManaged((E \ {x, y}) \cup {new})
    <3>1. x \in E /\ y \in E
      BY <2>2
    <3>2. CASE is_the_first_in_buddy(frame, order)
      <4>1. y.ptr = x.ptr + x.size /\ new.ptr = x.ptr /\ new.size = x.size + y.size
        BY <3>2, <1>1, <2>4, <2>5, <2>8 DEF Buddy
      <4>2. QED
        BY <3>1, <4>1, JoinKeepsPartition
    <3>3. CASE ~is_the_first_in_buddy(frame, order)
      <4>1. x.ptr = y.ptr + y.size /\ new.ptr = y.ptr /\ new.size = y.size + x.size
        BY <3>3, <1>1, <2>4, <2>5, <2>8 DEF Buddy
      <4>2. PartitionsManaged((E \ {y, x}) \cup {new})
        BY <3>1, <4>1, JoinKeepsPartition
      <4>3. {x, y} = {y, x}
        OBVIOUS
      <4>4. QED
        BY <4>2, <4>3
    <3>4. QED
      BY <3>2, <3>3
  <2>10. (E \ {x, y}) \cup {new} = FreeExtents' \cup SquashedExtents' \cup Rest
    BY <1>1, <1>2, <2>3, <2>4, <2>7
  <2>11. free_list_' \in [Orders -> SUBSET Nat]
    BY <2>1
  <2>12. squashed_pages' \in Nat /\ putting_list' \in Orders
    BY <2>1, <2>6, MaxOrderAssumption DEF Orders
  <2>13. QED
    BY <2>9, <2>10, <2>11, <2>12
<1>5. QED
  BY <1>3, <1>4

-----------------------------------------------------------------------------
(* The invariant.                                                          *)

\* In a state of the invariant every extent has an address and a size.
LEMMA ExtentsTyped == TypeOK /\ CallState => Typed(Extents)
<1> SUFFICES ASSUME TypeOK, CallState, NEW e \in Extents
             PROVE  e.ptr \in Nat /\ e.size \in Nat \ {0}
  BY DEF Typed
<1>1. CASE e \in FreeExtents
  BY <1>1, PowersOfTwo DEF FreeExtents, Ext, TypeOK
<1>2. CASE e \in SquashedExtents
  BY <1>2, PowersOfTwo DEF SquashedExtents, Ext, TypeOK
<1>3. CASE e \in PutExtents
  BY <1>3 DEF PutExtents, Ext, TypeOK, pblk_t
<1>4. CASE e \in AllocateExtents
  BY <1>4 DEF AllocateExtents, Ext, TypeOK, pblk_t
<1>5. CASE e \in ClientExtents
  BY <1>5 DEF ClientExtents, Ext, TypeOK, pblk_t, CallState
<1>6. QED
  BY <1>1, <1>2, <1>3, <1>4, <1>5 DEF Extents

\* initialize() gives the whole managed region to put().
LEMMA InitEstablishesIInv == Init => IInv
<1> SUFFICES ASSUME Init
             PROVE  IInv
  OBVIOUS
<1>1. FirstPage \in Nat \ {0} /\ RegionEnd \in Nat /\ FirstPage < RegionEnd
  BY FirstPageIsNotNull, RegionAssumption
<1>2. TypeOK
  BY <1>1, AnswersTyped, MaxOrderAssumption
     DEF Init, BuddyInit, TypeOK, pblk_t, EmptyBlock, nullptr, Orders
<1>3. CallState
  BY <1>1 DEF Init, CallState, EmptyBlock
<1>4. MapMarksLastPages
  BY DEF Init, MapMarksLastPages
<1>5. Extents = {Ext("put", 0, FirstPage, RegionEnd - FirstPage)}
  <2>1. FreeExtents = {} /\ SquashedExtents = {} /\ AllocateExtents = {} /\ ClientExtents = {}
    BY DEF Init, BuddyInit, FreeExtents, SquashedExtents, AllocateExtents,
           ClientExtents, EmptyBlock
  <2>2. PutExtents = {Ext("put", 0, FirstPage, RegionEnd - FirstPage)}
    BY <1>1 DEF Init, PutExtents
  <2>3. QED
    BY <2>1, <2>2 DEF Extents
<1>6. PagesHaveOneOwner
  BY <1>1, <1>5 DEF PagesHaveOneOwner, PartitionsManaged, Ext, Extent, Managed
<1>7. QED
  BY <1>2, <1>3, <1>4, <1>6 DEF IInv

\* A step of the put() loop keeps the invariant.
LEMMA PutBlockKeepsIInv ==
  ASSUME IInv, call # "none", PutBlock,
         UNCHANGED <<map_, call, free_memory, ret, live>>
  PROVE  IInv'
<1> DEFINE order == compute_order(blk)
           rest == [ptr |-> blk.ptr + 2^order, size |-> blk.size - 2^order]
           whole == Ext("put", 0, blk.ptr, blk.size)
           left == Ext("squashed", order, blk.ptr, 2^order)
           right == Ext("put", 0, rest.ptr, rest.size)
           Others == AllocateExtents \cup ClientExtents
           Rest == PutExtents' \cup Others
           E == FreeExtents \cup {left} \cup Rest
<1>1. /\ blk \in pblk_t /\ blk.ptr \in Nat /\ blk.size \in Nat /\ blk.size > 0
      /\ squashed_pages = nullptr
      /\ free_list_ \in [Orders -> SUBSET Nat]
  BY DEF IInv, TypeOK, pblk_t, PutBlock
<1>2. order \in Orders /\ 2^order <= blk.size /\ 2^order \in Nat \ {0}
  BY <1>1, ComputeOrderFits, PowersOfTwo
<1>3. FreeListPut(blk.ptr, order) /\ blk' = rest
  BY DEF PutBlock
<1>4. rest \in pblk_t /\ rest.ptr = blk.ptr + 2^order /\ rest.size = blk.size - 2^order
  BY <1>1, <1>2 DEF pblk_t
<1>5. Extents = FreeExtents \cup {whole} \cup Others
  BY <1>1 DEF Extents, PutExtents, SquashedExtents
<1>6. Typed(Extents) /\ PartitionsManaged(Extents)
  BY ExtentsTyped DEF IInv, PagesHaveOneOwner
<1>7. \A r \in Others : r.own \in {"allocate", "client"}
  BY DEF AllocateExtents, ClientExtents, Ext
<1>8. whole \notin FreeExtents /\ whole \notin Others
  <2>1. \A f \in FreeExtents : f.own = "free"
    BY DEF FreeExtents, Ext
  <2>2. whole.own = "put"
    BY DEF Ext
  <2>3. QED
    BY <1>7, <2>1, <2>2
<1>9. /\ whole.ptr = blk.ptr /\ whole.size = blk.size
      /\ left.ptr = blk.ptr /\ left.size = 2^order
      /\ right.ptr = rest.ptr /\ right.size = rest.size
  BY DEF Ext
<1>10. Typed(E) /\ PartitionsManaged(E)
  <2>1. whole \in Extents
    BY <1>5
  <2>2. CASE rest.size > 0
    <3>1. PutExtents' = {right}
      BY <1>3, <2>2 DEF PutExtents
    <3>2. E = (Extents \ {whole}) \cup {left, right}
      BY <1>5, <1>8, <3>1
    <3>3. right.size \in Nat \ {0} /\ left.size \in Nat \ {0}
      BY <1>1, <1>2, <1>4, <1>9, <2>2
    <3>4. right.ptr = whole.ptr + left.size /\ left.size + right.size = whole.size
      BY <1>1, <1>2, <1>4, <1>9
    <3>5. QED
      BY <1>6, <1>9, <2>1, <3>2, <3>3, <3>4, SplitKeepsPartition
  <2>3. CASE ~(rest.size > 0)
    <3>1. PutExtents' = {}
      BY <1>3, <2>3 DEF PutExtents
    <3>2. E = (Extents \ {whole}) \cup {left}
      BY <1>5, <1>8, <3>1
    <3>3. left.size = whole.size
      BY <1>1, <1>2, <1>4, <1>9, <2>3
    <3>4. QED
      BY <1>6, <1>9, <2>1, <3>2, <3>3, RenameKeepsPartition
  <2>4. QED
    BY <2>2, <2>3
<1>11. \A r \in Rest : r.own \notin {"free", "squashed"}
  <2>1. \A r \in PutExtents' : r.own = "put"
    BY DEF PutExtents, Ext
  <2>2. QED
    BY <1>7, <2>1
<1>12. /\ PartitionsManaged(FreeExtents' \cup SquashedExtents' \cup Rest)
       /\ free_list_' \in [Orders -> SUBSET Nat]
       /\ squashed_pages' \in Nat
       /\ putting_list' \in Orders
  BY <1>1, <1>2, <1>3, <1>10, <1>11, FreeListPutKeepsPartition
<1>13. Extents' = FreeExtents' \cup SquashedExtents' \cup Rest
  BY DEF Extents, AllocateExtents, ClientExtents
<1>14. TypeOK'
  BY <1>3, <1>4, <1>12 DEF IInv, TypeOK
<1>15. CallState'
  BY DEF IInv, CallState
<1>16. MapMarksLastPages'
  BY DEF IInv, MapMarksLastPages
<1>17. QED
  BY <1>12, <1>13, <1>14, <1>15, <1>16 DEF IInv, PagesHaveOneOwner

\* Moving a joined block one list up keeps the invariant.
LEMMA PutSquashedKeepsIInv ==
  ASSUME IInv, call # "none", PutSquashed,
         UNCHANGED <<map_, call, free_memory, ret, live>>
  PROVE  IInv'
<1> DEFINE x == Ext("squashed", putting_list, squashed_pages, 2^putting_list)
           Rest == PutExtents \cup AllocateExtents \cup ClientExtents
<1>1. /\ putting_list \in Orders /\ squashed_pages \in Nat
      /\ free_list_ \in [Orders -> SUBSET Nat]
      /\ squashed_pages # nullptr
      /\ FreeListPut(squashed_pages, putting_list)
      /\ blk' = blk
  BY DEF IInv, TypeOK, PutSquashed
<1>2. Extents = FreeExtents \cup {x} \cup Rest
  BY <1>1 DEF Extents, SquashedExtents
<1>3. Typed(Extents) /\ PartitionsManaged(Extents)
  BY ExtentsTyped DEF IInv, PagesHaveOneOwner
<1>4. \A r \in Rest : r.own \notin {"free", "squashed"}
  BY DEF PutExtents, AllocateExtents, ClientExtents, Ext
<1>5. /\ PartitionsManaged(FreeExtents' \cup SquashedExtents' \cup Rest)
      /\ free_list_' \in [Orders -> SUBSET Nat]
      /\ squashed_pages' \in Nat
      /\ putting_list' \in Orders
  BY <1>1, <1>2, <1>3, <1>4, FreeListPutKeepsPartition
<1>6. Extents' = FreeExtents' \cup SquashedExtents' \cup Rest
  BY <1>1 DEF Extents, PutExtents, AllocateExtents, ClientExtents
<1>7. TypeOK'
  BY <1>1, <1>5 DEF IInv, TypeOK
<1>8. CallState'
  BY DEF IInv, CallState
<1>9. MapMarksLastPages'
  BY DEF IInv, MapMarksLastPages
<1>10. QED
  BY <1>5, <1>6, <1>7, <1>8, <1>9 DEF IInv, PagesHaveOneOwner

\* Taking a block out of a free list and cutting it into the requested part
\* and the part to be put back keeps the invariant.
LEMMA AllocateBeginKeepsIInv ==
  ASSUME IInv, NEW pages \in Request, AllocateBegin(pages)
  PROVE  IInv'
<1>0. PICK order \in Orders :
        \E f \in free_list_[order] : /\ Get(pages, f, order)
                                     /\ free_memory' = [ptr |-> f, size |-> pages]
  BY DEF AllocateBegin
<1>1. PICK frame \in free_list_[order] :
        /\ Get(pages, frame, order)
        /\ free_memory' = [ptr |-> frame, size |-> pages]
  BY <1>0
<1> DEFINE extra == [ptr |-> frame + pages, size |-> 2^order - pages]
           whole == Ext("free", order, frame, 2^order)
           left == Ext("allocate", 0, frame, pages)
           right == Ext("put", 0, frame + pages, 2^order - pages)
<1>2. /\ free_list_' = [free_list_ EXCEPT ![order] = @ \ {frame}]
      /\ blk' = extra /\ squashed_pages' = nullptr /\ putting_list' = 0
      /\ pages <= 2^order
  BY <1>1 DEF Get, GetFinds, PutBegin
<1>3. /\ call = "none" /\ call' = "allocate"
      /\ map_' = map_ /\ ret' = ret /\ live' = live
  BY DEF AllocateBegin
<1>4. /\ frame \in Nat /\ 2^order \in Nat \ {0} /\ pages \in Nat \ {0}
      /\ free_list_ \in [Orders -> SUBSET Nat]
  BY PowersOfTwo, MaxRequestAssumption DEF IInv, TypeOK, Request
<1>5. extra \in pblk_t /\ extra.ptr = frame + pages /\ extra.size = 2^order - pages
  BY <1>2, <1>4 DEF pblk_t
<1>6. TypeOK'
  BY <1>1, <1>2, <1>3, <1>4, <1>5, MaxOrderAssumption
     DEF IInv, TypeOK, pblk_t, nullptr, Orders
<1>7. CallState'
  BY <1>1, <1>3, <1>4 DEF IInv, CallState
<1>8. MapMarksLastPages'
  BY <1>3 DEF IInv, MapMarksLastPages
<1>9. Extents = FreeExtents \cup ClientExtents
  <2>1. blk.size = 0 /\ squashed_pages = nullptr /\ ~(free_memory.size > 0)
    BY <1>3 DEF IInv, CallState, PutDone
  <2>2. PutExtents = {} /\ SquashedExtents = {} /\ AllocateExtents = {}
    BY <2>1 DEF PutExtents, SquashedExtents, AllocateExtents
  <2>3. QED
    BY <2>2 DEF Extents
<1>10. Typed(Extents) /\ PartitionsManaged(Extents)
  BY ExtentsTyped DEF IInv, PagesHaveOneOwner
<1>11. whole \in FreeExtents /\ FreeExtents' = FreeExtents \ {whole}
  BY <1>2, <1>4 DEF FreeExtents, Ext
<1>12. whole \notin ClientExtents
  BY DEF ClientExtents, Ext
<1>13. /\ ClientExtents' = ClientExtents
       /\ SquashedExtents' = {}
       /\ AllocateExtents' = {left}
  BY <1>1, <1>2, <1>3, <1>4 DEF ClientExtents, SquashedExtents, AllocateExtents
<1>14. /\ whole.ptr = frame /\ whole.size = 2^order
       /\ left.ptr = frame /\ left.size = pages
       /\ right.ptr = frame + pages /\ right.size = 2^order - pages
  BY DEF Ext
<1>15. PartitionsManaged(Extents')
  <2>1. CASE extra.size > 0
    <3>1. PutExtents' = {right}
      BY <1>2, <1>5, <2>1 DEF PutExtents
    <3>2. Extents' = (Extents \ {whole}) \cup {left, right}
      BY <1>9, <1>11, <1>12, <1>13, <3>1 DEF Extents
    <3>3. /\ left.size \in Nat \ {0} /\ right.size \in Nat \ {0}
          /\ right.ptr = whole.ptr + left.size
          /\ left.size + right.size = whole.size
      BY <1>4, <1>5, <1>14, <2>1
    <3>4. QED
      BY <1>9, <1>10, <1>11, <1>14, <3>2, <3>3, SplitKeepsPartition
  <2>2. CASE ~(extra.size > 0)
    <3>1. PutExtents' = {}
      BY <1>2, <2>2 DEF PutExtents
    <3>2. Extents' = (Extents \ {whole}) \cup {left}
      BY <1>9, <1>11, <1>12, <1>13, <3>1 DEF Extents
    <3>3. left.size = whole.size
      BY <1>2, <1>4, <1>5, <1>14, <2>2
    <3>4. QED
      BY <1>9, <1>10, <1>11, <1>14, <3>2, <3>3, RenameKeepsPartition
  <2>3. QED
    BY <2>1, <2>2
<1>16. QED
  BY <1>6, <1>7, <1>8, <1>15 DEF IInv, PagesHaveOneOwner

\* Handing the block to the client and marking its last page keeps the
\* invariant.
LEMMA AllocateReturnsKeepsIInv ==
  ASSUME IInv, AllocateReturns
  PROVE  IInv'
<1> DEFINE x == Ext("allocate", 0, free_memory.ptr, free_memory.size)
           new == Ext("client", 0, free_memory.ptr, free_memory.size)
           Rest == FreeExtents \cup ClientExtents
<1>1. /\ call = "allocate" /\ call' = "none" /\ PutDone
      /\ map_' = map_ \cup {index_of(free_memory.ptr) + free_memory.size - 1}
      /\ ret' = Answer(free_memory.size, free_memory.ptr)
      /\ live' = live \cup {free_memory}
      /\ free_memory' = EmptyBlock
      /\ UNCHANGED <<free_list_, blk, squashed_pages, putting_list>>
  BY DEF AllocateReturns, buddyVars
<1>2. /\ free_memory \in pblk_t
      /\ free_memory.ptr \in Nat /\ free_memory.size \in Nat \ {0}
  BY <1>1 DEF IInv, TypeOK, CallState, pblk_t
<1>3. Typed(Extents) /\ PartitionsManaged(Extents)
  BY ExtentsTyped DEF IInv, PagesHaveOneOwner
<1>4. PutExtents = {} /\ SquashedExtents = {} /\ AllocateExtents = {x}
  BY <1>1, <1>2 DEF PutDone, PutExtents, SquashedExtents, AllocateExtents
<1>5. Extents = Rest \cup {x}
  BY <1>4 DEF Extents
<1>6. /\ FreeExtents' = FreeExtents
      /\ PutExtents' = {} /\ SquashedExtents' = {} /\ AllocateExtents' = {}
  BY <1>1, <1>4
     DEF FreeExtents, PutExtents, SquashedExtents, AllocateExtents, EmptyBlock
<1>7. ClientExtents' = ClientExtents \cup {new}
  BY <1>1 DEF ClientExtents
<1>8. x \notin Rest
  <2>1. \A f \in FreeExtents : f.own = "free"
    BY DEF FreeExtents, Ext
  <2>2. \A f \in ClientExtents : f.own = "client"
    BY DEF ClientExtents, Ext
  <2>3. x.own = "allocate"
    BY DEF Ext
  <2>4. QED
    BY <2>1, <2>2, <2>3
<1>9. Extents' = (Extents \ {x}) \cup {new}
  BY <1>5, <1>6, <1>7, <1>8 DEF Extents
<1>10. new.ptr = x.ptr /\ new.size = x.size
  BY DEF Ext
<1>11. PagesHaveOneOwner'
  BY <1>3, <1>5, <1>9, <1>10, RenameKeepsPartition DEF PagesHaveOneOwner
<1>12. index_of(free_memory.ptr) + free_memory.size - 1 \in Nat
  <2>1. FirstPage <= free_memory.ptr
    <3>1. x \in Extents /\ x.ptr = free_memory.ptr
      BY <1>5 DEF Ext
    <3>2. QED
      BY <1>3, <3>1 DEF PartitionsManaged
  <2>2. RegionBegin <= free_memory.ptr
    BY <1>2, <2>1, RegionAssumption DEF FirstPage
  <2>3. QED
    BY <1>2, <2>2, RegionAssumption DEF index_of
<1>13. TypeOK'
  BY <1>1, <1>2, <1>12, AnswersTyped DEF IInv, TypeOK, EmptyBlock, pblk_t, nullptr
<1>14. CallState'
  BY <1>1, <1>2 DEF IInv, CallState, PutDone, EmptyBlock
<1>15. MapMarksLastPages'
  BY <1>1 DEF IInv, MapMarksLastPages
<1>16. QED
  BY <1>11, <1>13, <1>14, <1>15 DEF IInv

\* The scan of deallocate() stops at the last page of the block that is
\* freed, and no other client's block ends there (page_allocator.cpp:66-76).
LEMMA ScanFindsBlockEnd ==
  ASSUME IInv, NEW b \in live, NEW last \in 0 .. (RegionSize - 1),
         ScanStops(index_of(b.ptr), last)
  PROVE  /\ last = index_of(b.ptr) + b.size - 1
         /\ \A c \in live : c # b => index_of(c.ptr) + c.size - 1 # last
<1>1. /\ RegionBegin \in Nat /\ RegionEnd \in Nat /\ RegionBegin <= FirstPage
      /\ FirstPage \in Nat
  BY RegionAssumption DEF FirstPage
<1>2. ASSUME NEW c \in live
      PROVE  /\ c.ptr \in Nat /\ c.size \in Nat \ {0}
             /\ FirstPage <= c.ptr /\ c.ptr + c.size <= RegionEnd
             /\ index_of(c.ptr) + c.size - 1 \in map_
  <2> DEFINE x == Ext("client", 0, c.ptr, c.size)
  <2>1. x \in Extents
    BY DEF Extents, ClientExtents
  <2>2. x.ptr = c.ptr /\ x.size = c.size
    BY DEF Ext
  <2>3. FirstPage <= x.ptr /\ x.ptr + x.size <= RegionEnd
    BY <2>1 DEF IInv, PagesHaveOneOwner, PartitionsManaged
  <2>4. c.ptr \in Nat /\ c.size \in Nat \ {0}
    BY DEF IInv, TypeOK, CallState, pblk_t
  <2>5. index_of(c.ptr) + c.size - 1 \in map_
    BY DEF IInv, MapMarksLastPages
  <2>6. QED
    BY <2>2, <2>3, <2>4, <2>5
<1>3. ASSUME NEW c \in live, c # b
      PROVE  c.ptr + c.size <= b.ptr \/ b.ptr + b.size <= c.ptr
  <2> DEFINE x == Ext("client", 0, c.ptr, c.size)
             y == Ext("client", 0, b.ptr, b.size)
  <2>1. x \in Extents /\ y \in Extents
    BY DEF Extents, ClientExtents
  <2>2. x.ptr = c.ptr /\ x.size = c.size /\ y.ptr = b.ptr /\ y.size = b.size
    BY DEF Ext
  <2>3. x # y
    <3>1. c.ptr # b.ptr \/ c.size # b.size
      <4>1. c \in pblk_t /\ b \in pblk_t
        BY DEF IInv, TypeOK
      <4>2. QED
        BY <1>3, <4>1 DEF pblk_t
    <3>2. QED
      BY <2>2, <3>1
  <2>4. Disjoint(x, y)
    BY <2>1, <2>3 DEF IInv, PagesHaveOneOwner, PartitionsManaged
  <2>5. QED
    BY <2>2, <2>4 DEF Disjoint
<1> DEFINE end == index_of(b.ptr) + b.size - 1
<1>4. /\ last \in index_of(b.ptr) .. (RegionSize - 1)
      /\ \A i \in index_of(b.ptr) .. (last - 1) : i \notin map_
      /\ last \in map_ \/ last = RegionSize - 1
  BY DEF ScanStops
<1>5. /\ end \in map_ /\ end \in Int /\ last \in Int
      /\ index_of(b.ptr) <= end /\ end <= RegionSize - 1
  BY <1>1, <1>2 DEF index_of, RegionSize
<1>6. last <= end
  <2>1. ~(end \in index_of(b.ptr) .. (last - 1))
    BY <1>4, <1>5
  <2>2. QED
    BY <1>1, <1>2, <1>5, <2>1 DEF index_of
<1>7. last \in map_
  BY <1>1, <1>4, <1>5, <1>6 DEF RegionSize
<1>8. PICK c \in live : last = index_of(c.ptr) + c.size - 1
  BY <1>7 DEF IInv, MapMarksLastPages
<1>9. c = b
  BY <1>1, <1>2, <1>3, <1>4, <1>5, <1>6, <1>8 DEF index_of
<1>10. last = end
  BY <1>8, <1>9
<1>11. ASSUME NEW d \in live, d # b
       PROVE  index_of(d.ptr) + d.size - 1 # last
  BY <1>1, <1>2, <1>3, <1>10, <1>11 DEF index_of
<1>12. QED
  BY <1>10, <1>11

\* Taking the block back from the client keeps the invariant.
LEMMA DeallocateBeginKeepsIInv ==
  ASSUME IInv, NEW b \in live, DeallocateBegin(b)
  PROVE  IInv'
<1>1. PICK last \in 0 .. (RegionSize - 1) :
        /\ ScanStops(index_of(b.ptr), last)
        /\ map_' = map_ \ {last}
        /\ PutBegin([ptr |-> b.ptr, size |-> last - index_of(b.ptr) + 1])
  BY DEF DeallocateBegin
<1>2. /\ last = index_of(b.ptr) + b.size - 1
      /\ \A c \in live : c # b => index_of(c.ptr) + c.size - 1 # last
  BY <1>1, ScanFindsBlockEnd
<1>3. /\ b \in pblk_t /\ b.ptr \in Nat /\ b.size \in Nat \ {0}
  BY DEF IInv, TypeOK, CallState, pblk_t
<1>4. /\ blk' = b /\ squashed_pages' = nullptr /\ putting_list' = 0
  <2>1. last - index_of(b.ptr) + 1 = b.size
    BY <1>2, <1>3, RegionAssumption DEF index_of
  <2>2. b = [ptr |-> b.ptr, size |-> b.size]
    BY <1>3 DEF pblk_t
  <2>3. QED
    BY <1>1, <2>1, <2>2 DEF PutBegin
<1>5. /\ call = "none" /\ call' = "deallocate" /\ live' = live \ {b}
      /\ free_list_' = free_list_ /\ free_memory' = free_memory
      /\ ret' = NoAnswer
  BY DEF DeallocateBegin
<1>6. TypeOK'
  BY <1>1, <1>3, <1>4, <1>5, AnswersTyped, MaxOrderAssumption
     DEF IInv, TypeOK, nullptr, Orders
<1>7. CallState'
  BY <1>5 DEF IInv, CallState
<1>8. MapMarksLastPages'
  <2>1. map_ = {index_of(c.ptr) + c.size - 1 : c \in live}
    BY DEF IInv, MapMarksLastPages
  <2>2. map_' = {index_of(c.ptr) + c.size - 1 : c \in live \ {b}}
    BY <1>1, <1>2, <2>1
  <2>3. QED
    BY <1>5, <2>2 DEF MapMarksLastPages
<1> DEFINE x == Ext("client", 0, b.ptr, b.size)
           new == Ext("put", 0, b.ptr, b.size)
<1>9. /\ PutExtents = {} /\ SquashedExtents = {} /\ AllocateExtents = {}
      /\ PutExtents' = {new} /\ SquashedExtents' = {} /\ AllocateExtents' = {}
      /\ FreeExtents' = FreeExtents
  BY <1>3, <1>4, <1>5
     DEF IInv, CallState, PutDone, PutExtents, SquashedExtents, AllocateExtents, FreeExtents
<1>10. ClientExtents' = ClientExtents \ {x}
  <2>1. ASSUME NEW c \in live, c # b
        PROVE  Ext("client", 0, c.ptr, c.size) # x
    <3>1. c \in pblk_t
      BY DEF IInv, TypeOK
    <3>2. c.ptr # b.ptr \/ c.size # b.size
      BY <1>3, <2>1, <3>1 DEF pblk_t
    <3>3. QED
      BY <3>2 DEF Ext
  <2>2. QED
    BY <1>5, <2>1 DEF ClientExtents
<1>11. x \in Extents /\ x \notin FreeExtents
  <2>1. \A f \in FreeExtents : f.own = "free"
    BY DEF FreeExtents, Ext
  <2>2. x.own = "client" /\ x \in ClientExtents
    BY DEF ClientExtents, Ext
  <2>3. QED
    BY <2>1, <2>2 DEF Extents
<1>12. Extents' = (Extents \ {x}) \cup {new}
  BY <1>9, <1>10, <1>11 DEF Extents
<1>13. PagesHaveOneOwner'
  <2>1. new.ptr = x.ptr /\ new.size = x.size
    BY DEF Ext
  <2>2. Typed(Extents) /\ PartitionsManaged(Extents)
    BY ExtentsTyped DEF IInv, PagesHaveOneOwner
  <2>3. QED
    BY <1>11, <1>12, <2>1, <2>2, RenameKeepsPartition DEF PagesHaveOneOwner
<1>14. QED
  BY <1>6, <1>7, <1>8, <1>13 DEF IInv

\* The steps that leave every owner as it is keep the invariant: a call that
\* returns without handing out memory, and a stuttering step.
LEMMA OwnersUnchangedKeepsIInv ==
  ASSUME IInv, UNCHANGED <<buddyVars, map_, free_memory, live>>,
         ret' \in Answers,
         \/ call' = call
         \/ call \in {"initialize", "deallocate"} /\ call' = "none" /\ PutDone
  PROVE  IInv'
<1>1. /\ free_list_' = free_list_ /\ blk' = blk
      /\ squashed_pages' = squashed_pages /\ putting_list' = putting_list
      /\ map_' = map_ /\ free_memory' = free_memory /\ live' = live
  BY DEF buddyVars
<1>2. TypeOK'
  BY <1>1 DEF IInv, TypeOK
<1>3. CallState'
  BY <1>1 DEF IInv, CallState, PutDone
<1>4. MapMarksLastPages'
  BY <1>1 DEF IInv, MapMarksLastPages
<1>5. Extents' = Extents
  BY <1>1 DEF Extents, FreeExtents, SquashedExtents, PutExtents,
              AllocateExtents, ClientExtents
<1>6. PagesHaveOneOwner'
  BY <1>5 DEF IInv, PagesHaveOneOwner
<1>7. QED
  BY <1>2, <1>3, <1>4, <1>6 DEF IInv

\* Every step keeps the invariant.
LEMMA NextKeepsIInv == IInv /\ [Next]_vars => IInv'
<1> SUFFICES ASSUME IInv, [Next]_vars
             PROVE  IInv'
  OBVIOUS
<1>0. ret \in Answers
  BY DEF IInv, TypeOK
<1>1. CASE InitializeReturns
  BY <1>0, <1>1, OwnersUnchangedKeepsIInv DEF InitializeReturns
<1>2. CASE AllocateZero
  BY <1>2, AnswersTyped, OwnersUnchangedKeepsIInv DEF AllocateZero
<1>3. ASSUME NEW pages \in Request, AllocateFails(pages)
      PROVE  IInv'
  <2>1. pages \in Nat
    BY MaxRequestAssumption DEF Request
  <2>2. QED
    BY <1>3, <2>1, AnswersTyped, OwnersUnchangedKeepsIInv DEF AllocateFails
<1>4. ASSUME NEW pages \in Request, AllocateBegin(pages)
      PROVE  IInv'
  BY <1>4, AllocateBeginKeepsIInv
<1>5. CASE AllocateReturns
  BY <1>5, AllocateReturnsKeepsIInv
<1>6. ASSUME NEW b \in live, DeallocateBegin(b)
      PROVE  IInv'
  BY <1>6, DeallocateBeginKeepsIInv
<1>7. CASE DeallocateReturns
  BY <1>0, <1>7, OwnersUnchangedKeepsIInv DEF DeallocateReturns
<1>8. CASE PutStep
  <2>1. call # "none" /\ UNCHANGED <<map_, call, free_memory, ret, live>>
    BY <1>8 DEF PutStep
  <2>2. CASE PutBlock
    BY <2>1, <2>2, PutBlockKeepsIInv
  <2>3. CASE PutSquashed
    BY <2>1, <2>3, PutSquashedKeepsIInv
  <2>4. QED
    BY <1>8, <2>2, <2>3 DEF PutStep
<1>9. CASE UNCHANGED vars
  BY <1>0, <1>9, OwnersUnchangedKeepsIInv DEF vars, buddyVars
<1>10. QED
  BY <1>1, <1>2, <1>3, <1>4, <1>5, <1>6, <1>7, <1>8, <1>9 DEF Next

\* The inductive invariant holds in every reachable state.
THEOREM InductiveInvariant == Spec => []IInv
BY InitEstablishesIInv, NextKeepsIInv, PTL DEF Spec

\* Every variable keeps its type; put() never indexes a free list that does
\* not exist (buddy_allocator.cpp:44-53).
THEOREM TypeCorrectness == Spec => []TypeOK
<1>1. IInv => TypeOK
  BY DEF IInv
<1>2. QED
  BY <1>1, InductiveInvariant, PTL

\* Every managed page has exactly one owner at every step of every call, for
\* every region, every maximal order and every request.
THEOREM OneOwner == Spec => []PagesHaveOneOwner
<1>1. IInv => PagesHaveOneOwner
  BY DEF IInv
<1>2. QED
  BY <1>1, InductiveInvariant, PTL

\* The allocation map marks exactly the ends of the clients' blocks, so that
\* deallocate() gives back what allocate() handed out.
THEOREM MapIsExact == Spec => []MapMarksLastPages
<1>1. IInv => MapMarksLastPages
  BY DEF IInv
<1>2. QED
  BY <1>1, InductiveInvariant, PTL

-----------------------------------------------------------------------------
(***************************************************************************)
(* The page allocator keeps the promises of PageAllocatorSpec.             *)
(*                                                                         *)
(* What is left to show is that allocate() fails only when it must.  The   *)
(* argument: blocks of the free lists are aligned and no two buddies are   *)
(* in one list.  In an aligned run of free pages take a smallest free      *)
(* block.  If it is smaller than the run, its buddy lies in the run, too,  *)
(* and is free; a larger block cannot cover it, so it is a block of the    *)
(* same list.                                                              *)
(***************************************************************************)

-----------------------------------------------------------------------------
(* Aligned blocks are disjoint or nested.                                  *)

\* Division with remainder.
LEMMA Division ==
  ASSUME NEW n \in Nat, NEW m \in Nat \ {0}
  PROVE  /\ n \div m \in Nat
         /\ n % m \in 0..(m - 1)
         /\ n = m * (n \div m) + (n % m)
BY Z3

\* An aligned frame is a multiple of the size of its block, and vice versa.
LEMMA AlignedIsMultiple ==
  ASSUME NEW f \in Nat, NEW m \in Nat \ {0}
  PROVE  f % m = 0 <=> \E q \in Nat : f = m * q
<1>1. ASSUME f % m = 0 PROVE \E q \in Nat : f = m * q
  <2>1. f = m * (f \div m) + 0 /\ f \div m \in Nat
    BY <1>1, Division
  <2>2. f = m * (f \div m)
    BY <2>1, Z3
  <2>. QED BY <2>1, <2>2
<1>2. ASSUME NEW q \in Nat, f = m * q PROVE f % m = 0
  <2>. DEFINE d == f \div m
              r == f % m
  <2>1. d \in Nat /\ r \in 0..(m - 1) /\ f = m * d + r
    BY Division
  <2>. HIDE DEF d, r
  <2>2. r = 0
    <3>1. m * (q - d) = r
      BY <1>2, <2>1, Z3
    <3>2. q - d < 1
      BY <2>1, <3>1, Z3
    <3>3. q - d >= 0
      BY <2>1, <3>1, Z3
    <3>4. q - d = 0
      BY <2>1, <3>2, <3>3
    <3>. QED BY <3>1, <3>4
  <2>. QED BY <2>2 DEF r
<1>. QED BY <1>1, <1>2

\* The quotient and the remainder of a multiple.
LEMMA Multiples ==
  ASSUME NEW m \in Nat \ {0}, NEW q \in Nat
  PROVE  m * q \in Nat /\ (m * q) % m = 0 /\ (m * q) \div m = q
<1>1. m * q \in Nat
  BY Z3
<1>2. (m * q) % m = 0
  BY <1>1, AlignedIsMultiple
<1>3. (m * q) \div m = q
  BY Z3
<1>. QED BY <1>1, <1>2, <1>3

\* The size of a larger block is a multiple of twice that of a smaller one.
LEMMA SizesDivide ==
  ASSUME NEW i \in Orders, NEW j \in Orders, i < j
  PROVE  \E m \in Nat \ {0} : 2^j = 2^(i + 1) * m
<1>. DEFINE Divides(n) == \E m \in Nat \ {0} : 2^n = 2^(i + 1) * m
            Bad == {n \in Nat : n \in Orders /\ i < n /\ ~Divides(n)}
<1>. SUFFICES ASSUME ~Divides(j) PROVE FALSE
  OBVIOUS
<1>1. j \in Bad
  BY MaxOrderAssumption DEF Orders
<1>2. PICK n \in Bad : \A k \in Bad : n <= k
  BY <1>1, NatMin
<1>3. n \in Orders /\ i < n /\ ~Divides(n) /\ n \in Nat /\ i \in Nat
  BY <1>2, MaxOrderAssumption DEF Orders
<1>4. i + 1 \in Orders /\ n - 1 \in Orders /\ (n - 1) + 1 = n
  BY <1>3, MaxOrderAssumption DEF Orders
<1>5. 2^(i + 1) \in Nat \ {0}
  BY <1>4, PowersOfTwo
<1>6. n # i + 1
  <2>. SUFFICES ASSUME n = i + 1 PROVE FALSE
    OBVIOUS
  <2>1. 2^(i + 1) = 2^(i + 1) * 1
    BY <1>5
  <2>. QED BY <1>3, <2>1
<1>7. n - 1 \notin Bad /\ i < n - 1
  BY <1>2, <1>3, <1>6
<1>8. PICK m \in Nat \ {0} : 2^(n - 1) = 2^(i + 1) * m
  BY <1>3, <1>4, <1>7
<1>9. 2^n = 2 * 2^(n - 1)
  BY <1>4, PowersOfTwo
<1>10. 2^n = 2^(i + 1) * (2 * m) /\ 2 * m \in Nat \ {0}
  <2>. DEFINE u == 2^(i + 1)
  <2>. HIDE DEF u
  <2>1. u \in Nat /\ 2^n = 2 * (u * m)
    BY <1>5, <1>8, <1>9 DEF u
  <2>2. 2 * (u * m) = u * (2 * m)
    BY <2>1, Z3
  <2>. QED BY <2>1, <2>2 DEF u
<1>. QED BY <1>3, <1>10

\* Of two aligned blocks that share a page the larger contains the smaller.
LEMMA AlignedBlocksNest ==
  ASSUME NEW i \in Orders, NEW j \in Orders, i <= j,
         NEW f \in Nat, NEW g \in Nat, Aligned(f, i), Aligned(g, j),
         NEW page \in Extent(f, 2^i), page \in Extent(g, 2^j)
  PROVE  g <= f /\ f + 2^i <= g + 2^j
<1>. DEFINE u == 2^i
<1>1. u \in Nat \ {0} /\ 2^j \in Nat \ {0}
  BY PowersOfTwo
<1>2. PICK m \in Nat \ {0} : 2^j = u * m
  <2>1. CASE i = j
    <3>1. 2^j = u * 1
      BY <1>1, <2>1
    <3>. QED BY <3>1
  <2>2. CASE i < j
    <3>1. PICK n \in Nat \ {0} : 2^j = 2^(i + 1) * n
      BY <2>2, SizesDivide
    <3>2. 2^(i + 1) = 2 * u
      BY PowersOfTwo
    <3>. HIDE DEF u
    <3>3. 2^j = u * (2 * n) /\ 2 * n \in Nat \ {0}
      BY <1>1, <3>1, <3>2, Z3
    <3>. QED BY <3>3
  <2>. QED BY <2>1, <2>2, MaxOrderAssumption DEF Orders
<1>3. PICK t \in Nat : f = u * t
  BY <1>1, AlignedIsMultiple DEF Aligned
<1>4. PICK q \in Nat : g = 2^j * q
  BY <1>1, AlignedIsMultiple DEF Aligned
<1>5. page \in Int /\ g <= page /\ page < g + 2^j /\ f <= page /\ page < f + u
  BY <1>1 DEF Extent
<1>. HIDE DEF u
<1>. DEFINE s == m * q
<1>6. s \in Nat /\ g = u * s
  BY <1>1, <1>2, <1>4, Z3
<1>. HIDE DEF s
<1>7. u * s < u * (t + 1) /\ u * t < u * (s + m)
  <2>1. u * (t + 1) = u * t + u /\ u * (s + m) = u * s + u * m
    BY <1>1, <1>6, Z3
  <2>2. u * t \in Int /\ u * s \in Int /\ u * m \in Int
    BY <1>1, <1>6, Z3
  <2>. QED BY <1>1, <1>2, <1>3, <1>5, <1>6, <2>1, <2>2
<1>8. s <= t /\ t + 1 <= s + m
  <2>1. s < t + 1
    BY <1>1, <1>6, <1>7, Z3
  <2>2. t < s + m
    BY <1>1, <1>6, <1>7, Z3
  <2>. QED BY <1>6, <2>1, <2>2
<1>9. u * s <= u * t /\ u * (t + 1) <= u * (s + m)
  BY <1>1, <1>6, <1>8, Z3
<1>10. u * (t + 1) = u * t + u /\ u * (s + m) = u * s + u * m
  BY <1>1, <1>6, Z3
<1>. QED BY <1>2, <1>3, <1>6, <1>9, <1>10 DEF u

\* The block that a frame and its buddy make up.
FirstOfPair(frame, order) ==
  IF is_the_first_in_buddy(frame, order) THEN frame ELSE Buddy(frame, order)

\* Buddies are aligned, make up an aligned block, and are each other's.
LEMMA Buddies ==
  ASSUME NEW order \in Orders, NEW f \in Nat, Aligned(f, order)
  PROVE  /\ Buddy(f, order) \in Nat
         /\ Aligned(Buddy(f, order), order)
         /\ Buddy(Buddy(f, order), order) = f
         /\ Buddy(f, order) # f
         /\ FirstOfPair(f, order) \in Nat
         /\ Aligned(FirstOfPair(f, order), order + 1)
         /\ {f, Buddy(f, order)}
              = {FirstOfPair(f, order), FirstOfPair(f, order) + 2^order}
<1>. DEFINE u == 2^order
<1>1. u \in Nat \ {0} /\ 2^(order + 1) = 2 * u
  BY PowersOfTwo
<1>2. PICK q \in Nat : f = u * q
  BY <1>1, AlignedIsMultiple DEF Aligned
<1>3. \A n \in Nat : u * n \in Nat /\ (u * n) % u = 0 /\ (u * n) \div u = n
  BY <1>1, Multiples
<1>4. is_the_first_in_buddy(f, order) <=> q % 2 = 0
  BY <1>2, <1>3 DEF is_the_first_in_buddy
<1>5. CASE q % 2 = 0
  <2>1. Buddy(f, order) = u * (q + 1) /\ FirstOfPair(f, order) = f
    <3>1. u * (q + 1) = u * q + u
      BY <1>1, Z3
    <3>. QED BY <1>2, <1>4, <1>5, <3>1 DEF Buddy, FirstOfPair
  <2>2. ~is_the_first_in_buddy(u * (q + 1), order)
    <3>1. (q + 1) % 2 # 0
      BY <1>5
    <3>. QED BY <1>3, <3>1 DEF is_the_first_in_buddy
  <2>3. u * (q + 1) - u = f /\ u * (q + 1) = f + u /\ u * (q + 1) \in Nat
    BY <1>1, <1>2, Z3
  <2>4. Aligned(u * (q + 1), order)
    BY <1>3 DEF Aligned
  <2>5. Buddy(Buddy(f, order), order) = f
    BY <2>1, <2>2, <2>3 DEF Buddy
  <2>6. Aligned(f, order + 1)
    <3>1. PICK h \in Nat : q = 2 * h
      BY <1>5
    <3>2. f = (2 * u) * h
      BY <1>1, <1>2, <3>1, Z3
    <3>. QED BY <1>1, <3>2, AlignedIsMultiple DEF Aligned
  <2>. QED BY <1>1, <2>1, <2>3, <2>4, <2>5, <2>6
<1>6. CASE q % 2 # 0
  <2>1. q - 1 \in Nat /\ (q - 1) % 2 = 0
    BY <1>6
  <2>2. u * (q - 1) + u = f /\ u * (q - 1) = f - u /\ u * (q - 1) \in Nat
    BY <1>1, <1>2, <2>1, Z3
  <2>3. Buddy(f, order) = u * (q - 1) /\ FirstOfPair(f, order) = u * (q - 1)
    BY <1>2, <1>4, <1>6, <2>2 DEF Buddy, FirstOfPair
  <2>4. is_the_first_in_buddy(u * (q - 1), order)
    BY <1>3, <2>1 DEF is_the_first_in_buddy
  <2>5. Aligned(u * (q - 1), order)
    BY <1>3, <2>1 DEF Aligned
  <2>6. Buddy(Buddy(f, order), order) = f
    BY <2>2, <2>3, <2>4 DEF Buddy
  <2>7. Aligned(u * (q - 1), order + 1)
    <3>1. PICK h \in Nat : q - 1 = 2 * h
      <4>1. 2 \in Nat \ {0}
        OBVIOUS
      <4>. QED BY <2>1, <4>1, AlignedIsMultiple
    <3>2. u * (q - 1) = (2 * u) * h
      BY <1>1, <3>1, Z3
    <3>3. 2 * u \in Nat \ {0}
      BY <1>1
    <3>4. ((2 * u) * h) % (2 * u) = 0
      BY <3>3, Multiples
    <3>. QED BY <1>1, <3>2, <3>4 DEF Aligned
  <2>. QED BY <1>1, <2>2, <2>3, <2>5, <2>6, <2>7
<1>. QED BY <1>5, <1>6

-----------------------------------------------------------------------------
(* The free lists hold aligned blocks, and never both buddies.             *)

ListsInv ==
  \A order \in Orders : \A frame \in free_list_[order] :
    /\ Aligned(frame, order)
    /\ order # MaxOrder => Buddy(frame, order) \notin free_list_[order]

BuddyInv ==
  /\ ListsInv
  /\ squashed_pages # nullptr => Aligned(squashed_pages, putting_list)

\* FreeList::put() of an aligned frame (free_list.cpp:76-147).
LEMMA FreeListPutKeepsBuddyInv ==
  ASSUME free_list_ \in [Orders -> SUBSET Nat], ListsInv,
         NEW frame \in Nat, NEW order \in Orders, Aligned(frame, order),
         FreeListPut(frame, order)
  PROVE  BuddyInv'
<1>1. CASE Squashes(frame, order)
  <2>1. /\ free_list_' = [free_list_ EXCEPT ![order] = @ \ {Buddy(frame, order)}]
        /\ squashed_pages' = FirstOfPair(frame, order)
        /\ putting_list' = order + 1
    BY <1>1 DEF FreeListPut, FirstOfPair
  <2>2. \A o \in Orders : free_list_'[o] \subseteq free_list_[o]
    BY <2>1
  <2>3. ListsInv'
    BY <2>2 DEF ListsInv
  <2>4. Aligned(FirstOfPair(frame, order), order + 1)
    BY Buddies
  <2>. QED BY <2>1, <2>3, <2>4 DEF BuddyInv
<1>2. CASE ~Squashes(frame, order)
  <2>1. /\ free_list_' = [free_list_ EXCEPT ![order] = @ \cup {frame}]
        /\ squashed_pages' = nullptr
    BY <1>2 DEF FreeListPut
  <2>2. ASSUME NEW o \in Orders, NEW f \in free_list_'[o]
        PROVE  Aligned(f, o) /\ (o # MaxOrder => Buddy(f, o) \notin free_list_'[o])
    <3>1. CASE o # order
      BY <2>1, <2>2, <3>1 DEF ListsInv
    <3>2. CASE o = order
      <4>1. free_list_'[o] = free_list_[o] \cup {frame}
        BY <2>1, <3>2
      <4>2. Aligned(f, o) /\ f \in Nat
        BY <2>2, <3>2, <4>1 DEF ListsInv
      <4>3. o # MaxOrder => Buddy(frame, o) \notin free_list_[o] \cup {frame}
        BY <1>2, <3>2, Buddies DEF Squashes
      <4>4. ASSUME o # MaxOrder, f \in free_list_[o]
            PROVE  Buddy(f, o) \notin free_list_[o] \cup {frame}
        <5>1. Buddy(f, o) \notin free_list_[o]
          BY <4>4 DEF ListsInv
        <5>2. Buddy(f, o) # frame
          BY <4>2, <4>3, <4>4, Buddies
        <5>. QED BY <5>1, <5>2
      <4>. QED BY <2>2, <4>1, <4>2, <4>3, <4>4
    <3>. QED BY <3>1, <3>2
  <2>. QED BY <2>1, <2>2 DEF BuddyInv, ListsInv
<1>. QED BY <1>1, <1>2

\* Every step of the allocator.
LEMMA NextKeepsBuddyInv == IInv /\ BuddyInv /\ [Next]_vars => BuddyInv'
<1>. SUFFICES ASSUME IInv, BuddyInv, [Next]_vars PROVE BuddyInv'
  OBVIOUS
<1>1. /\ free_list_ \in [Orders -> SUBSET Nat] /\ blk \in pblk_t
      /\ squashed_pages \in Nat /\ putting_list \in Orders
  BY DEF IInv, TypeOK
<1>2. CASE PutStep /\ PutBlock
  <2>1. Aligned(blk.ptr, compute_order(blk)) /\ compute_order(blk) \in Orders
    BY <1>1, <1>2, ComputeOrderFits DEF PutBlock
  <2>2. blk.ptr \in Nat /\ FreeListPut(blk.ptr, compute_order(blk))
    BY <1>1, <1>2 DEF PutBlock, pblk_t
  <2>. QED BY <1>1, <2>1, <2>2, FreeListPutKeepsBuddyInv DEF BuddyInv
<1>3. CASE PutStep /\ PutSquashed
  BY <1>1, <1>3, FreeListPutKeepsBuddyInv DEF PutSquashed, BuddyInv
<1>4. ASSUME NEW pages \in Request, AllocateBegin(pages) PROVE BuddyInv'
  <2>1. PICK order \in Orders : \E frame \in free_list_[order] : Get(pages, frame, order)
    BY <1>4 DEF AllocateBegin
  <2>2. PICK frame \in free_list_[order] : Get(pages, frame, order)
    BY <2>1
  <2>3. squashed_pages' = nullptr
    BY <2>2 DEF Get, PutBegin
  <2>4. \A o \in Orders : free_list_'[o] \subseteq free_list_[o]
    BY <1>1, <2>2 DEF Get
  <2>. QED BY <2>3, <2>4 DEF BuddyInv, ListsInv
<1>5. ASSUME NEW b \in live, DeallocateBegin(b) PROVE BuddyInv'
  BY <1>5 DEF DeallocateBegin, PutBegin, BuddyInv, ListsInv
<1>6. CASE UNCHANGED buddyVars
  BY <1>6 DEF buddyVars, BuddyInv, ListsInv
<1>7. CASE InitializeReturns \/ AllocateZero \/ AllocateReturns \/ DeallocateReturns
  BY <1>6, <1>7 DEF InitializeReturns, AllocateZero, AllocateReturns, DeallocateReturns
<1>8. ASSUME NEW pages \in Request, AllocateFails(pages) PROVE BuddyInv'
  BY <1>6, <1>8 DEF AllocateFails
<1>9. CASE UNCHANGED vars
  BY <1>6, <1>9 DEF vars, buddyVars
<1>. QED
  BY <1>2, <1>3, <1>4, <1>5, <1>7, <1>8, <1>9 DEF Next, PutStep

\* The lists start empty.
LEMMA InitEstablishesBuddyInv == Init => BuddyInv
  BY DEF Init, BuddyInit, BuddyInv, ListsInv

-----------------------------------------------------------------------------
(* Between two calls the free lists hold exactly the free pages.           *)

FreePages == Managed \ UNION {Extent(b.ptr, b.size) : b \in live}

\* The blocks of the free lists are free and disjoint, and every free page
\* is in one of them.
LEMMA BetweenCalls ==
  ASSUME IInv, call = "none"
  PROVE  /\ \A o \in Orders : \A f \in free_list_[o] :
              f \in Managed /\ Extent(f, 2^o) \subseteq FreePages
         /\ \A page \in FreePages : \E o \in Orders : \E f \in free_list_[o] :
              page \in Extent(f, 2^o)
         /\ \A o1, o2 \in Orders : \A f1 \in free_list_[o1], f2 \in free_list_[o2] :
              \A page \in Extent(f1, 2^o1) : page \in Extent(f2, 2^o2) => o1 = o2
<1>1. Typed(Extents) /\ PartitionsManaged(Extents)
  BY ExtentsTyped DEF IInv, PagesHaveOneOwner
<1>2. FirstPage \in Nat /\ RegionEnd \in Nat
  BY FirstPageIsNotNull
<1>3. Extents = FreeExtents \cup ClientExtents
  <2>1. blk.size = 0 /\ squashed_pages = nullptr
    BY DEF IInv, CallState, PutDone
  <2>2. ~ (free_memory.size > 0)
    BY DEF IInv, CallState
  <2>. QED BY <2>1, <2>2 DEF Extents, SquashedExtents, PutExtents, AllocateExtents
<1>4. \A e1, e2 \in Extents : \A page \in Extent(e1.ptr, e1.size) :
        page \in Extent(e2.ptr, e2.size) => e1 = e2
  BY <1>1 DEF PartitionsManaged, Typed, Disjoint, Extent
<1>5. \A e \in Extents : e.ptr \in Managed /\ Extent(e.ptr, e.size) \subseteq Managed
  BY <1>1, <1>2 DEF PartitionsManaged, Typed, Extent, Managed
<1>6. ASSUME NEW o \in Orders, NEW f \in free_list_[o]
      PROVE  /\ Ext("free", o, f, 2^o) \in Extents
             /\ Ext("free", o, f, 2^o).ptr = f
             /\ Ext("free", o, f, 2^o).size = 2^o
             /\ Ext("free", o, f, 2^o).list = o
             /\ Ext("free", o, f, 2^o).own = "free"
  BY <1>3 DEF FreeExtents, Ext
<1>7. ASSUME NEW b \in live
      PROVE  /\ Ext("client", 0, b.ptr, b.size) \in Extents
             /\ Ext("client", 0, b.ptr, b.size).ptr = b.ptr
             /\ Ext("client", 0, b.ptr, b.size).size = b.size
             /\ Ext("client", 0, b.ptr, b.size).own = "client"
  BY <1>3 DEF ClientExtents, Ext
<1>8. ASSUME NEW o \in Orders, NEW f \in free_list_[o]
      PROVE  f \in Managed /\ Extent(f, 2^o) \subseteq FreePages
  <2>1. f \in Managed /\ Extent(f, 2^o) \subseteq Managed
    BY <1>5, <1>6
  <2>2. ASSUME NEW page \in Extent(f, 2^o), NEW b \in live,
               page \in Extent(b.ptr, b.size)
        PROVE  FALSE
    <3>1. Ext("free", o, f, 2^o) = Ext("client", 0, b.ptr, b.size)
      BY <1>4, <1>6, <1>7, <2>2
    <3>. QED BY <1>6, <1>7, <3>1
  <2>. QED BY <2>1, <2>2 DEF FreePages
<1>9. ASSUME NEW page \in FreePages
      PROVE  \E o \in Orders : \E f \in free_list_[o] : page \in Extent(f, 2^o)
  <2>1. PICK e \in Extents : page \in Extent(e.ptr, e.size)
    BY <1>1 DEF PartitionsManaged, FreePages
  <2>2. e \notin ClientExtents
    <3>. SUFFICES ASSUME NEW b \in live, e = Ext("client", 0, b.ptr, b.size) PROVE FALSE
      BY DEF ClientExtents
    <3>. QED BY <1>7, <2>1 DEF FreePages
  <2>3. PICK o \in Orders : \E f \in free_list_[o] : e = Ext("free", o, f, 2^o)
    BY <1>3, <2>2 DEF FreeExtents
  <2>. QED BY <1>6, <2>1, <2>3
<1>10. ASSUME NEW o1 \in Orders, NEW o2 \in Orders,
              NEW f1 \in free_list_[o1], NEW f2 \in free_list_[o2],
              NEW page \in Extent(f1, 2^o1), page \in Extent(f2, 2^o2)
       PROVE  o1 = o2
  <2>. DEFINE e1 == Ext("free", o1, f1, 2^o1)
              e2 == Ext("free", o2, f2, 2^o2)
  <2>1. e1 \in Extents /\ e1.ptr = f1 /\ e1.size = 2^o1 /\ e1.list = o1
    BY <1>6
  <2>2. e2 \in Extents /\ e2.ptr = f2 /\ e2.size = 2^o2 /\ e2.list = o2
    BY <1>6
  <2>. HIDE DEF e1, e2
  <2>3. e1 = e2
    BY <1>4, <1>10, <2>1, <2>2
  <2>. QED BY <2>1, <2>2, <2>3
<1>. QED BY <1>8, <1>9, <1>10

\* The buddy of a free block is not part of a free block of its size or of
\* a larger one.
LEMMA BuddyIsNotCovered ==
  ASSUME IInv, BuddyInv, call = "none",
         NEW i \in Orders, NEW j \in Orders, j <= i, j # MaxOrder,
         NEW b \in free_list_[j], NEW c \in free_list_[i]
  PROVE  Buddy(b, j) \notin Extent(c, 2^i)
<1>. SUFFICES ASSUME Buddy(b, j) \in Extent(c, 2^i) PROVE FALSE
  OBVIOUS
<1>. DEFINE buddy == Buddy(b, j)
            first == FirstOfPair(b, j)
<1>1. b \in Nat /\ c \in Nat /\ Aligned(b, j) /\ Aligned(c, i) /\ buddy \notin free_list_[j]
  BY DEF IInv, TypeOK, BuddyInv, ListsInv
<1>2. /\ buddy \in Nat /\ first \in Nat /\ Aligned(buddy, j) /\ Aligned(first, j + 1)
      /\ {b, buddy} = {first, first + 2^j}
  BY <1>1, Buddies
<1>3. /\ 2^j \in Nat \ {0} /\ 2^i \in Nat \ {0} /\ 2^(j + 1) = 2 * 2^j
      /\ j \in Nat /\ i \in Nat /\ j + 1 \in Orders
  BY PowersOfTwo, MaxOrderAssumption DEF Orders
<1>4. CASE i = j
  <2>1. buddy \in Extent(buddy, 2^j)
    BY <1>2, <1>3 DEF Extent
  <2>2. c <= buddy /\ buddy + 2^j <= c + 2^i
    BY <1>1, <1>2, <2>1, AlignedBlocksNest
  <2>3. c = buddy
    BY <1>1, <1>2, <1>3, <1>4, <2>2
  <2>. QED BY <1>1, <1>4, <2>3
<1>5. CASE j < i
  <2>1. buddy \in Extent(first, 2^(j + 1)) /\ b \in Extent(first, 2^(j + 1))
    BY <1>1, <1>2, <1>3 DEF Extent
  <2>2. c <= first /\ first + 2^(j + 1) <= c + 2^i
    BY <1>1, <1>2, <1>3, <1>5, <2>1, AlignedBlocksNest
  <2>3. b \in Extent(c, 2^i) /\ b \in Extent(b, 2^j)
    BY <1>1, <1>2, <1>3, <2>1, <2>2 DEF Extent
  <2>. QED BY <1>5, <1>3, <2>3, BetweenCalls
<1>. QED BY <1>3, <1>4, <1>5

\* An aligned run of free pages lies in one free block.
LEMMA FreeRunIsCovered ==
  ASSUME IInv, BuddyInv, call = "none", NEW k \in Orders, NEW f \in Nat,
         Aligned(f, k), Extent(f, 2^k) \subseteq FreePages
  PROVE  \E i \in Orders : \E g \in free_list_[i] :
           k <= i /\ g <= f /\ f + 2^k <= g + 2^i
<1>. SUFFICES ASSUME \A i \in Orders : \A g \in free_list_[i] :
                       ~ (k <= i /\ g <= f /\ f + 2^k <= g + 2^i)
              PROVE  FALSE
  OBVIOUS
<1>. DEFINE Meets(i) == \E g \in free_list_[i] :
                          \E page \in Extent(f, 2^k) : page \in Extent(g, 2^i)
            Met == {i \in Nat : i \in Orders /\ Meets(i)}
<1>1. \A i \in Orders : i \in Nat /\ 2^i \in Nat \ {0} /\ i <= MaxOrder
  BY PowersOfTwo, MaxOrderAssumption DEF Orders
<1>2. \A i \in Orders : \A g \in free_list_[i] : g \in Nat /\ Aligned(g, i)
  BY DEF IInv, TypeOK, BuddyInv, ListsInv
<1>3. \A page \in Extent(f, 2^k) :
        \E i \in Met : \E g \in free_list_[i] : page \in Extent(g, 2^i)
  BY <1>1, BetweenCalls
<1>4. f \in Extent(f, 2^k)
  BY <1>1 DEF Extent
<1>5. PICK j \in Met : \A i \in Met : j <= i
  <2>1. Met # {}
    BY <1>3, <1>4
  <2>. HIDE DEF Met
  <2>2. Met \in SUBSET Nat
    BY DEF Met
  <2>. QED BY <2>1, <2>2, NatMin
<1>6. j < k
  <2>. SUFFICES ASSUME k <= j PROVE FALSE
    BY <1>1, <1>5
  <2>1. PICK g \in free_list_[j], page \in Extent(f, 2^k) : page \in Extent(g, 2^j)
    BY <1>5
  <2>2. g <= f /\ f + 2^k <= g + 2^j
    BY <1>2, <1>5, <2>1, AlignedBlocksNest
  <2>. QED BY <1>5, <2>1, <2>2
<1>7. PICK b \in free_list_[j], page \in Extent(f, 2^k) : page \in Extent(b, 2^j)
  BY <1>5
<1>. DEFINE buddy == Buddy(b, j)
            first == FirstOfPair(b, j)
<1>8. j \in Orders /\ j # MaxOrder /\ j + 1 \in Orders /\ j + 1 <= k
  BY <1>1, <1>5, <1>6, MaxOrderAssumption DEF Orders
<1>9. /\ buddy \in Nat /\ first \in Nat /\ Aligned(first, j + 1)
      /\ {b, buddy} = {first, first + 2^j}
  BY <1>2, <1>8, Buddies
<1>10. b \in Nat /\ 2^j \in Nat \ {0} /\ 2^k \in Nat \ {0} /\ 2^(j + 1) = 2 * 2^j
  BY <1>1, <1>2, <1>8, PowersOfTwo
<1>11. page \in Extent(first, 2^(j + 1))
  BY <1>7, <1>9, <1>10 DEF Extent
<1>12. f <= first /\ first + 2^(j + 1) <= f + 2^k
  BY <1>7, <1>8, <1>9, <1>11, AlignedBlocksNest
<1>13. buddy \in Extent(f, 2^k)
  BY <1>9, <1>10, <1>12 DEF Extent
<1>14. PICK i \in Met : \E g \in free_list_[i] : buddy \in Extent(g, 2^i)
  BY <1>3, <1>13
<1>. QED BY <1>5, <1>7, <1>8, <1>14, BuddyIsNotCovered

-----------------------------------------------------------------------------
\* Between calls the free lists are the coarsest ones for the free pages.
LEMMA ListsAreCoalesced == IInv /\ BuddyInv => FreeListsCoalesced
<1>. DEFINE IsFree(f, o) == Extent(f, 2^o) \subseteq FreePages
            Coarsest(o) == {f \in Managed : /\ Aligned(f, o)
                                            /\ IsFree(f, o)
                                            /\ o = MaxOrder \/ ~IsFree(Buddy(f, o), o)}
<1>. SUFFICES ASSUME IInv, BuddyInv, call = "none", NEW o \in Orders
              PROVE  free_list_[o] = Coarsest(o)
  BY DEF FreeListsCoalesced, FreePages
<1>1. o \in Nat /\ 2^o \in Nat \ {0} /\ o <= MaxOrder /\ 2^(o + 1) = 2 * 2^o
  BY PowersOfTwo, MaxOrderAssumption DEF Orders
<1>2. Managed \subseteq Nat
  BY FirstPageIsNotNull DEF Managed
<1>3. ASSUME NEW f \in free_list_[o] PROVE f \in Coarsest(o)
  <2>1. Aligned(f, o) /\ f \in Managed /\ IsFree(f, o)
    BY BetweenCalls DEF BuddyInv, ListsInv
  <2>2. ASSUME o # MaxOrder, IsFree(Buddy(f, o), o) PROVE FALSE
    <3>1. Buddy(f, o) \in Nat /\ Aligned(Buddy(f, o), o)
      BY <1>2, <2>1, Buddies
    <3>2. PICK i \in Orders : \E g \in free_list_[i] :
             o <= i /\ g <= Buddy(f, o) /\ Buddy(f, o) + 2^o <= g + 2^i
      BY <2>2, <3>1, FreeRunIsCovered
    <3>3. PICK g \in free_list_[i] :
             o <= i /\ g <= Buddy(f, o) /\ Buddy(f, o) + 2^o <= g + 2^i
      BY <3>2
    <3>4. g \in Nat /\ 2^i \in Nat
      BY PowersOfTwo DEF IInv, TypeOK
    <3>5. Buddy(f, o) \in Extent(g, 2^i)
      BY <1>1, <3>1, <3>3, <3>4 DEF Extent
    <3>. QED BY <2>2, <3>3, <3>5, BuddyIsNotCovered
  <2>. QED BY <2>1, <2>2
<1>4. ASSUME NEW f \in Coarsest(o) PROVE f \in free_list_[o]
  <2>1. f \in Nat /\ Aligned(f, o) /\ IsFree(f, o)
    BY <1>2
  <2>2. PICK i \in Orders : \E g \in free_list_[i] :
           o <= i /\ g <= f /\ f + 2^o <= g + 2^i
    BY <2>1, FreeRunIsCovered
  <2>3. PICK g \in free_list_[i] : o <= i /\ g <= f /\ f + 2^o <= g + 2^i
    BY <2>2
  <2>4. g \in Nat /\ Aligned(g, i) /\ i \in Nat /\ i <= MaxOrder /\ 2^i \in Nat \ {0}
    BY PowersOfTwo, MaxOrderAssumption DEF IInv, TypeOK, BuddyInv, ListsInv, Orders
  <2>5. CASE i = o
    BY <1>1, <2>1, <2>3, <2>4, <2>5
  <2>6. CASE o < i
    <3>1. o # MaxOrder /\ o + 1 \in Orders /\ o + 1 <= i
      BY <1>1, <2>4, <2>6, MaxOrderAssumption DEF Orders
    <3>. DEFINE buddy == Buddy(f, o)
                first == FirstOfPair(f, o)
    <3>2. /\ buddy \in Nat /\ first \in Nat /\ Aligned(first, o + 1)
          /\ {f, buddy} = {first, first + 2^o}
      BY <2>1, Buddies
    <3>3. f \in Extent(first, 2^(o + 1)) /\ f \in Extent(g, 2^i)
      BY <1>1, <2>1, <2>3, <2>4, <3>2 DEF Extent
    <3>4. g <= first /\ first + 2^(o + 1) <= g + 2^i
      BY <2>4, <3>1, <3>2, <3>3, AlignedBlocksNest
    <3>5. Extent(buddy, 2^o) \subseteq Extent(g, 2^i)
      BY <1>1, <2>1, <2>4, <3>2, <3>4 DEF Extent
    <3>6. IsFree(buddy, o)
      BY <2>3, <3>5, BetweenCalls
    <3>. QED BY <3>1, <3>6
  <2>. QED BY <1>1, <2>3, <2>4, <2>5, <2>6
<1>. QED BY <1>3, <1>4

\* The invariant of the allocator together with that of its free lists.
LEMMA BuddyInvariant == Spec => [](IInv /\ BuddyInv)
<1>1. Init => IInv /\ BuddyInv
  BY InitEstablishesIInv, InitEstablishesBuddyInv
<1>2. IInv /\ BuddyInv /\ [Next]_vars => IInv' /\ BuddyInv'
  BY NextKeepsIInv, NextKeepsBuddyInv
<1>. QED BY <1>1, <1>2, PTL DEF Spec

\* Between calls the free lists are the coarsest ones for the pages that are
\* free, whatever the order in which they were freed
\* (buddy_allocator.cpp:22-58, free_list.cpp:76-147).
THEOREM ListsAlwaysCoalesced == Spec => []FreeListsCoalesced
BY BuddyInvariant, ListsAreCoalesced, PTL

-----------------------------------------------------------------------------
(* The refinement.                                                         *)

\* allocate() fails only if no aligned run of free pages is large enough.
LEMMA FailsOnlyWithoutRun ==
  ASSUME IInv, BuddyInv, NEW pages \in Request, AllocateFails(pages)
  PROVE  Abstract!AllocateFails(pages)
<1>1. call = "none" /\ GetFails(pages) /\ live' = live /\ ret' = Answer(pages, nullptr)
  BY DEF AllocateFails
<1>2. ASSUME Abstract!HasRunFor(pages) PROVE FALSE
  <2>1. PICK order \in Orders, frame \in Managed :
          /\ pages <= 2^order /\ Aligned(frame, order)
          /\ Extent(frame, 2^order) \subseteq FreePages
    BY <1>2 DEF Abstract!HasRunFor, Abstract!FreePages, Abstract!Managed,
       Abstract!Orders, Abstract!Aligned, Abstract!Extent,
       FreePages, Managed, Orders, Aligned, Extent
  <2>2. frame \in Nat /\ frame + 2^order \in Nat /\ pages \in Nat /\ 2^order \in Nat
    BY FirstPageIsNotNull, PowersOfTwo, MaxRequestAssumption DEF Managed, Request
  <2>3. PICK i \in Orders : \E g \in free_list_[i] :
           order <= i /\ g <= frame /\ frame + 2^order <= g + 2^i
    BY <1>1, <2>1, <2>2, FreeRunIsCovered
  <2>4. PICK g \in free_list_[i] : g <= frame /\ frame + 2^order <= g + 2^i
    BY <2>3
  <2>5. g \in Nat /\ 2^i \in Nat
    BY PowersOfTwo DEF IInv, TypeOK
  <2>6. pages <= 2^i
    BY <2>1, <2>2, <2>4, <2>5
  <2>. QED BY <1>1, <2>4, <2>6 DEF GetFails
<1>. QED
  BY <1>1, <1>2 DEF Abstract!AllocateFails, Abstract!Answer, Answer, Abstract!nullptr, nullptr

\* The block allocate() returns was free.
LEMMA ReturnsFreeBlock ==
  ASSUME IInv, AllocateReturns, free_memory.size \in Request
  PROVE  Abstract!Allocate(free_memory.size)
<1>. DEFINE e == Ext("allocate", 0, free_memory.ptr, free_memory.size)
<1>1. Typed(Extents) /\ PartitionsManaged(Extents)
  BY ExtentsTyped DEF IInv, PagesHaveOneOwner
<1>2. /\ e \in Extents /\ e.ptr = free_memory.ptr
      /\ e.size = free_memory.size /\ e.own = "allocate"
  BY DEF IInv, CallState, AllocateReturns, Extents, AllocateExtents, Ext
<1>3. FirstPage \in Nat /\ RegionEnd \in Nat
  BY FirstPageIsNotNull
<1>4. free_memory.ptr \in Managed /\ Extent(free_memory.ptr, free_memory.size) \subseteq Managed
  BY <1>1, <1>2, <1>3 DEF PartitionsManaged, Typed, Extent, Managed
<1>5. ASSUME NEW b \in live, NEW page \in Extent(b.ptr, b.size),
             page \in Extent(free_memory.ptr, free_memory.size)
      PROVE  FALSE
  <2>. DEFINE c == Ext("client", 0, b.ptr, b.size)
  <2>1. c \in Extents /\ c.ptr = b.ptr /\ c.size = b.size /\ c.own = "client"
    BY DEF Extents, ClientExtents, Ext
  <2>. HIDE DEF c, e
  <2>2. c # e
    BY <1>2, <2>1
  <2>. QED BY <1>1, <1>2, <1>5, <2>1, <2>2 DEF PartitionsManaged, Typed, Disjoint, Extent
<1>6. Extent(free_memory.ptr, free_memory.size) \subseteq FreePages
  BY <1>4, <1>5 DEF FreePages
<1>7. free_memory = [ptr |-> free_memory.ptr, size |-> free_memory.size]
  BY DEF IInv, TypeOK, pblk_t
<1>8. /\ live' = live \cup {[ptr |-> free_memory.ptr, size |-> free_memory.size]}
      /\ ret' = Answer(free_memory.size, free_memory.ptr)
  BY <1>7 DEF AllocateReturns
<1>. QED
  BY <1>4, <1>6, <1>8 DEF Abstract!Allocate, Abstract!Managed, Managed, Abstract!Extent,
     Extent, Abstract!FreePages, FreePages, Abstract!Answer, Answer

\* The block in the hands of allocate() has the requested size.
RequestInv == call = "allocate" => free_memory.size \in Request

\* Every step keeps it.
LEMMA NextKeepsRequestInv == RequestInv /\ [Next]_vars => RequestInv'
<1>. SUFFICES ASSUME RequestInv, [Next]_vars PROVE RequestInv'
  OBVIOUS
<1>1. ASSUME NEW pages \in Request, AllocateBegin(pages) PROVE RequestInv'
  BY <1>1 DEF AllocateBegin, RequestInv
<1>2. ASSUME NEW pages \in Request, AllocateFails(pages) PROVE RequestInv'
  BY <1>2 DEF AllocateFails, RequestInv
<1>3. ASSUME NEW b \in live, DeallocateBegin(b) PROVE RequestInv'
  BY <1>3 DEF DeallocateBegin, RequestInv
<1>4. CASE InitializeReturns \/ AllocateReturns \/ DeallocateReturns
  BY <1>4 DEF InitializeReturns, AllocateReturns, DeallocateReturns, RequestInv
<1>5. CASE AllocateZero \/ PutStep \/ UNCHANGED vars
  BY <1>5 DEF AllocateZero, PutStep, vars, RequestInv
<1>. QED BY <1>1, <1>2, <1>3, <1>4, <1>5 DEF Next

\* Every step of the allocator is a step of PageAllocatorSpec or leaves what
\* the clients see unchanged.
LEMMA NextRefines ==
  IInv /\ BuddyInv /\ RequestInv /\ [Next]_vars => [Abstract!Next]_(Abstract!vars)
<1>. SUFFICES ASSUME IInv, BuddyInv, RequestInv, [Next]_vars,
                     ~ UNCHANGED <<live, ret>>
              PROVE  Abstract!Next
  BY DEF Abstract!vars
<1>1. CASE AllocateZero
  BY <1>1 DEF AllocateZero, Abstract!Next, Abstract!AllocateZero, Abstract!Answer, Answer,
     Abstract!zero_size_page, zero_size_page
<1>2. ASSUME NEW pages \in Request, AllocateFails(pages) PROVE Abstract!Next
  BY <1>2, FailsOnlyWithoutRun DEF Abstract!Next, Request
<1>3. CASE AllocateReturns
  BY <1>3, ReturnsFreeBlock DEF AllocateReturns, RequestInv, Abstract!Next, Request
<1>4. ASSUME NEW b \in live, DeallocateBegin(b) PROVE Abstract!Next
  BY <1>4 DEF DeallocateBegin, Abstract!Next, Abstract!Deallocate, Abstract!NoAnswer, NoAnswer,
     Abstract!Answer, Answer, Abstract!nullptr, nullptr
<1>5. ~ (\E pages \in Request : AllocateBegin(pages))
  BY DEF AllocateBegin
<1>6. ~ (InitializeReturns \/ DeallocateReturns \/ PutStep \/ UNCHANGED vars)
  BY DEF InitializeReturns, DeallocateReturns, PutStep, vars
<1>. QED BY <1>1, <1>2, <1>3, <1>4, <1>5, <1>6 DEF Next

\* The page allocator implements PageAllocatorSpec: clients get blocks that
\* nobody else holds, and a request fails only if no aligned run of free
\* pages is large enough (page_allocator.cpp:37-79,
\* buddy_allocator.cpp:22-96).
THEOREM AllocatorImplementsSpec == Spec => ImplementsPageAllocatorSpec
<1>1. Init => Abstract!Init /\ RequestInv
  BY DEF Init, Abstract!Init, Abstract!NoAnswer, NoAnswer, Abstract!Answer, Answer,
     Abstract!nullptr, nullptr, RequestInv
<1>. QED
  BY <1>1, BuddyInvariant, NextKeepsRequestInv, NextRefines, PTL
     DEF Spec, ImplementsPageAllocatorSpec, Abstract!Spec
=============================================================================
