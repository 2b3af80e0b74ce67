------------------------------ MODULE FreeList ------------------------------
(***************************************************************************)
(* memory::allocators::FreeList (src/kernel/memory/free_list.cpp): a       *)
(* sorted list of free blocks, linked through the first word of each       *)
(* block.                                                                  *)
(*                                                                         *)
(* The links live in the free memory itself.  A frame that is not in the   *)
(* list belongs to somebody else, who writes to it what they please: the   *)
(* action Overwrite.  Each of the other actions is one whole call, the     *)
(* concluding sanity_check() included; callers hold the interrupt lock.    *)
(***************************************************************************)
EXTENDS PageFrames, FiniteSets

CONSTANTS
  Frames,        \* the frames that may be put
  Words          \* bound: what a frame's owner may write into its first word

VARIABLES
  order_,                \* as in the code
  disable_squashing_,    \* as in the code
  list_,                 \* the first item, or nullptr
  next,                  \* next[frame]: the first word of the frame
  items,                 \* stats.items
  ret,                   \* what the last call returned
  panicked               \* sanity_check() called panic()

vars == <<order_, disable_squashing_, list_, next, items, ret, panicked>>

-----------------------------------------------------------------------------
\* The item that i steps along the links from the item l reach.
Walk(l, nx) ==
  LET item[i \in 0 .. Cardinality(Frames)] ==
        IF i = 0 THEN l
        ELSE IF item[i - 1] \notin Frames THEN nullptr
        ELSE nx[item[i - 1]]
  IN  item

\* The frames that the links reach from l.
Linked(l, nx) == {Walk(l, nx)[i] : i \in DOMAIN Walk(l, nx)} \ {nullptr}

InList == Linked(list_, next)

\* sanity_check() panics: the list has a loop, or its length is not
\* stats.items.
Insane(l, nx, n) ==
  \/ Walk(l, nx)[Cardinality(Frames)] # nullptr
  \/ Cardinality(Linked(l, nx)) # n

\* A call stores its results, checks the list and returns r.
Return(l, nx, n, r) ==
  /\ list_' = l
  /\ next' = nx
  /\ items' = n
  /\ ret' = r
  /\ panicked' = Insane(l, nx, n)
  /\ UNCHANGED <<order_, disable_squashing_>>

\* find_last_lesser(new_item): the last item below it and the one before.
FindLastLesser(new_item, last_lesser, prelast_lesser) ==
  LET item == Walk(list_, next)
      At(i) == IF i < 0 THEN nullptr ELSE item[i]
  IN  \E i \in DOMAIN item :
        /\ item[i] = nullptr \/ item[i] >= new_item
        /\ \A j \in 0 .. (i - 1) : item[j] # nullptr /\ item[j] < new_item
        /\ last_lesser = At(i - 1)
        /\ prelast_lesser = At(i - 2)

-----------------------------------------------------------------------------
\* initialize(order, order == MAX_ORDER), the way BuddyAllocator calls it.
Init ==
  /\ order_ \in Orders
  /\ disable_squashing_ = (order_ = MaxOrder)
  /\ list_ = nullptr
  /\ next \in [Frames -> {nullptr}]
  /\ items = 0
  /\ ret = nullptr
  /\ panicked = FALSE

\* get(): unlink and return the first item.
Get ==
  IF list_ = nullptr
  THEN Return(list_, next, items, nullptr)
  ELSE Return(next[list_], [next EXCEPT ![list_] = nullptr], items - 1, list_)

\* put(frame) into an empty list.
PutIntoEmpty(frame) ==
  /\ list_ = nullptr
  /\ Return(frame, [next EXCEPT ![frame] = nullptr], items + 1, nullptr)

\* put(frame) makes the frame the first item.
PutAtHead(frame) ==
  /\ list_ # nullptr
  /\ FindLastLesser(frame, nullptr, nullptr)
  /\ \/ disable_squashing_
     \/ ~are_consequent(frame, list_, order_)
     \/ ~is_the_first_in_buddy(frame, order_)
  /\ Return(frame, [next EXCEPT ![frame] = list_], items + 1, nullptr)

\* put(frame) merges the frame with the first item, its second half.
SquashHead(frame) ==
  /\ list_ # nullptr
  /\ ~disable_squashing_
  /\ FindLastLesser(frame, nullptr, nullptr)
  /\ are_consequent(frame, list_, order_)
  /\ is_the_first_in_buddy(frame, order_)
  /\ Return(next[list_], [next EXCEPT ![frame] = nullptr], items - 1, frame)

\* put(frame) merges the frame with its first half, the last lesser item.
SquashLastLesser(frame, last_lesser, prelast_lesser) ==
  /\ ~disable_squashing_
  /\ are_consequent(last_lesser, frame, order_)
  /\ is_the_first_in_buddy(last_lesser, order_)
  /\ LET unlinked == [next EXCEPT ![frame] = nullptr, ![last_lesser] = nullptr]
     IN  IF prelast_lesser # nullptr
         THEN Return(list_,
                     [unlinked EXCEPT ![prelast_lesser] = next[last_lesser]],
                     items - 1, last_lesser)
         ELSE Return(next[last_lesser], unlinked, items - 1, last_lesser)

\* Mutant of SquashNext: two neighbours merge although they are halves of
\* different blocks.
SquashAnyNext(frame, last_lesser) ==
  LET next_item == next[last_lesser]
  IN  /\ ~disable_squashing_
      /\ ~(/\ are_consequent(last_lesser, frame, order_)
           /\ is_the_first_in_buddy(last_lesser, order_))
      /\ are_consequent(frame, next_item, order_)
      /\ Return(list_,
                [next EXCEPT ![frame] = nullptr,
                             ![last_lesser] = next[next_item]],
                items - 1, frame)

\* put(frame) merges the frame with its second half, the item after the
\* last lesser one.
SquashNext(frame, last_lesser) ==
  LET next_item == next[last_lesser]
  IN  /\ ~disable_squashing_
      /\ ~(/\ are_consequent(last_lesser, frame, order_)
           /\ is_the_first_in_buddy(last_lesser, order_))
      /\ are_consequent(frame, next_item, order_)
      /\ is_the_first_in_buddy(frame, order_)
      /\ Return(list_,
                [next EXCEPT ![frame] = nullptr,
                             ![last_lesser] = next[next_item]],
                items - 1, frame)

\* put(frame) links the frame behind the last lesser item.
PutBehind(frame, last_lesser) ==
  LET next_item == next[last_lesser]
  IN  /\ \/ disable_squashing_
         \/ /\ ~(/\ are_consequent(last_lesser, frame, order_)
                 /\ is_the_first_in_buddy(last_lesser, order_))
            /\ ~(/\ are_consequent(frame, next_item, order_)
                 /\ is_the_first_in_buddy(frame, order_))
      /\ Return(list_,
                [next EXCEPT ![frame] = next_item, ![last_lesser] = frame],
                items + 1, nullptr)

PutAfterLesser(frame) ==
  \E last_lesser \in InList, prelast_lesser \in InList \cup {nullptr} :
    /\ FindLastLesser(frame, last_lesser, prelast_lesser)
    /\ \/ SquashLastLesser(frame, last_lesser, prelast_lesser)
       \/ SquashNext(frame, last_lesser)
       \/ PutBehind(frame, last_lesser)

\* The buddy system puts blocks aligned for the order of the list, and only
\* blocks that are not free.
MayPut(frame) == frame \notin InList /\ Aligned(frame, order_)

Put(frame) ==
  /\ MayPut(frame)
  /\ \/ PutIntoEmpty(frame)
     \/ PutAtHead(frame)
     \/ SquashHead(frame)
     \/ PutAfterLesser(frame)

\* The owner of a frame that is not in the list writes to it.
Overwrite(frame, word) ==
  /\ frame \notin InList
  /\ next' = [next EXCEPT ![frame] = word]
  /\ UNCHANGED <<order_, disable_squashing_, list_, items, ret, panicked>>

Next ==
  /\ ~panicked
  /\ \/ Get
     \/ \E frame \in Frames : Put(frame)
     \/ \E frame \in Frames, word \in Words : Overwrite(frame, word)

Spec == Init /\ [][Next]_vars

-----------------------------------------------------------------------------
(* Properties.                                                             *)

\* The linked list implements the set of FreeListSpec: it stays sorted, so
\* that one scan finds both possible buddies (free_list.cpp:105-128), and
\* loses no block when it unlinks one in any of the four places.  The panics
\* "FreeList loop detected!" and "FreeList stats are invalid!" of
\* sanity_check() (149-175) are unreachable, whatever the owners of allocated
\* memory write into it.
Abstract == INSTANCE FreeListSpec WITH frames <- InList

ImplementsFreeListSpec == Abstract!Spec
=============================================================================
