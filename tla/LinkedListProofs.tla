-------------------------- MODULE LinkedListProofs --------------------------
(***************************************************************************)
(* The singly linked lists of the kernel, for any memory.  The links       *)
(* between the free frames (free_list.cpp) always lead through every free  *)
(* frame, from the lowest up, and implement the set of FreeListSpec.  The  *)
(* links of forward_list (forward_list.hpp) lead from the dummy node       *)
(* through every node once, and implement the sequence of ForwardListSpec. *)
(***************************************************************************)
EXTENDS LinkedLists, Sequences, FiniteSetTheorems, WellFoundedInduction, TLAPS

\* A set of natural numbers has a least one.
LEMMA LeastExists ==
  ASSUME NEW T \in SUBSET Nat, T # {}
  PROVE  \E x \in T : \A y \in T : x <= y
<1>. DEFINE Less == {ss \in Nat \X Nat : ss[1] < ss[2]}
<1>1. Less = OpToRel(<, Nat)
  BY Zenon DEF OpToRel
<1>2. IsWellFoundedOn(Less, Nat)
  BY <1>1, NatLessThanWellFounded, Zenon
<1>3. PICK x \in T : \A y \in T : ~ (<<y, x>> \in Less)
  BY <1>2, WFMin, Zenon
<1>4. ASSUME NEW y \in T PROVE x <= y
  <2>1. ~ (<<y, x>> \in Less)
    BY <1>3, Zenon
  <2>2. y < x => <<y, x>> \in Less
    BY Zenon
  <2>. QED BY <2>1, <2>2
<1>. QED BY <1>4, Zenon

-----------------------------------------------------------------------------
(* FreeList implements FreeListSpec.                                       *)

\* g is the first item of the set S above f, or 0 if there is none.
Above(S, f, g) ==
  \/ g = 0 /\ \A h \in S : h <= f
  \/ g \in S /\ f < g /\ \A h \in S : h <= f \/ g <= h

\* The links lead from l through the set S, from below.
Chain(S, l, links) ==
  /\ S \subseteq Frames
  /\ Above(S, 0, l)
  /\ \A f \in S : Above(S, f, links[f])

\* What a step of Walk does.
StepFrom(f, links) == IF f \notin Frames THEN 0 ELSE links[f]

\* w is the walk from l of n steps.
IsItems(w, n, l, links) ==
  w = [i \in 0 .. n |-> IF i = 0 THEN l ELSE StepFrom(w[i - 1], links)]

\* Along any links there is a walk of any length.
LEMMA ItemsExist ==
  ASSUME NEW l, NEW links, NEW n \in Nat
  PROVE  \E w : IsItems(w, n, l, links)
<1>. DEFINE T == {m \in Nat : ~\E w : IsItems(w, m, l, links)}
<1>. SUFFICES ASSUME T # {} PROVE FALSE
  BY Zenon
<1>1. PICK m \in T : \A k \in T : m <= k
  BY LeastExists, Zenon
<1>2. m \in Nat /\ ~\E w : IsItems(w, m, l, links)
  BY Zenon
<1>3. CASE m = 0
  <2>. DEFINE w == [i \in 0 .. 0 |-> l]
  <2>1. \A i \in 0 .. 0 : w[i] = IF i = 0 THEN l ELSE StepFrom(w[i - 1], links)
    OBVIOUS
  <2>2. w = [i \in 0 .. 0 |-> IF i = 0 THEN l ELSE StepFrom(w[i - 1], links)]
    BY <2>1, Zenon
  <2>. HIDE DEF w
  <2>. QED BY <1>2, <1>3, <2>2, Zenon DEF IsItems
<1>4. CASE m # 0
  <2>1. m - 1 \in Nat /\ m - 1 \notin T
    BY <1>1, <1>2, <1>4
  <2>2. PICK w : IsItems(w, m - 1, l, links)
    BY <2>1, Zenon
  <2>. DEFINE v == [i \in 0 .. m |-> IF i = m THEN StepFrom(w[m - 1], links) ELSE w[i]]
  <2>3. ASSUME NEW i \in 0 .. m
        PROVE  v[i] = IF i = 0 THEN l ELSE StepFrom(v[i - 1], links)
    <3>1. CASE i = m
      <4>1. m - 1 \in 0 .. m /\ m - 1 # m /\ i # 0
        BY <1>2, <1>4, <3>1
      <4>2. v[m - 1] = w[m - 1] /\ v[i] = StepFrom(w[m - 1], links)
        BY <3>1, <4>1, Zenon
      <4>. QED BY <3>1, <4>1, <4>2, Zenon
    <3>2. CASE i # m
      <4>1. i \in 0 .. (m - 1) /\ v[i] = w[i]
        BY <1>2, <3>2
      <4>2. w[i] = IF i = 0 THEN l ELSE StepFrom(w[i - 1], links)
        BY <2>2, <4>1, Zenon DEF IsItems
      <4>3. i # 0 => i - 1 \in 0 .. m /\ i - 1 # m
        BY <1>2, <4>1
      <4>4. i # 0 => v[i - 1] = w[i - 1]
        BY <4>3, Zenon
      <4>. QED BY <4>1, <4>2, <4>4, Zenon
    <3>. QED BY <3>1, <3>2, Zenon
  <2>4. v = [i \in 0 .. m |-> v[i]]
    BY Zenon
  <2>. HIDE DEF v
  <2>5. IsItems(v, m, l, links)
    BY <2>3, <2>4, Zenon DEF IsItems
  <2>. QED BY <1>2, <2>5, Zenon
<1>. QED BY <1>3, <1>4, Zenon

\* FreeList's notions are those of PageFrames.
LEMMA SameNotions ==
  /\ \A S : Free!Cardinality(S) = Cardinality(S)
  /\ \A f, g, o : Free!are_consequent(f, g, o) <=> are_consequent(f, g, o)
  /\ \A f, o : /\ Free!Aligned(f, o) <=> Aligned(f, o)
               /\ Free!is_the_first_in_buddy(f, o) <=> is_the_first_in_buddy(f, o)
               /\ Free!Abstract!is_the_first_in_buddy(f, o) <=> is_the_first_in_buddy(f, o)
               /\ Free!Abstract!Buddy(f, o) = Buddy(f, o)
  /\ Free!nullptr = 0 /\ Free!Abstract!nullptr = 0
<1>1. \A S : Free!Cardinality(S) = Cardinality(S)
  BY Zenon DEF Free!Cardinality, Cardinality
<1>2. \A f, g, o : Free!are_consequent(f, g, o) <=> are_consequent(f, g, o)
  BY Zenon DEF Free!are_consequent, are_consequent
<1>3. ASSUME NEW f, NEW o
      PROVE  /\ Free!Aligned(f, o) <=> Aligned(f, o)
             /\ Free!is_the_first_in_buddy(f, o) <=> is_the_first_in_buddy(f, o)
             /\ Free!Abstract!is_the_first_in_buddy(f, o) <=> is_the_first_in_buddy(f, o)
  BY Zenon DEF Free!Aligned, Aligned, Free!is_the_first_in_buddy,
               Free!Abstract!is_the_first_in_buddy, is_the_first_in_buddy
<1>4. ASSUME NEW f, NEW o PROVE Free!Abstract!Buddy(f, o) = Buddy(f, o)
  BY Zenon DEF Free!Abstract!Buddy, Buddy, Free!Abstract!is_the_first_in_buddy,
               is_the_first_in_buddy
<1>. QED BY <1>1, <1>2, <1>3, <1>4, Zenon DEF Free!nullptr, Free!Abstract!nullptr

\* The items that sanity_check() and find_last_lesser() meet.
LEMMA WalkIsItems ==
  ASSUME NEW l, NEW links
  PROVE  /\ Cardinality(Frames) \in Nat
         /\ IsItems(Free!Walk(l, links), Cardinality(Frames), l, links)
<1>1. Cardinality(Frames) \in Nat
  BY LinkedListsAssumption, FS_CardinalityType, Zenon
<1>2. Free!Walk(l, links) = CHOOSE w : IsItems(w, Free!Cardinality(Frames), l, links)
  BY Zenon DEF Free!Walk, IsItems, StepFrom, Free!nullptr
<1>3. \E w : IsItems(w, Cardinality(Frames), l, links)
  BY <1>1, ItemsExist, Zenon
<1>. QED BY <1>1, <1>2, <1>3, SameNotions, Zenon

\* They are those of the set, from below, and then there are none.
LEMMA ItemsAscend ==
  ASSUME NEW S, NEW l, NEW links, Chain(S, l, links),
         NEW n \in Nat, NEW w, IsItems(w, n, l, links)
  PROVE  /\ w[0] = l
         /\ \A i \in 1 .. n : w[i] = StepFrom(w[i - 1], links)
         /\ \A i \in 0 .. n : w[i] \in S \cup {0}
         /\ \A i \in 0 .. n : \A h \in S :
              w[i] = 0 \/ h < w[i] => \E j \in 0 .. (i - 1) : w[j] = h
<1>. DEFINE P(i) == /\ w[i] \in S \cup {0}
                    /\ \A h \in S : w[i] = 0 \/ h < w[i] =>
                                      \E j \in 0 .. (i - 1) : w[j] = h
            T == {i \in 0 .. n : ~P(i)}
<1>1. \A i \in 0 .. n : w[i] = IF i = 0 THEN l ELSE StepFrom(w[i - 1], links)
  BY Zenon DEF IsItems
<1>2. w[0] = l /\ \A i \in 1 .. n : w[i] = StepFrom(w[i - 1], links)
  BY <1>1
<1>3. S \subseteq Nat \ {0} /\ S \subseteq Frames /\ 0 \notin Frames
  BY LinkedListsAssumption, Zenon DEF Chain
<1>4. T = {}
  <2>. SUFFICES ASSUME T # {} PROVE FALSE
    BY Zenon
  <2>1. T \in SUBSET Nat
    OBVIOUS
  <2>2. PICK i \in T : \A k \in T : i <= k
    BY <2>1, LeastExists, Zenon
  <2>3. i \in 0 .. n /\ ~P(i)
    BY Zenon
  <2>4. CASE i = 0
    <3>1. w[0] \in S \cup {0} /\ \A h \in S : ~ (w[0] = 0 \/ h < w[0])
      <4>1. Above(S, 0, l) /\ \A h \in S : h \in Nat /\ h # 0
        BY <1>3, Zenon DEF Chain
      <4>2. CASE l = 0 /\ \A h \in S : h <= 0
        BY <1>2, <4>1, <4>2
      <4>3. CASE l \in S /\ 0 < l /\ \A h \in S : h <= 0 \/ l <= h
        BY <1>2, <4>1, <4>3
      <4>. QED BY <4>1, <4>2, <4>3, Zenon DEF Above
    <3>. QED BY <2>3, <2>4, <3>1, Zenon
  <2>5. CASE i # 0
    <3>1. i - 1 \in 0 .. n /\ i \in 1 .. n /\ ~ (i <= i - 1)
      BY <2>3, <2>5
    <3>2. P(i - 1)
      BY <2>2, <3>1, Zenon
    <3>3. w[i] = StepFrom(w[i - 1], links)
      BY <1>2, <3>1, Zenon
    <3>. DEFINE x == w[i - 1]
                y == w[i]
    <3>4. \A h \in S : x = 0 \/ h < x => \E j \in 0 .. (i - 1) : w[j] = h
      <4>1. \A j : j \in 0 .. ((i - 1) - 1) => j \in 0 .. (i - 1)
        BY <3>1
      <4>. QED BY <3>2, <4>1, Zenon
    <3>5. \E j \in 0 .. (i - 1) : w[j] = x
      BY <3>1
    <3>. HIDE DEF P
    <3>6. y \in S \cup {0} /\ \A h \in S : y = 0 \/ h < y => x = 0 \/ h <= x
      <4>1. x \in S \cup {0}
        BY <3>2, Zenon DEF P
      <4>2. CASE x = 0
        BY <1>3, <3>3, <4>2, Zenon DEF StepFrom
      <4>3. CASE x \in S
        <5>1. Above(S, x, y)
          BY <1>3, <3>3, <4>3, Zenon DEF StepFrom, Chain
        <5>2. x \in Nat
          BY <1>3, <4>3, Zenon
        <5>3. \A h \in S : h \in Nat
          BY <1>3, Zenon
        <5>. HIDE DEF x, y
        <5>4. CASE y = 0 /\ \A h \in S : h <= x
          BY <5>4, Zenon
        <5>5. CASE y \in S /\ x < y /\ \A h \in S : h <= x \/ y <= h
          BY <5>2, <5>3, <5>5
        <5>. QED BY <5>1, <5>4, <5>5, Zenon DEF Above
      <4>. QED BY <4>1, <4>2, <4>3, Zenon
    <3>7. x \in Nat
      <4>1. x \in S \cup {0}
        BY <3>2, Zenon DEF P
      <4>2. \A h \in S \cup {0} : h \in Nat
        BY <1>3
      <4>. QED BY <4>1, <4>2, Zenon
    <3>8. ASSUME NEW h \in S, y = 0 \/ h < y PROVE \E j \in 0 .. (i - 1) : w[j] = h
      <4>1. x = 0 \/ h < x \/ h = x
        <5>. HIDE DEF x, y
        <5>. QED BY <1>3, <3>6, <3>7, <3>8
      <4>. QED BY <3>4, <3>5, <4>1, Zenon
    <3>. QED BY <2>3, <3>6, <3>8, Zenon DEF P
  <2>. QED BY <2>4, <2>5, Zenon
<1>. QED BY <1>2, <1>4, Zenon

\* The links reach the whole set, and sanity_check() finds it sane.
LEMMA ChainIsSane ==
  ASSUME NEW S, NEW l, NEW links, Chain(S, l, links)
  PROVE  /\ Free!Linked(l, links) = S
         /\ IsFiniteSet(S)
         /\ \A n : n = Cardinality(S) => ~Free!Insane(l, links, n)
<1>. DEFINE w == Free!Walk(l, links)
            n == Cardinality(Frames)
<1>1. n \in Nat /\ IsItems(w, n, l, links)
  BY WalkIsItems, Zenon
<1>2. DOMAIN w = 0 .. n
  BY <1>1, Zenon DEF IsItems
<1>3. /\ \A i \in 1 .. n : w[i] = StepFrom(w[i - 1], links)
      /\ \A i \in 0 .. n : w[i] \in S \cup {0}
      /\ \A i \in 0 .. n : \A h \in S :
           w[i] = 0 \/ h < w[i] => \E j \in 0 .. (i - 1) : w[j] = h
  BY <1>1, ItemsAscend
<1>4. /\ S \subseteq Frames /\ 0 \notin Frames /\ IsFiniteSet(Frames)
      /\ \A h \in S : h \in Nat /\ h # 0
  BY LinkedListsAssumption, Zenon DEF Chain
<1>. HIDE DEF w, n
<1>5. w[n] = 0
  <2>. SUFFICES ASSUME w[n] # 0 PROVE FALSE
    BY Zenon
  <2>1. \A i \in 0 .. n : w[i] # 0
    <3>. DEFINE T == {k \in 0 .. n : w[n - k] = 0}
    <3>1. T = {}
      <4>. SUFFICES ASSUME T # {} PROVE FALSE
        BY Zenon
      <4>1. T \in SUBSET Nat
        OBVIOUS
      <4>2. PICK k \in T : \A j \in T : k <= j
        BY <4>1, LeastExists, Zenon
      <4>3. k \in 0 .. n /\ w[n - k] = 0
        BY Zenon
      <4>4. k # 0
        BY <1>1, <4>3
      <4>5. /\ k - 1 \in 0 .. n /\ ~ (k <= k - 1)
            /\ n - (k - 1) \in 1 .. n /\ (n - (k - 1)) - 1 = n - k
        BY <1>1, <4>3, <4>4
      <4>6. w[n - (k - 1)] = StepFrom(w[n - k], links)
        BY <1>3, <4>5, Zenon
      <4>7. w[n - (k - 1)] = 0
        BY <1>4, <4>3, <4>6, Zenon DEF StepFrom
      <4>. QED BY <4>2, <4>5, <4>7, Zenon
    <3>2. ASSUME NEW i \in 0 .. n PROVE w[i] # 0
      <4>1. n - i \in 0 .. n /\ n - (n - i) = i
        BY <1>1
      <4>. QED BY <3>1, <4>1, Zenon
    <3>. QED BY <3>2, Zenon
  <2>2. \A i \in 0 .. n : w[i] \in S
    BY <1>3, <2>1, Zenon
  <2>3. \A i \in 1 .. n : w[i - 1] < w[i]
    <3>. SUFFICES ASSUME NEW i \in 1 .. n PROVE w[i - 1] < w[i]
      BY Zenon
    <3>1. i - 1 \in 0 .. n /\ i \in 0 .. n
      BY <1>1
    <3>2. w[i - 1] \in S /\ w[i] \in S /\ w[i] = links[w[i - 1]] /\ w[i] # 0
      BY <1>3, <1>4, <2>1, <2>2, <3>1, Zenon DEF StepFrom
    <3>3. Above(S, w[i - 1], w[i])
      BY <3>2, Zenon DEF Chain
    <3>. QED BY <3>2, <3>3, Zenon DEF Above
  <2>4. \A j \in 0 .. n : \A i \in 0 .. (j - 1) : w[i] < w[j]
    <3>. DEFINE T == {j \in 0 .. n : \E i \in 0 .. (j - 1) : ~ (w[i] < w[j])}
    <3>1. T = {}
      <4>. SUFFICES ASSUME T # {} PROVE FALSE
        BY Zenon
      <4>1. T \in SUBSET Nat
        OBVIOUS
      <4>2. PICK j \in T : \A k \in T : j <= k
        BY <4>1, LeastExists, Zenon
      <4>3. PICK i \in 0 .. (j - 1) : ~ (w[i] < w[j])
        BY Zenon
      <4>4. j \in 1 .. n /\ j - 1 \in 0 .. n /\ ~ (j <= j - 1)
        BY <1>1, <4>2, <4>3
      <4>5. i = j - 1 \/ i \in 0 .. ((j - 1) - 1)
        BY <4>3, <4>4
      <4>6. j - 1 \notin T
        BY <4>2, <4>4, Zenon
      <4>7. w[i] = w[j - 1] \/ w[i] < w[j - 1]
        BY <4>4, <4>5, <4>6, Zenon
      <4>8. w[i] \in Nat /\ w[j - 1] \in Nat /\ w[j] \in Nat
        <5>1. i \in 0 .. n /\ j \in 0 .. n
          BY <1>1, <4>3, <4>4
        <5>. QED BY <1>4, <2>2, <4>4, <5>1, Zenon
      <4>9. w[j - 1] < w[j]
        BY <2>3, <4>4, Zenon
      <4>. HIDE DEF T
      <4>. QED BY <4>3, <4>7, <4>8, <4>9
    <3>. QED BY <3>1, Zenon
  <2>5. w \in [0 .. n -> Frames]
    <3>1. w = [i \in 0 .. n |-> w[i]]
      BY <1>1, <1>2, Zenon DEF IsItems
    <3>. QED BY <1>4, <2>2, <3>1, Zenon
  <2>6. IsFiniteSet(0 .. n) /\ Cardinality(0 .. n) = n + 1
    BY <1>1, FS_Interval
  <2>7. PICK i, j \in 0 .. n : i # j /\ w[i] = w[j]
    <3>1. Cardinality(Frames) < Cardinality(0 .. n)
      BY <1>1, <2>6 DEF n
    <3>. QED BY <1>4, <2>5, <2>6, <3>1, FS_PigeonHole, Zenon
  <2>8. w[i] \in Nat /\ w[j] \in Nat
    BY <1>4, <2>2, Zenon
  <2>9. i \in 0 .. (j - 1) \/ j \in 0 .. (i - 1)
    BY <1>1, <2>7
  <2>. QED BY <2>4, <2>7, <2>8, <2>9
<1>6. Free!Linked(l, links) = S
  <2>1. Free!Linked(l, links) = {w[i] : i \in 0 .. n} \ {0}
    BY <1>2, SameNotions, Zenon DEF Free!Linked, w
  <2>2. \A h \in S : \E i \in 0 .. n : w[i] = h
    <3>1. n \in 0 .. n /\ \A i : i \in 0 .. (n - 1) => i \in 0 .. n
      BY <1>1
    <3>. QED BY <1>3, <1>5, <3>1
  <2>. QED BY <1>3, <1>4, <2>1, <2>2
<1>7. IsFiniteSet(S)
  BY <1>4, FS_Subset, Zenon
<1>8. ASSUME NEW m, m = Cardinality(S) PROVE ~Free!Insane(l, links, m)
  BY <1>5, <1>6, <1>8, SameNotions, Zenon DEF Free!Insane, w, n
<1>. QED BY <1>6, <1>7, <1>8, Zenon

\* find_last_lesser() finds the place of a frame.
LEMMA LastLesser ==
  ASSUME NEW S, Chain(S, list_, free_next), NEW frame \in Frames, frame \notin S,
         NEW last, NEW prelast, Free!FindLastLesser(frame, last, prelast)
  PROVE  \/ last = 0 /\ (list_ = 0 \/ frame < list_)
         \/ /\ last \in S /\ last < frame
            /\ free_next[last] = 0 \/ frame < free_next[last]
            /\ \/ prelast = 0 /\ list_ = last
               \/ prelast \in S /\ free_next[prelast] = last
<1>. DEFINE w == Free!Walk(list_, free_next)
            n == Cardinality(Frames)
            At(i) == IF i < 0 THEN 0 ELSE w[i]
<1>1. n \in Nat /\ IsItems(w, n, list_, free_next)
  BY WalkIsItems, Zenon
<1>2. DOMAIN w = 0 .. n
  BY <1>1, Zenon DEF IsItems
<1>3. /\ w[0] = list_
      /\ \A i \in 1 .. n : w[i] = StepFrom(w[i - 1], free_next)
      /\ \A i \in 0 .. n : w[i] \in S \cup {0}
  BY <1>1, ItemsAscend
<1>4. S \subseteq Frames /\ frame \in Nat /\ \A h \in S : h \in Nat
  BY LinkedListsAssumption, Zenon DEF Chain
<1>5. PICK i \in 0 .. n :
        /\ w[i] = 0 \/ w[i] >= frame
        /\ \A j \in 0 .. (i - 1) : w[j] # 0 /\ w[j] < frame
        /\ last = At(i - 1)
        /\ prelast = At(i - 2)
  BY <1>2, SameNotions, Zenon DEF Free!FindLastLesser
<1>. HIDE DEF w, n
<1>6. w[i] = 0 \/ frame < w[i]
  <2>1. w[i] \in S \cup {0} /\ (w[i] = 0 \/ w[i] >= frame)
    BY <1>3, <1>5, Zenon
  <2>2. \A x \in S : x >= frame => frame < x
    BY <1>4
  <2>. QED BY <2>1, <2>2, Zenon
<1>7. CASE i = 0
  <2>1. last = 0
    BY <1>5, <1>7
  <2>. QED BY <1>3, <1>6, <1>7, <2>1, Zenon
<1>8. CASE i # 0
  <2>1. i - 1 \in 0 .. n /\ i - 1 \in 0 .. (i - 1) /\ i \in 1 .. n /\ ~ (i - 1 < 0)
    BY <1>1, <1>5, <1>8
  <2>2. last = w[i - 1] /\ last \in S /\ last < frame
    BY <1>3, <1>5, <2>1, Zenon
  <2>3. w[i] = free_next[last]
    BY <1>3, <1>4, <2>1, <2>2, Zenon DEF StepFrom
  <2>4. CASE i = 1
    <3>1. i - 2 < 0 /\ i - 1 = 0
      BY <2>4
    <3>2. prelast = 0 /\ list_ = last
      BY <1>3, <1>5, <2>2, <3>1, Zenon
    <3>. QED BY <1>6, <2>2, <2>3, <3>2, Zenon
  <2>5. CASE i # 1
    <3>1. /\ i - 2 \in 0 .. n /\ i - 2 \in 0 .. (i - 1) /\ ~ (i - 2 < 0)
          /\ i - 1 \in 1 .. n /\ (i - 1) - 1 = i - 2
      BY <1>1, <1>5, <1>8, <2>5
    <3>2. prelast = w[i - 2] /\ prelast \in S
      BY <1>3, <1>5, <3>1, Zenon
    <3>3. w[i - 1] = free_next[prelast]
      BY <1>3, <1>4, <3>1, <3>2, Zenon DEF StepFrom
    <3>. QED BY <1>6, <2>2, <2>3, <3>2, <3>3, Zenon
  <2>. QED BY <2>4, <2>5, Zenon
<1>. QED BY <1>7, <1>8, Zenon

\* The changes of the links.
LEMMA ChainWithoutFirst ==
  ASSUME NEW S, NEW l, NEW links, Chain(S, l, links), l # 0,
         NEW other, \A f \in S \ {l} : other[f] = links[f]
  PROVE  l \in S /\ Chain(S \ {l}, links[l], other)
<1>1. \A h \in S : h \in Nat /\ h # 0
  BY LinkedListsAssumption, Zenon DEF Chain
<1>2. l \in S /\ \A h \in S : l <= h
  BY <1>1 DEF Chain, Above
<1>3. \A f \in S : Above(S, f, links[f])
  BY Zenon DEF Chain
<1>4. Above(S \ {l}, 0, links[l])
  BY <1>1, <1>2, <1>3 DEF Above
<1>5. ASSUME NEW f \in S \ {l} PROVE Above(S \ {l}, f, links[f])
  BY <1>1, <1>2, <1>3 DEF Above
<1>. QED BY <1>2, <1>4, <1>5, Zenon DEF Chain

\* The item behind p leaves the chain.
LEMMA ChainWithoutNext ==
  ASSUME NEW S, NEW l, NEW links, Chain(S, l, links),
         NEW p \in S, links[p] # 0,
         NEW other, other[p] = links[links[p]],
         \A f \in S \ {p, links[p]} : other[f] = links[f]
  PROVE  links[p] \in S /\ Chain(S \ {links[p]}, l, other)
<1>. DEFINE x == links[p]
<1>1. \A h \in S : h \in Nat /\ h # 0
  BY LinkedListsAssumption, Zenon DEF Chain
<1>2. Above(S, p, x) /\ Above(S, 0, l) /\ \A f \in S : Above(S, f, links[f])
  BY Zenon DEF Chain
<1>3. x \in S /\ p < x /\ \A h \in S : h <= p \/ x <= h
  BY <1>2, Zenon DEF Above
<1>4. Above(S, x, links[x])
  BY <1>2, <1>3, Zenon
<1>5. other[p] = links[x] /\ \A f \in S \ {p, x} : other[f] = links[f]
  BY Zenon
<1>. HIDE DEF x
<1>6. Above(S \ {x}, 0, l)
  BY <1>1, <1>2, <1>3 DEF Above
<1>7. Above(S \ {x}, p, links[x])
  BY <1>1, <1>3, <1>4 DEF Above
<1>8. ASSUME NEW f \in S, f # p, f # x PROVE Above(S \ {x}, f, links[f])
  BY <1>1, <1>2, <1>3, <1>8 DEF Above
<1>9. Chain(S \ {x}, l, other)
  BY <1>5, <1>6, <1>7, <1>8, Zenon DEF Chain
<1>. QED BY <1>3, <1>9, Zenon DEF x

\* A frame below the first item becomes the first.
LEMMA ChainWithNewFirst ==
  ASSUME NEW S, NEW l, NEW links, Chain(S, l, links),
         NEW frame \in Frames, frame \notin S, l = 0 \/ frame < l,
         NEW other, other[frame] = l, \A f \in S : other[f] = links[f]
  PROVE  Chain(S \cup {frame}, frame, other)
<1>1. frame \in Nat /\ frame # 0 /\ \A h \in S : h \in Nat /\ h # 0
  BY LinkedListsAssumption, Zenon DEF Chain
<1>2. Above(S, 0, l) /\ \A f \in S : Above(S, f, links[f])
  BY Zenon DEF Chain
<1>3. \A h \in S : frame < h
  BY <1>1, <1>2 DEF Above
<1>4. Above(S \cup {frame}, 0, frame)
  BY <1>1, <1>3 DEF Above
<1>5. Above(S \cup {frame}, frame, l)
  BY <1>1, <1>2, <1>3 DEF Above
<1>6. ASSUME NEW f \in S PROVE Above(S \cup {frame}, f, links[f])
  BY <1>1, <1>2, <1>3 DEF Above
<1>. QED BY <1>4, <1>5, <1>6, Zenon DEF Chain

\* A frame joins the chain behind p.
LEMMA ChainWithNewNext ==
  ASSUME NEW S, NEW l, NEW links, Chain(S, l, links),
         NEW frame \in Frames, frame \notin S,
         NEW p \in S, p < frame, links[p] = 0 \/ frame < links[p],
         NEW other, other[frame] = links[p], other[p] = frame,
         \A f \in S \ {p} : other[f] = links[f]
  PROVE  Chain(S \cup {frame}, l, other)
<1>1. frame \in Nat /\ frame # 0 /\ \A h \in S : h \in Nat /\ h # 0
  BY LinkedListsAssumption, Zenon DEF Chain
<1>2. Above(S, 0, l) /\ \A f \in S : Above(S, f, links[f])
  BY Zenon DEF Chain
<1>3. \A h \in S : h <= p \/ frame < h
  BY <1>1, <1>2 DEF Above
<1>4. Above(S \cup {frame}, 0, l)
  BY <1>1, <1>2 DEF Above
<1>5. Above(S \cup {frame}, frame, links[p])
  BY <1>1, <1>2, <1>3 DEF Above
<1>6. Above(S \cup {frame}, p, frame)
  BY <1>1, <1>3 DEF Above
<1>7. ASSUME NEW f \in S \ {p} PROVE Above(S \cup {frame}, f, links[f])
  BY <1>1, <1>2, <1>3 DEF Above
<1>. QED BY <1>4, <1>5, <1>6, <1>7, Zenon DEF Chain

-----------------------------------------------------------------------------
\* The inductive invariant: the links lead through a set of aligned frames
\* from below, and stats.items counts it.
FreeInv ==
  /\ order_ \in Orders
  /\ DOMAIN free_next = Frames
  /\ panicked = FALSE
  /\ \E S : /\ Chain(S, list_, free_next)
            /\ \A f \in S : Aligned(f, order_)
            /\ items = Cardinality(S)

\* A call that leaves such links behind is sane.
LEMMA ReturnIsSane ==
  ASSUME FreeInv, NEW l, NEW links, NEW n, NEW r, Free!Return(l, links, n, r),
         NEW S, Chain(S, l, links), \A f \in S : Aligned(f, order_),
         DOMAIN links = Frames, n = Cardinality(S)
  PROVE  /\ FreeInv' /\ Free!InList' = S /\ free_ret' = r
         /\ UNCHANGED <<order_, disable_squashing_, panicked>>
<1>1. /\ list_' = l /\ free_next' = links /\ items' = n /\ free_ret' = r
      /\ panicked' = Free!Insane(l, links, n)
      /\ UNCHANGED <<order_, disable_squashing_>>
  BY Zenon DEF Free!Return
<1>2. ~Free!Insane(l, links, n) /\ Free!Linked(l, links) = S
  BY ChainIsSane, Zenon
<1>3. Free!Insane(l, links, n) \in BOOLEAN
  BY Zenon DEF Free!Insane
<1>4. panicked' = FALSE
  BY <1>1, <1>2, <1>3, Zenon
<1>5. Free!InList' = S
  BY <1>1, <1>2, Zenon DEF Free!InList
<1>6. FreeInv'
  BY <1>1, <1>4, Zenon DEF FreeInv
<1>. QED BY <1>1, <1>4, <1>5, <1>6, Zenon DEF FreeInv

\* Aligned frames are a block apart, and neighbours are one pair in turns.
LEMMA Neighbours ==
  ASSUME NEW order \in Orders, NEW f \in Nat, NEW g \in Nat,
         Aligned(f, order), Aligned(g, order)
  PROVE  /\ 2^order \in Nat \ {0}
         /\ f < g => f + 2^order <= g
         /\ g = f + 2^order =>
              (is_the_first_in_buddy(f, order) <=> ~is_the_first_in_buddy(g, order))
<1>. DEFINE u == 2^order
<1>1. u \in Nat \ {0}
  BY PowersOfTwo, Zenon
<1>2. f % u = 0 /\ g % u = 0
  BY Zenon DEF Aligned
<1>3. \A m \in Nat \ {0} : \A a \in Nat :
        a % m = 0 => \E q \in Nat : a = m * q /\ a \div m = q
  BY Z3
<1>. HIDE DEF u
<1>4. PICK p \in Nat : f = u * p /\ f \div u = p
  BY <1>1, <1>2, <1>3, Zenon
<1>5. PICK q \in Nat : g = u * q /\ g \div u = q
  BY <1>1, <1>2, <1>3, Zenon
<1>6. f < g => f + u <= g
  <2>. SUFFICES ASSUME f < g PROVE f + u <= g
    BY Zenon
  <2>1. p + 1 <= q
    BY <1>1, <1>4, <1>5, Z3
  <2>2. u * (p + 1) <= u * q /\ u * (p + 1) = u * p + u
    BY <1>1, <2>1, Z3
  <2>. QED BY <1>1, <1>4, <1>5, <2>2, Zenon
<1>7. ASSUME g = f + u PROVE p % 2 = 0 <=> ~(q % 2 = 0)
  <2>1. u * (q - p) = u
    BY <1>1, <1>4, <1>5, <1>7, Z3
  <2>2. q - p = 1
    BY <1>1, <2>1, Z3
  <2>. QED BY <2>2
<1>. QED BY <1>1, <1>4, <1>5, <1>6, <1>7, Zenon DEF is_the_first_in_buddy, u

\* How put() recognizes the other half of a block.
LEMMA BuddyIs ==
  ASSUME NEW order \in Orders, NEW f \in Nat, NEW g \in Nat,
         Aligned(f, order), Aligned(g, order)
  PROVE  g = Buddy(f, order) <=>
           \/ are_consequent(f, g, order) /\ is_the_first_in_buddy(f, order)
           \/ are_consequent(g, f, order) /\ is_the_first_in_buddy(g, order)
<1>1. 2^order \in Nat \ {0}
  BY PowersOfTwo, Zenon
<1>2. f = g + 2^order =>
        (is_the_first_in_buddy(g, order) <=> ~is_the_first_in_buddy(f, order))
  BY Neighbours, Zenon
<1>3. CASE is_the_first_in_buddy(f, order)
  <2>1. Buddy(f, order) = f + 2^order
    BY <1>3, Zenon DEF Buddy
  <2>2. are_consequent(g, f, order) => f = g + 2^order
    BY <1>1 DEF are_consequent
  <2>3. ~ (are_consequent(g, f, order) /\ is_the_first_in_buddy(g, order))
    BY <1>2, <1>3, <2>2, Zenon
  <2>4. g = f + 2^order <=> are_consequent(f, g, order)
    BY <1>1 DEF are_consequent
  <2>. QED BY <1>3, <2>1, <2>3, <2>4, Zenon
<1>4. CASE ~is_the_first_in_buddy(f, order)
  <2>1. Buddy(f, order) = f - 2^order
    BY <1>4, Zenon DEF Buddy
  <2>2. g = f - 2^order <=> f = g + 2^order
    BY <1>1
  <2>3. are_consequent(g, f, order) <=> f = g + 2^order
    BY <1>1 DEF are_consequent
  <2>. QED BY <1>2, <1>4, <2>1, <2>2, <2>3, Zenon
<1>. QED BY <1>3, <1>4, Zenon

\* The calls, seen as steps of FreeListSpec.
LEMMA AbstractInsert ==
  ASSUME NEW S, Free!InList = S, NEW frame \in Frames, frame \notin S,
         disable_squashing_ \/ Buddy(frame, order_) \notin S,
         Free!InList' = S \cup {frame}, free_ret' = 0,
         UNCHANGED <<order_, disable_squashing_, panicked>>
  PROVE  Free!Abstract!Next
<1>1. Free!Abstract!Insert(frame)
  BY SameNotions, Zenon DEF Free!Abstract!Insert
<1>. QED BY <1>1, Zenon DEF Free!Abstract!Next

\* A frame whose buddy is free merges with it in the set.
LEMMA AbstractSquash ==
  ASSUME NEW S, Free!InList = S, NEW frame \in Frames, frame \notin S,
         ~disable_squashing_, NEW g \in S, g = Buddy(frame, order_),
         Free!InList' = S \ {g},
         free_ret' = IF is_the_first_in_buddy(frame, order_) THEN frame ELSE g,
         UNCHANGED <<order_, disable_squashing_, panicked>>
  PROVE  Free!Abstract!Next
<1>1. Free!Abstract!Buddy(frame, order_) = g
  BY SameNotions, Zenon
<1>2. free_ret' = IF Free!Abstract!is_the_first_in_buddy(frame, order_)
                  THEN frame ELSE Free!Abstract!Buddy(frame, order_)
  BY <1>1, SameNotions, Zenon
<1>3. Free!Abstract!Squash(frame)
  BY <1>1, <1>2, Zenon DEF Free!Abstract!Squash
<1>. QED BY <1>3, Zenon DEF Free!Abstract!Next

\* What the invariant says.
LEMMA FreeState ==
  ASSUME FreeInv
  PROVE  \E S : /\ Chain(S, list_, free_next) /\ Free!InList = S
                /\ S \subseteq Frames /\ IsFiniteSet(S)
                /\ \A f \in S : f \in Nat /\ f # 0 /\ Aligned(f, order_)
                /\ items = Cardinality(S) /\ Cardinality(S) \in Nat
                /\ order_ \in Orders /\ DOMAIN free_next = Frames
                /\ panicked = FALSE
<1>1. PICK S : /\ Chain(S, list_, free_next)
               /\ \A f \in S : Aligned(f, order_)
               /\ items = Cardinality(S)
  BY Zenon DEF FreeInv
<1>2. Free!InList = S /\ IsFiniteSet(S)
  BY <1>1, ChainIsSane, Zenon DEF Free!InList
<1>3. Cardinality(S) \in Nat
  BY <1>2, FS_CardinalityType, Zenon
<1>4. S \subseteq Frames /\ \A f \in S : f \in Nat /\ f # 0
  BY <1>1, LinkedListsAssumption, Zenon DEF Chain
<1>. QED BY <1>1, <1>2, <1>3, <1>4, Zenon DEF FreeInv

\* get() takes the lowest frame out of the set, if there is one.
LEMMA GetImplements ==
  ASSUME FreeInv, Free!Get
  PROVE  FreeInv' /\ Free!Abstract!Next
<1>1. PICK S : /\ Chain(S, list_, free_next) /\ Free!InList = S
               /\ S \subseteq Frames /\ IsFiniteSet(S)
               /\ \A f \in S : f \in Nat /\ f # 0 /\ Aligned(f, order_)
               /\ items = Cardinality(S) /\ Cardinality(S) \in Nat
               /\ order_ \in Orders /\ DOMAIN free_next = Frames
               /\ panicked = FALSE
  BY FreeState, Zenon
<1>2. Above(S, 0, list_)
  BY <1>1, Zenon DEF Chain
<1>3. CASE list_ = 0
  <2>1. Free!Return(list_, free_next, items, 0)
    BY <1>3, SameNotions, Zenon DEF Free!Get
  <2>2. /\ FreeInv' /\ Free!InList' = S /\ free_ret' = 0
        /\ UNCHANGED <<order_, disable_squashing_, panicked>>
    BY <1>1, <2>1, ReturnIsSane, Zenon
  <2>3. S = {}
    BY <1>1, <1>2, <1>3 DEF Above
  <2>4. Free!Abstract!Get
    BY <1>1, <2>2, <2>3, SameNotions, Zenon DEF Free!Abstract!Get
  <2>. QED BY <2>2, <2>4, Zenon DEF Free!Abstract!Next
<1>4. CASE list_ # 0
  <2>. DEFINE links == [free_next EXCEPT ![list_] = 0]
  <2>1. Free!Return(free_next[list_], links, items - 1, list_)
    BY <1>4, SameNotions, Zenon DEF Free!Get
  <2>2. DOMAIN links = Frames /\ \A f \in S \ {list_} : links[f] = free_next[f]
    BY <1>1, Zenon
  <2>. HIDE DEF links
  <2>3. list_ \in S /\ Chain(S \ {list_}, free_next[list_], links)
    BY <1>1, <1>4, <2>2, ChainWithoutFirst, Zenon
  <2>4. items - 1 = Cardinality(S \ {list_})
    BY <1>1, <2>3, FS_RemoveElement, Zenon
  <2>5. \A f \in S \ {list_} : Aligned(f, order_)
    BY <1>1, Zenon
  <2>6. /\ FreeInv' /\ Free!InList' = S \ {list_} /\ free_ret' = list_
        /\ UNCHANGED <<order_, disable_squashing_, panicked>>
    BY <2>1, <2>2, <2>3, <2>4, <2>5, ReturnIsSane, Zenon
  <2>7. \A f \in S : list_ <= f
    BY <1>1, <1>2, <1>4 DEF Above
  <2>8. Free!Abstract!Get
    BY <1>1, <2>3, <2>6, <2>7, Zenon DEF Free!Abstract!Get
  <2>. QED BY <2>6, <2>8, Zenon DEF Free!Abstract!Next
<1>. QED BY <1>3, <1>4, Zenon

\* put() of a frame that becomes an item.
LEMMA PutFirstImplements ==
  ASSUME FreeInv, NEW frame \in Frames, Free!MayPut(frame),
         Free!PutIntoEmpty(frame) \/ Free!PutAtHead(frame)
  PROVE  FreeInv' /\ Free!Abstract!Next
<1>1. PICK S : /\ Chain(S, list_, free_next) /\ Free!InList = S
               /\ S \subseteq Frames /\ IsFiniteSet(S)
               /\ \A f \in S : f \in Nat /\ f # 0 /\ Aligned(f, order_)
               /\ items = Cardinality(S) /\ Cardinality(S) \in Nat
               /\ order_ \in Orders /\ DOMAIN free_next = Frames
               /\ panicked = FALSE
  BY FreeState, Zenon
<1>2. frame \in Nat /\ frame # 0 /\ frame \notin S /\ Aligned(frame, order_)
  BY <1>1, LinkedListsAssumption, SameNotions, Zenon DEF Free!MayPut
<1>. DEFINE links == [free_next EXCEPT ![frame] = list_]
<1>3. /\ Free!Return(frame, links, items + 1, 0)
      /\ list_ = 0 \/ frame < list_
      /\ list_ # 0 => \/ disable_squashing_
                      \/ ~are_consequent(frame, list_, order_)
                      \/ ~is_the_first_in_buddy(frame, order_)
  <2>1. CASE Free!PutIntoEmpty(frame)
    BY <2>1, SameNotions, Zenon DEF Free!PutIntoEmpty
  <2>2. CASE Free!PutAtHead(frame)
    <3>1. Free!FindLastLesser(frame, 0, 0)
      BY <2>2, SameNotions, Zenon DEF Free!PutAtHead
    <3>2. list_ = 0 \/ frame < list_
      BY <1>1, <1>2, <3>1, LastLesser, Zenon
    <3>. QED BY <2>2, <3>2, SameNotions, Zenon DEF Free!PutAtHead
  <2>. QED BY <2>1, <2>2, Zenon
<1>4. DOMAIN links = Frames /\ links[frame] = list_ /\ \A f \in S : links[f] = free_next[f]
  BY <1>1, <1>2, Zenon
<1>. HIDE DEF links
<1>5. Chain(S \cup {frame}, frame, links)
  BY <1>1, <1>2, <1>3, <1>4, ChainWithNewFirst, Zenon
<1>6. items + 1 = Cardinality(S \cup {frame})
  BY <1>1, <1>2, FS_AddElement, Zenon
<1>7. \A f \in S \cup {frame} : Aligned(f, order_)
  BY <1>1, <1>2, Zenon
<1>8. /\ FreeInv' /\ Free!InList' = S \cup {frame} /\ free_ret' = 0
      /\ UNCHANGED <<order_, disable_squashing_, panicked>>
  BY <1>3, <1>4, <1>5, <1>6, <1>7, ReturnIsSane, Zenon
<1>9. ASSUME ~disable_squashing_, NEW g \in S, g = Buddy(frame, order_) PROVE FALSE
  <2>1. Above(S, 0, list_) /\ g \in Nat /\ g # 0 /\ Aligned(g, order_)
    BY <1>1, Zenon DEF Chain
  <2>2. list_ \in S /\ list_ <= g
    BY <1>1, <2>1 DEF Above
  <2>3. list_ \in Nat /\ Aligned(list_, order_) /\ frame < list_
    BY <1>1, <1>3, <2>2, Zenon
  <2>4. 2^order_ \in Nat \ {0} /\ frame + 2^order_ <= list_
    BY <1>1, <1>2, <2>3, Neighbours, Zenon
  <2>5. ~are_consequent(g, frame, order_)
    BY <1>2, <2>1, <2>2, <2>3, <2>4 DEF are_consequent
  <2>6. are_consequent(frame, g, order_) /\ is_the_first_in_buddy(frame, order_)
    BY <1>1, <1>2, <1>9, <2>1, <2>5, BuddyIs, Zenon
  <2>7. are_consequent(frame, list_, order_)
    BY <1>2, <2>1, <2>2, <2>3, <2>4, <2>6 DEF are_consequent
  <2>8. list_ # 0
    BY <1>1, <2>2, Zenon
  <2>. QED BY <1>3, <1>9, <2>6, <2>7, <2>8, Zenon
<1>. QED BY <1>1, <1>2, <1>8, <1>9, AbstractInsert, Zenon

\* put() of the first half of the first item.
LEMMA SquashHeadImplements ==
  ASSUME FreeInv, NEW frame \in Frames, Free!MayPut(frame), Free!SquashHead(frame)
  PROVE  FreeInv' /\ Free!Abstract!Next
<1>1. PICK S : /\ Chain(S, list_, free_next) /\ Free!InList = S
               /\ S \subseteq Frames /\ IsFiniteSet(S)
               /\ \A f \in S : f \in Nat /\ f # 0 /\ Aligned(f, order_)
               /\ items = Cardinality(S) /\ Cardinality(S) \in Nat
               /\ order_ \in Orders /\ DOMAIN free_next = Frames
               /\ panicked = FALSE
  BY FreeState, Zenon
<1>2. frame \in Nat /\ frame # 0 /\ frame \notin S /\ Aligned(frame, order_)
  BY <1>1, LinkedListsAssumption, SameNotions, Zenon DEF Free!MayPut
<1>. DEFINE links == [free_next EXCEPT ![frame] = 0]
<1>3. /\ Free!Return(free_next[list_], links, items - 1, frame)
      /\ list_ # 0 /\ ~disable_squashing_
      /\ are_consequent(frame, list_, order_) /\ is_the_first_in_buddy(frame, order_)
  BY SameNotions, Zenon DEF Free!SquashHead
<1>4. DOMAIN links = Frames /\ \A f \in S \ {list_} : links[f] = free_next[f]
  BY <1>1, <1>2, Zenon
<1>. HIDE DEF links
<1>5. list_ \in S /\ Chain(S \ {list_}, free_next[list_], links)
  BY <1>1, <1>3, <1>4, ChainWithoutFirst, Zenon
<1>6. items - 1 = Cardinality(S \ {list_})
  BY <1>1, <1>5, FS_RemoveElement, Zenon
<1>7. \A f \in S \ {list_} : Aligned(f, order_)
  BY <1>1, Zenon
<1>8. /\ FreeInv' /\ Free!InList' = S \ {list_} /\ free_ret' = frame
      /\ UNCHANGED <<order_, disable_squashing_, panicked>>
  BY <1>3, <1>4, <1>5, <1>6, <1>7, ReturnIsSane, Zenon
<1>9. list_ = Buddy(frame, order_)
  BY <1>1, <1>2, <1>3, <1>5, BuddyIs, Zenon
<1>. QED BY <1>1, <1>2, <1>3, <1>5, <1>8, <1>9, AbstractSquash, Zenon

\* put() of the second half of the last lesser item.
LEMMA SquashLastLesserImplements ==
  ASSUME FreeInv, NEW frame \in Frames, Free!MayPut(frame),
         NEW last \in Free!InList, NEW prelast, Free!FindLastLesser(frame, last, prelast),
         Free!SquashLastLesser(frame, last, prelast)
  PROVE  FreeInv' /\ Free!Abstract!Next
<1>1. PICK S : /\ Chain(S, list_, free_next) /\ Free!InList = S
               /\ S \subseteq Frames /\ IsFiniteSet(S)
               /\ \A f \in S : f \in Nat /\ f # 0 /\ Aligned(f, order_)
               /\ items = Cardinality(S) /\ Cardinality(S) \in Nat
               /\ order_ \in Orders /\ DOMAIN free_next = Frames
               /\ panicked = FALSE
  BY FreeState, Zenon
<1>2. frame \in Nat /\ frame # 0 /\ frame \notin S /\ Aligned(frame, order_)
  BY <1>1, LinkedListsAssumption, SameNotions, Zenon DEF Free!MayPut
<1>3. /\ last \in S /\ last < frame
      /\ \/ prelast = 0 /\ list_ = last
         \/ prelast \in S /\ free_next[prelast] = last
  BY <1>1, <1>2, LastLesser
<1>4. /\ ~disable_squashing_ /\ are_consequent(last, frame, order_)
      /\ is_the_first_in_buddy(last, order_)
  BY SameNotions, Zenon DEF Free!SquashLastLesser
<1>5. last = Buddy(frame, order_) /\ ~is_the_first_in_buddy(frame, order_)
  <2>1. 2^order_ \in Nat \ {0} /\ frame = last + 2^order_
    BY <1>1, <1>2, <1>3, <1>4, PowersOfTwo DEF are_consequent
  <2>. QED BY <1>1, <1>2, <1>3, <1>4, <2>1, BuddyIs, Neighbours, SMTT(30)
<1>6. items - 1 = Cardinality(S \ {last}) /\ \A f \in S \ {last} : Aligned(f, order_)
  BY <1>1, <1>3, FS_RemoveElement, Zenon
<1>. DEFINE unlinked == [free_next EXCEPT ![frame] = 0, ![last] = 0]
            closed == [unlinked EXCEPT ![prelast] = free_next[last]]
<1>7. DOMAIN unlinked = Frames /\ \A f \in S \ {last} : unlinked[f] = free_next[f]
  BY <1>1, <1>2, Zenon
<1>8. CASE prelast = 0
  <2>1. Free!Return(free_next[last], unlinked, items - 1, last)
    BY <1>8, SameNotions, Zenon DEF Free!SquashLastLesser
  <2>2. list_ = last /\ list_ # 0
    BY <1>1, <1>3, <1>8, Zenon
  <2>. HIDE DEF unlinked
  <2>3. Chain(S \ {last}, free_next[last], unlinked)
    BY <1>1, <1>7, <2>2, ChainWithoutFirst, Zenon
  <2>4. /\ FreeInv' /\ Free!InList' = S \ {last} /\ free_ret' = last
        /\ UNCHANGED <<order_, disable_squashing_, panicked>>
    BY <1>6, <1>7, <2>1, <2>3, ReturnIsSane, ZenonT(30)
  <2>. QED BY <1>1, <1>2, <1>3, <1>4, <1>5, <2>4, AbstractSquash, Zenon
<1>9. CASE prelast # 0
  <2>1. Free!Return(list_, closed, items - 1, last)
    BY <1>9, SameNotions, Zenon DEF Free!SquashLastLesser
  <2>2. prelast \in S /\ free_next[prelast] = last /\ last # 0
    BY <1>1, <1>3, <1>9, Zenon
  <2>3. prelast \in Frames
    BY <1>1, <2>2, Zenon
  <2>. HIDE DEF unlinked
  <2>4. /\ DOMAIN closed = Frames /\ closed[prelast] = free_next[last]
        /\ \A f \in S \ {prelast, last} : closed[f] = free_next[f]
    BY <1>1, <1>7, <2>3, Zenon
  <2>. HIDE DEF closed
  <2>5. Chain(S \ {last}, list_, closed)
    <3>1. free_next[prelast] # 0 /\ closed[prelast] = free_next[free_next[prelast]]
      BY <2>2, <2>4, Zenon
    <3>2. \A f \in S \ {prelast, free_next[prelast]} : closed[f] = free_next[f]
      BY <2>2, <2>4, Zenon
    <3>3. Chain(S \ {free_next[prelast]}, list_, closed)
      BY <1>1, <2>2, <3>1, <3>2, ChainWithoutNext, Zenon
    <3>. QED BY <2>2, <3>3, Zenon
  <2>6. /\ FreeInv' /\ Free!InList' = S \ {last} /\ free_ret' = last
        /\ UNCHANGED <<order_, disable_squashing_, panicked>>
    BY <1>6, <2>1, <2>4, <2>5, ReturnIsSane, Zenon
  <2>. QED BY <1>1, <1>2, <1>3, <1>4, <1>5, <2>6, AbstractSquash, Zenon
<1>. QED BY <1>8, <1>9, Zenon

\* put() of the first half of the item behind the last lesser one.
LEMMA SquashNextImplements ==
  ASSUME FreeInv, NEW frame \in Frames, Free!MayPut(frame),
         NEW last \in Free!InList, NEW prelast, Free!FindLastLesser(frame, last, prelast),
         Free!SquashNext(frame, last)
  PROVE  FreeInv' /\ Free!Abstract!Next
<1>1. PICK S : /\ Chain(S, list_, free_next) /\ Free!InList = S
               /\ S \subseteq Frames /\ IsFiniteSet(S)
               /\ \A f \in S : f \in Nat /\ f # 0 /\ Aligned(f, order_)
               /\ items = Cardinality(S) /\ Cardinality(S) \in Nat
               /\ order_ \in Orders /\ DOMAIN free_next = Frames
               /\ panicked = FALSE
  BY FreeState, Zenon
<1>2. frame \in Nat /\ frame # 0 /\ frame \notin S /\ Aligned(frame, order_)
  BY <1>1, LinkedListsAssumption, SameNotions, Zenon DEF Free!MayPut
<1>3. /\ last \in S /\ last < frame
      /\ free_next[last] = 0 \/ frame < free_next[last]
  BY <1>1, <1>2, LastLesser, Zenon
<1>. DEFINE x == free_next[last]
            links == [free_next EXCEPT ![frame] = 0, ![last] = free_next[x]]
<1>4. /\ ~disable_squashing_ /\ are_consequent(frame, x, order_)
      /\ is_the_first_in_buddy(frame, order_)
      /\ Free!Return(list_, links, items - 1, frame)
  BY SameNotions, Zenon DEF Free!SquashNext
<1>5. x # 0
  BY <1>1, <1>2, <1>4, PowersOfTwo DEF are_consequent
<1>6. /\ DOMAIN links = Frames /\ links[last] = free_next[x]
      /\ \A f \in S \ {last, x} : links[f] = free_next[f]
  BY <1>1, <1>2, <1>3, Zenon
<1>. HIDE DEF links
<1>7. x \in S /\ Chain(S \ {x}, list_, links)
  BY <1>1, <1>3, <1>5, <1>6, ChainWithoutNext, Zenon
<1>8. items - 1 = Cardinality(S \ {x}) /\ \A f \in S \ {x} : Aligned(f, order_)
  BY <1>1, <1>7, FS_RemoveElement, Zenon
<1>. HIDE DEF x
<1>9. /\ FreeInv' /\ Free!InList' = S \ {x} /\ free_ret' = frame
      /\ UNCHANGED <<order_, disable_squashing_, panicked>>
  BY <1>4, <1>6, <1>7, <1>8, ReturnIsSane, Zenon
<1>10. x = Buddy(frame, order_)
  BY <1>1, <1>2, <1>4, <1>7, BuddyIs, Zenon
<1>. QED BY <1>1, <1>2, <1>4, <1>7, <1>9, <1>10, AbstractSquash, Zenon

\* put() of a frame that becomes an item behind the last lesser one.
LEMMA PutBehindImplements ==
  ASSUME FreeInv, NEW frame \in Frames, Free!MayPut(frame),
         NEW last \in Free!InList, NEW prelast, Free!FindLastLesser(frame, last, prelast),
         Free!PutBehind(frame, last)
  PROVE  FreeInv' /\ Free!Abstract!Next
<1>1. PICK S : /\ Chain(S, list_, free_next) /\ Free!InList = S
               /\ S \subseteq Frames /\ IsFiniteSet(S)
               /\ \A f \in S : f \in Nat /\ f # 0 /\ Aligned(f, order_)
               /\ items = Cardinality(S) /\ Cardinality(S) \in Nat
               /\ order_ \in Orders /\ DOMAIN free_next = Frames
               /\ panicked = FALSE
  BY FreeState, Zenon
<1>2. frame \in Nat /\ frame # 0 /\ frame \notin S /\ Aligned(frame, order_)
  BY <1>1, LinkedListsAssumption, SameNotions, Zenon DEF Free!MayPut
<1>3. /\ last \in S /\ last < frame
      /\ free_next[last] = 0 \/ frame < free_next[last]
  BY <1>1, <1>2, LastLesser, Zenon
<1>. DEFINE x == free_next[last]
            links == [free_next EXCEPT ![frame] = x, ![last] = frame]
<1>4. /\ Free!Return(list_, links, items + 1, 0)
      /\ \/ disable_squashing_
         \/ /\ ~(/\ are_consequent(last, frame, order_)
                 /\ is_the_first_in_buddy(last, order_))
            /\ ~(/\ are_consequent(frame, x, order_)
                 /\ is_the_first_in_buddy(frame, order_))
  BY SameNotions, Zenon DEF Free!PutBehind
<1>5. /\ DOMAIN links = Frames /\ links[frame] = x /\ links[last] = frame
      /\ \A f \in S \ {last} : links[f] = free_next[f]
  BY <1>1, <1>2, <1>3, Zenon
<1>. HIDE DEF links
<1>6. Chain(S \cup {frame}, list_, links)
  BY <1>1, <1>2, <1>3, <1>5, ChainWithNewNext, Zenon
<1>7. items + 1 = Cardinality(S \cup {frame})
  BY <1>1, <1>2, FS_AddElement, Zenon
<1>8. \A f \in S \cup {frame} : Aligned(f, order_)
  BY <1>1, <1>2, Zenon
<1>9. /\ FreeInv' /\ Free!InList' = S \cup {frame} /\ free_ret' = 0
      /\ UNCHANGED <<order_, disable_squashing_, panicked>>
  BY <1>4, <1>5, <1>6, <1>7, <1>8, ReturnIsSane, Zenon
<1>10. ASSUME ~disable_squashing_, NEW g \in S, g = Buddy(frame, order_) PROVE FALSE
  <2>1. /\ Above(S, last, x) /\ g \in Nat /\ Aligned(g, order_)
        /\ last \in Nat /\ Aligned(last, order_) /\ (x = 0 \/ frame < x)
    BY <1>1, <1>3, Zenon DEF Chain
  <2>. HIDE DEF x
  <2>2. CASE are_consequent(frame, g, order_) /\ is_the_first_in_buddy(frame, order_)
    <3>1. 2^order_ \in Nat \ {0} /\ g = frame + 2^order_
      BY <1>1, <1>2, <2>1, <2>2, PowersOfTwo DEF are_consequent
    <3>2. x \in S /\ x <= g
      BY <1>2, <1>3, <2>1, <3>1 DEF Above
    <3>3. x \in Nat /\ Aligned(x, order_) /\ frame < x
      BY <1>1, <2>1, <3>2, Zenon
    <3>4. frame + 2^order_ <= x
      BY <1>1, <1>2, <3>3, Neighbours, Zenon
    <3>5. x = g
      BY <1>2, <2>1, <3>1, <3>2, <3>3, <3>4
    <3>. QED BY <1>4, <1>10, <2>2, <3>5, Zenon
  <2>3. CASE are_consequent(g, frame, order_) /\ is_the_first_in_buddy(g, order_)
    <3>1. 2^order_ \in Nat \ {0} /\ frame = g + 2^order_
      BY <1>1, <1>2, <2>1, <2>3, PowersOfTwo DEF are_consequent
    <3>2. g <= last
      <4>1. CASE x = 0 /\ \A h \in S : h <= last
        BY <4>1, Zenon
      <4>2. CASE x \in S /\ last < x /\ \A h \in S : h <= last \/ x <= h
        <5>1. x \in Nat /\ frame < x
          BY <1>1, <2>1, <4>2, Zenon
        <5>. QED BY <1>2, <2>1, <3>1, <4>2, <5>1, SMTT(30)
      <4>. QED BY <2>1, <4>1, <4>2, Zenon DEF Above
    <3>3. last + 2^order_ <= frame
      BY <1>1, <1>2, <1>3, <2>1, Neighbours, Zenon
    <3>4. g = last
      BY <1>2, <2>1, <3>1, <3>2, <3>3
    <3>. QED BY <1>4, <1>10, <2>3, <3>4, Zenon
  <2>. QED BY <1>1, <1>2, <1>10, <2>1, <2>2, <2>3, BuddyIs, Zenon
<1>. QED BY <1>1, <1>2, <1>9, <1>10, AbstractInsert, Zenon

\* The owner of memory that is not free writes to it.
LEMMA OverwriteImplements ==
  ASSUME FreeInv, NEW frame \in Frames, NEW word, Free!Overwrite(frame, word)
  PROVE  FreeInv' /\ UNCHANGED Free!Abstract!vars
<1>1. PICK S : /\ Chain(S, list_, free_next) /\ Free!InList = S
               /\ S \subseteq Frames /\ IsFiniteSet(S)
               /\ \A f \in S : f \in Nat /\ f # 0 /\ Aligned(f, order_)
               /\ items = Cardinality(S) /\ Cardinality(S) \in Nat
               /\ order_ \in Orders /\ DOMAIN free_next = Frames
               /\ panicked = FALSE
  BY FreeState, Zenon
<1>2. /\ frame \notin S /\ free_next' = [free_next EXCEPT ![frame] = word]
      /\ UNCHANGED <<order_, disable_squashing_, list_, items, free_ret, panicked>>
  BY <1>1, Zenon DEF Free!Overwrite
<1>3. DOMAIN free_next' = Frames /\ \A f \in S : free_next'[f] = free_next[f]
  BY <1>1, <1>2, Zenon
<1>4. Chain(S, list_', free_next')
  BY <1>1, <1>2, <1>3, Zenon DEF Chain
<1>5. Free!InList' = S
  BY <1>4, ChainIsSane, Zenon DEF Free!InList
<1>6. FreeInv'
  BY <1>1, <1>2, <1>3, <1>4, Zenon DEF FreeInv
<1>. QED BY <1>1, <1>2, <1>5, <1>6, Zenon DEF Free!Abstract!vars

\* The linked free list is, for any memory, any order and any use of the
\* memory by its owners, the set of blocks that BuddyAllocator takes it for:
\* get() returns the lowest block, put() merges a block with its buddy if and
\* only if that is free, wherever in the list it is, and sanity_check() never
\* panics (free_list.cpp:31-176).
THEOREM LinksImplementFreeList == Free!Spec => ImplementsFreeListSpec
<1>1. Free!Init => FreeInv /\ Free!Abstract!Init
  <2>. SUFFICES ASSUME Free!Init PROVE FreeInv /\ Free!Abstract!Init
    BY Zenon
  <2>1. /\ order_ \in Orders /\ disable_squashing_ = (order_ = MaxOrder)
        /\ list_ = 0 /\ free_next \in [Frames -> {0}] /\ items = 0
        /\ free_ret = 0 /\ panicked = FALSE
    BY Zenon DEF Free!Init, Free!Orders, Orders, Free!nullptr
  <2>2. Chain({}, list_, free_next)
    BY <2>1, Zenon DEF Chain, Above
  <2>3. Free!InList = {}
    BY <2>2, ChainIsSane, Zenon DEF Free!InList
  <2>4. Cardinality({}) = 0 /\ DOMAIN free_next = Frames
    BY <2>1, FS_EmptySet, Zenon
  <2>5. FreeInv
    BY <2>1, <2>2, <2>4, Zenon DEF FreeInv
  <2>6. Free!Abstract!Init
    BY <2>1, <2>3, SameNotions, Zenon
    DEF Free!Abstract!Init, Free!Abstract!Orders, Orders
  <2>. QED BY <2>5, <2>6, Zenon
<1>2. FreeInv /\ [Free!Next]_(Free!vars)
        => FreeInv' /\ [Free!Abstract!Next]_(Free!Abstract!vars)
  <2>. SUFFICES ASSUME FreeInv, [Free!Next]_(Free!vars)
                PROVE  FreeInv' /\ [Free!Abstract!Next]_(Free!Abstract!vars)
    BY Zenon
  <2>1. CASE Free!Get
    BY <2>1, GetImplements, Zenon
  <2>2. ASSUME NEW frame \in Frames, Free!Put(frame)
        PROVE  FreeInv' /\ Free!Abstract!Next
    <3>1. CASE Free!PutIntoEmpty(frame) \/ Free!PutAtHead(frame)
      BY <2>2, <3>1, PutFirstImplements, Zenon DEF Free!Put
    <3>2. CASE Free!SquashHead(frame)
      BY <2>2, <3>2, SquashHeadImplements, Zenon DEF Free!Put
    <3>3. CASE Free!PutAfterLesser(frame)
      <4>1. PICK last \in Free!InList, prelast \in Free!InList \cup {Free!nullptr} :
              /\ Free!FindLastLesser(frame, last, prelast)
              /\ \/ Free!SquashLastLesser(frame, last, prelast)
                 \/ Free!SquashNext(frame, last)
                 \/ Free!PutBehind(frame, last)
        BY <3>3, Zenon DEF Free!PutAfterLesser
      <4>2. Free!MayPut(frame)
        BY <2>2, Zenon DEF Free!Put
      <4>. QED
        BY Zenon, <4>1, <4>2, SquashLastLesserImplements, SquashNextImplements,
           PutBehindImplements, Zenon
    <3>. QED BY <2>2, <3>1, <3>2, <3>3, Zenon DEF Free!Put
  <2>3. ASSUME NEW frame \in Frames, NEW word \in Words, Free!Overwrite(frame, word)
        PROVE  FreeInv' /\ UNCHANGED Free!Abstract!vars
    BY <2>3, OverwriteImplements, Zenon
  <2>4. CASE UNCHANGED Free!vars
    <3>1. UNCHANGED <<order_, disable_squashing_, list_, free_next, items, free_ret, panicked>>
      BY <2>4, Zenon DEF Free!vars
    <3>2. FreeInv'
      BY <3>1, Zenon DEF FreeInv
    <3>3. UNCHANGED Free!Abstract!vars
      BY <3>1, ZenonT(30) DEF Free!Abstract!vars, Free!InList
    <3>. QED BY <3>2, <3>3, Zenon
  <2>. QED BY <2>1, <2>2, <2>3, <2>4, Zenon DEF Free!Next
<1>. QED
  BY <1>1, <1>2, PTL
  DEF Free!Spec, ImplementsFreeListSpec, Free!ImplementsFreeListSpec, Free!Abstract!Spec

-----------------------------------------------------------------------------
(* forward_list implements ForwardListSpec.                                *)

\* The links lead from the dummy node through n nodes, at[1] to at[n].
Path(at, n, links) ==
  /\ n \in Nat
  /\ at[0] = before_begin_ /\ at[n + 1] = no_node
  /\ \A i \in 1 .. n : at[i] \in Node
  /\ \A i, j \in 1 .. n : at[i] = at[j] => i = j
  /\ \A i \in 0 .. n : links[at[i]] = at[i + 1]

\* What operator++ does.
Hop(node, links) == IF node = no_node THEN no_node ELSE links[node]

\* w is the way of an iterator of n steps.
IsWay(w, n, start, links) ==
  w = [i \in 0 .. n |-> IF i = 0 THEN start ELSE Hop(w[i - 1], links)]

\* Along any links there is a way of any length.
LEMMA WayExists ==
  ASSUME NEW start, NEW links, NEW n \in Nat
  PROVE  \E w : IsWay(w, n, start, links)
<1>. DEFINE T == {m \in Nat : ~\E w : IsWay(w, m, start, links)}
<1>. SUFFICES ASSUME T # {} PROVE FALSE
  BY Zenon
<1>1. PICK m \in T : \A k \in T : m <= k
  BY LeastExists, Zenon
<1>2. m \in Nat /\ ~\E w : IsWay(w, m, start, links)
  BY Zenon
<1>3. CASE m = 0
  <2>. DEFINE w == [i \in 0 .. 0 |-> start]
  <2>1. \A i \in 0 .. 0 : w[i] = IF i = 0 THEN start ELSE Hop(w[i - 1], links)
    OBVIOUS
  <2>2. w = [i \in 0 .. 0 |-> IF i = 0 THEN start ELSE Hop(w[i - 1], links)]
    BY <2>1, Zenon
  <2>. HIDE DEF w
  <2>. QED BY <1>2, <1>3, <2>2, Zenon DEF IsWay
<1>4. CASE m # 0
  <2>1. m - 1 \in Nat /\ m - 1 \notin T
    BY <1>1, <1>2, <1>4
  <2>2. PICK w : IsWay(w, m - 1, start, links)
    BY <2>1, Zenon
  <2>. DEFINE v == [i \in 0 .. m |-> IF i = m THEN Hop(w[m - 1], links) ELSE w[i]]
  <2>3. ASSUME NEW i \in 0 .. m
        PROVE  v[i] = IF i = 0 THEN start ELSE Hop(v[i - 1], links)
    <3>1. CASE i = m
      <4>1. m - 1 \in 0 .. m /\ m - 1 # m /\ i # 0
        BY <1>2, <1>4, <3>1
      <4>2. v[m - 1] = w[m - 1] /\ v[i] = Hop(w[m - 1], links)
        BY <3>1, <4>1, Zenon
      <4>. QED BY <3>1, <4>1, <4>2, Zenon
    <3>2. CASE i # m
      <4>1. i \in 0 .. (m - 1) /\ v[i] = w[i]
        BY <1>2, <3>2
      <4>2. w[i] = IF i = 0 THEN start ELSE Hop(w[i - 1], links)
        BY <2>2, <4>1, Zenon DEF IsWay
      <4>3. i # 0 => i - 1 \in 0 .. m /\ i - 1 # m
        BY <1>2, <4>1
      <4>4. i # 0 => v[i - 1] = w[i - 1]
        BY <4>3, Zenon
      <4>. QED BY <4>1, <4>2, <4>4, Zenon
    <3>. QED BY <3>1, <3>2, Zenon
  <2>4. v = [i \in 0 .. m |-> v[i]]
    BY Zenon
  <2>. HIDE DEF v
  <2>5. IsWay(v, m, start, links)
    BY <2>3, <2>4, Zenon DEF IsWay
  <2>. QED BY <1>2, <2>5, Zenon
<1>. QED BY <1>3, <1>4, Zenon

\* No place of a path but the last is no_node.
LEMMA PathIsThere ==
  ASSUME NEW at, NEW n, NEW links, Path(at, n, links), NEW i \in 0 .. n
  PROVE  /\ at[i] \in Node \cup {before_begin_}
         /\ at[i] # no_node
         /\ i # 0 => at[i] \in Node /\ at[i] # before_begin_
<1>1. CASE i = 0
  BY <1>1, LinkedListsAssumption, Zenon DEF Path
<1>2. CASE i # 0
  <2>1. i \in 1 .. n
    BY <1>2 DEF Path
  <2>. QED BY <2>1, LinkedListsAssumption, Zenon DEF Path
<1>. QED BY <1>1, <1>2, Zenon

\* operator++ and next() go along the path.
LEMMA AdvanceOnPath ==
  ASSUME NEW at, NEW n, NEW links, Path(at, n, links),
         NEW k \in 0 .. (n + 1), NEW m \in Nat, k + m <= n + 1
  PROVE  Forward!advance(links, at[k], m) = at[k + m]
<1>1. PICK w : /\ IsWay(w, m, at[k], links)
               /\ Forward!advance(links, at[k], m) = w[m]
  <2>1. Forward!advance(links, at[k], m) =
          (CHOOSE w : IsWay(w, m, at[k], links))[m]
    BY Zenon DEF Forward!advance, IsWay, Hop
  <2>2. \E w : IsWay(w, m, at[k], links)
    BY WayExists, Zenon
  <2>. QED BY <2>1, <2>2, Zenon
<1>2. \A i \in 0 .. m : w[i] = IF i = 0 THEN at[k] ELSE Hop(w[i - 1], links)
  BY <1>1, Zenon DEF IsWay
<1>3. n \in Nat
  BY Zenon DEF Path
<1>. DEFINE T == {i \in 0 .. m : w[i] # at[k + i]}
<1>4. T = {}
  <2>. SUFFICES ASSUME T # {} PROVE FALSE
    BY Zenon
  <2>1. T \in SUBSET Nat
    OBVIOUS
  <2>2. PICK i \in T : \A j \in T : i <= j
    BY <2>1, LeastExists, Zenon
  <2>3. i \in 0 .. m /\ w[i] # at[k + i]
    BY Zenon
  <2>4. CASE i = 0
    <3>1. k + 0 = k
      BY <1>3
    <3>. QED BY <1>2, <2>3, <2>4, <3>1, Zenon
  <2>5. CASE i # 0
    <3>1. /\ i - 1 \in 0 .. m /\ ~(i <= i - 1)
          /\ k + (i - 1) \in 0 .. n /\ k + (i - 1) + 1 = k + i
      BY <1>3, <2>3, <2>5
    <3>2. w[i - 1] = at[k + (i - 1)]
      BY <2>2, <3>1, Zenon
    <3>3. at[k + (i - 1)] # no_node
      BY <3>1, PathIsThere, Zenon
    <3>4. links[at[k + (i - 1)]] = at[k + i]
      BY <3>1, Zenon DEF Path
    <3>. QED BY <1>2, <2>3, <2>5, <3>2, <3>3, <3>4, Zenon DEF Hop
  <2>. QED BY <2>4, <2>5, Zenon
<1>5. m \in 0 .. m
  OBVIOUS
<1>. QED BY <1>1, <1>4, <1>5, Zenon

\* A path fits into any set that holds its nodes.
LEMMA PathFits ==
  ASSUME NEW at, NEW n, NEW links, Path(at, n, links),
         NEW S, IsFiniteSet(S), \A i \in 1 .. n : at[i] \in S
  PROVE  n <= Cardinality(S)
<1>1. n \in Nat /\ \A i, j \in 1 .. n : at[i] = at[j] => i = j
  BY Zenon DEF Path
<1>2. IsFiniteSet(1 .. n) /\ Cardinality(1 .. n) = n
  BY <1>1, FS_Interval
<1>3. Cardinality(S) \in Nat
  BY FS_CardinalityType, Zenon
<1>. DEFINE f == [i \in 1 .. n |-> at[i]]
<1>4. f \in [1 .. n -> S]
  BY Zenon
<1>5. ASSUME Cardinality(S) < Cardinality(1 .. n) PROVE FALSE
  <2>1. PICK i, j \in 1 .. n : i # j /\ f[i] = f[j]
    <3>. HIDE DEF f
    <3>. QED BY <1>2, <1>4, <1>5, FS_PigeonHole, Zenon
  <2>. QED BY <1>1, <2>1, Zenon
<1>. QED BY <1>1, <1>2, <1>3, <1>5

\* The values of the nodes of a path.
ListOf(at, n, values) == [i \in 1 .. n |-> values[at[i]]]

\* An iteration from begin() to end() meets them.
LEMMA ReachedIsPath ==
  ASSUME NEW at, NEW n, NEW links, Path(at, n, links), NEW values
  PROVE  Forward!Reached(links, values) = ListOf(at, n, values)
<1>. DEFINE It(m) == Forward!advance(links, links[before_begin_], m)
            Length(m) == It(m) = no_node /\ \A l \in 0 .. (m - 1) : It(l) # no_node
<1>1. n \in Nat /\ at[n + 1] = no_node /\ at[0] = before_begin_
  BY Zenon DEF Path
<1>2. links[before_begin_] = at[1]
  <2>1. 0 \in 0 .. n /\ 0 + 1 = 1
    BY <1>1
  <2>. QED BY <1>1, <2>1, Zenon DEF Path
<1>3. ASSUME NEW m \in 0 .. n PROVE It(m) = at[m + 1]
  <2>1. 1 \in 0 .. (n + 1) /\ m \in Nat /\ 1 + m <= n + 1 /\ 1 + m = m + 1
    BY <1>1
  <2>2. Forward!advance(links, at[1], m) = at[1 + m]
    BY <2>1, AdvanceOnPath
  <2>. QED BY <1>2, <2>1, <2>2, Zenon
<1>4. ASSUME NEW m \in 0 .. n, m # n PROVE It(m) # no_node
  <2>1. m + 1 \in 0 .. n
    BY <1>1, <1>4
  <2>. QED BY <1>3, <2>1, PathIsThere, Zenon
<1>. HIDE DEF It
<1>5. Cardinality(Node) \in Nat /\ Forward!Cardinality(Node) = Cardinality(Node)
  BY LinkedListsAssumption, FS_CardinalityType, Zenon DEF Forward!Cardinality, Cardinality
<1>6. n \in 0 .. Cardinality(Node) /\ Length(n)
  <2>1. \A i \in 1 .. n : at[i] \in Node
    BY Zenon DEF Path
  <2>2. n <= Cardinality(Node)
    BY <2>1, LinkedListsAssumption, PathFits, Zenon
  <2>3. n \in 0 .. n /\ \A l \in 0 .. (n - 1) : l \in 0 .. n /\ l # n
    BY <1>1
  <2>4. Length(n)
    BY <1>1, <1>3, <1>4, <2>3, Zenon
  <2>. QED BY <1>1, <1>5, <2>2, <2>4
<1>7. ASSUME NEW m \in 0 .. Cardinality(Node), Length(m) PROVE m = n
  <2>1. ASSUME m < n PROVE FALSE
    <3>1. m \in 0 .. n /\ m # n
      BY <1>1, <1>5, <2>1
    <3>. QED BY <1>4, <1>7, <3>1, Zenon
  <2>2. ASSUME n < m PROVE FALSE
    <3>1. n \in 0 .. (m - 1)
      BY <1>1, <1>5, <2>2
    <3>. QED BY <1>6, <1>7, <3>1, Zenon
  <2>. QED BY <1>1, <1>5, <2>1, <2>2
<1>8. (CHOOSE m \in 0 .. Forward!Cardinality(Node) : Length(m)) = n
  <2>. HIDE DEF Length
  <2>. QED BY <1>5, <1>6, <1>7, Zenon
<1>9. Forward!Reached(links, values) =
        [i \in 1 .. (CHOOSE m \in 0 .. Forward!Cardinality(Node) : Length(m)) |->
           values[It(i - 1)]]
  BY Zenon DEF Forward!Reached, It
<1>10. \A i \in 1 .. n : It(i - 1) = at[i]
  <2>1. ASSUME NEW i \in 1 .. n PROVE i - 1 \in 0 .. n /\ (i - 1) + 1 = i
    BY <1>1
  <2>. QED BY <1>3, <2>1, Zenon
<1>. QED BY <1>8, <1>9, <1>10, Zenon DEF ListOf

\* A store into no node of the path does not change it.
LEMMA PathStays ==
  ASSUME NEW at, NEW n, NEW links, Path(at, n, links), NEW stored,
         \A i \in 0 .. n : stored[at[i]] = links[at[i]]
  PROVE  Path(at, n, stored)
BY Zenon DEF Path

\* The places of a path behind k move for a node, or move up.
Inserted(at, n, k, node) ==
  [i \in 0 .. (n + 2) |->
     IF i <= k THEN at[i] ELSE IF i = k + 1 THEN node ELSE at[i - 1]]

Dropped(at, n, k) == [i \in 0 .. n |-> IF i <= k THEN at[i] ELSE at[i + 1]]

\* The two stores of an insertion into the path.
LEMMA PathWithNode ==
  ASSUME NEW at, NEW n, NEW links, Path(at, n, links), NEW k \in 0 .. n,
         NEW node \in Node, \A i \in 1 .. n : at[i] # node, NEW stored,
         stored[at[k]] = node, stored[node] = at[k + 1],
         \A i \in 0 .. n : i # k => stored[at[i]] = links[at[i]]
  PROVE  Path(Inserted(at, n, k, node), n + 1, stored)
<1>. DEFINE p == Inserted(at, n, k, node)
<1>1. /\ n \in Nat /\ n + 1 \in Nat /\ at[0] = before_begin_ /\ at[n + 1] = no_node
      /\ \A i \in 1 .. n : at[i] \in Node
      /\ \A i, j \in 1 .. n : at[i] = at[j] => i = j
      /\ \A i \in 0 .. n : links[at[i]] = at[i + 1]
  BY DEF Path
<1>2. \A i \in 0 .. (n + 2) :
        /\ i <= k => p[i] = at[i]
        /\ i = k + 1 => p[i] = node
        /\ k + 1 < i => p[i] = at[i - 1]
  BY <1>1 DEF Inserted
<1>. HIDE DEF p
<1>3. p[0] = before_begin_ /\ p[(n + 1) + 1] = no_node
  <2>1. /\ 0 \in 0 .. (n + 2) /\ 0 <= k
        /\ n + 2 \in 0 .. (n + 2) /\ k + 1 < n + 2
        /\ (n + 1) + 1 = n + 2 /\ (n + 2) - 1 = n + 1
    BY <1>1
  <2>2. p[0] = at[0]
    BY <1>2, <2>1, Zenon
  <2>3. p[n + 2] = at[(n + 2) - 1]
    BY <1>2, <2>1, Zenon
  <2>. QED BY <1>1, <2>1, <2>2, <2>3, Zenon
<1>4. \A i \in 1 .. (n + 1) :
        \/ i <= k /\ i \in 1 .. n /\ p[i] = at[i]
        \/ i = k + 1 /\ p[i] = node
        \/ k + 1 < i /\ i - 1 \in 1 .. n /\ p[i] = at[i - 1]
  BY <1>1, <1>2
<1>5. \A i \in 1 .. (n + 1) : p[i] \in Node
  BY <1>1, <1>4, Zenon
<1>6. ASSUME NEW i \in 1 .. (n + 1), NEW j \in 1 .. (n + 1), p[i] = p[j]
      PROVE  i = j
  BY <1>1, <1>4, <1>6
<1>7. ASSUME NEW i \in 0 .. (n + 1) PROVE stored[p[i]] = p[i + 1]
  <2>1. CASE i < k
    <3>1. p[i] = at[i] /\ p[i + 1] = at[i + 1] /\ i \in 0 .. n /\ i # k
      BY <1>1, <1>2, <2>1
    <3>. QED BY <1>1, <3>1, Zenon
  <2>2. CASE i = k
    <3>1. p[i] = at[k] /\ p[i + 1] = node
      BY <1>1, <1>2, <2>2
    <3>. QED BY <3>1, Zenon
  <2>3. CASE i = k + 1
    <3>1. p[i] = node /\ p[i + 1] = at[k + 1]
      BY <1>1, <1>2, <2>3
    <3>. QED BY <3>1, Zenon
  <2>4. CASE k + 1 < i
    <3>1. /\ p[i] = at[i - 1] /\ p[i + 1] = at[i] /\ i - 1 \in 0 .. n /\ i - 1 # k
          /\ (i - 1) + 1 = i
      BY <1>1, <1>2, <2>4
    <3>2. stored[at[i - 1]] = links[at[i - 1]]
      BY <3>1, Zenon
    <3>3. links[at[i - 1]] = at[(i - 1) + 1]
      BY <1>1, <3>1, Zenon
    <3>. QED BY <3>1, <3>2, <3>3, Zenon
  <2>. QED BY <1>1, <2>1, <2>2, <2>3, <2>4
<1>. QED BY <1>1, <1>3, <1>5, <1>6, <1>7, Zenon DEF Path, p

\* The store of a removal from the path.
LEMMA PathWithoutNode ==
  ASSUME NEW at, NEW n, NEW links, Path(at, n, links),
         NEW k \in 0 .. n, k # n, NEW stored,
         stored[at[k]] = links[at[k + 1]],
         \A i \in 0 .. n : i # k => stored[at[i]] = links[at[i]]
  PROVE  Path(Dropped(at, n, k), n - 1, stored)
<1>. DEFINE p == Dropped(at, n, k)
<1>1. /\ n \in Nat /\ n - 1 \in Nat /\ at[0] = before_begin_ /\ at[n + 1] = no_node
      /\ \A i \in 1 .. n : at[i] \in Node
      /\ \A i, j \in 1 .. n : at[i] = at[j] => i = j
      /\ \A i \in 0 .. n : links[at[i]] = at[i + 1]
  BY DEF Path
<1>2. \A i \in 0 .. n : /\ i <= k => p[i] = at[i]
                        /\ k < i => p[i] = at[i + 1]
  BY <1>1 DEF Dropped
<1>. HIDE DEF p
<1>3. p[0] = before_begin_ /\ p[(n - 1) + 1] = no_node
  <2>1. 0 \in 0 .. n /\ 0 <= k /\ n \in 0 .. n /\ k < n /\ (n - 1) + 1 = n
    BY <1>1
  <2>. QED BY <1>1, <1>2, <2>1, Zenon
<1>4. \A i \in 1 .. (n - 1) :
        \/ i <= k /\ i \in 1 .. n /\ p[i] = at[i]
        \/ k < i /\ i + 1 \in 1 .. n /\ p[i] = at[i + 1]
  BY <1>1, <1>2
<1>5. \A i \in 1 .. (n - 1) : p[i] \in Node
  BY <1>1, <1>4, Zenon
<1>6. ASSUME NEW i \in 1 .. (n - 1), NEW j \in 1 .. (n - 1), p[i] = p[j]
      PROVE  i = j
  BY <1>1, <1>4, <1>6
<1>7. ASSUME NEW i \in 0 .. (n - 1) PROVE stored[p[i]] = p[i + 1]
  <2>1. CASE i < k
    <3>1. p[i] = at[i] /\ p[i + 1] = at[i + 1] /\ i \in 0 .. n /\ i # k
      BY <1>1, <1>2, <2>1
    <3>. QED BY <1>1, <3>1, Zenon
  <2>2. CASE i = k
    <3>1. p[i] = at[k] /\ p[i + 1] = at[(k + 1) + 1] /\ k + 1 \in 0 .. n
      BY <1>1, <1>2, <2>2
    <3>. QED BY <1>1, <3>1, Zenon
  <2>3. CASE k < i
    <3>1. /\ p[i] = at[i + 1] /\ p[i + 1] = at[(i + 1) + 1]
          /\ i + 1 \in 0 .. n /\ i + 1 # k
      BY <1>1, <1>2, <2>3
    <3>. QED BY <1>1, <3>1, Zenon
  <2>. QED BY <1>1, <2>1, <2>2, <2>3
<1>. QED BY <1>1, <1>3, <1>5, <1>6, <1>7, Zenon DEF Path, p

\* What \o makes, by its elements.
LEMMA Concatenation ==
  ASSUME NEW S, NEW b \in Seq(S), NEW c \in Seq(S)
  PROVE  /\ b \o c \in Seq(S) /\ Len(b \o c) = Len(b) + Len(c)
         /\ \A i \in 1 .. (Len(b) + Len(c)) :
              (b \o c)[i] = IF i <= Len(b) THEN b[i] ELSE c[i - Len(b)]
OBVIOUS

\* A sequence by its elements: one is added behind the k-th.
LEMMA SeqWithElement ==
  ASSUME NEW S, NEW s \in Seq(S), NEW k \in 0 .. Len(s), NEW v \in S,
         NEW t \in Seq(S), Len(t) = Len(s) + 1,
         \A i \in 1 .. Len(t) :
           t[i] = IF i <= k THEN s[i] ELSE IF i = k + 1 THEN v ELSE s[i - 1]
  PROVE  t = SubSeq(s, 1, k) \o <<v>> \o SubSeq(s, k + 1, Len(s))
<1>. DEFINE a == SubSeq(s, 1, k)
            b == a \o <<v>>
            c == SubSeq(s, k + 1, Len(s))
<1>. k \in Nat /\ Len(s) \in Nat /\ Len(t) \in Nat
  OBVIOUS
<1>1. a \in Seq(S) /\ Len(a) = k /\ \A i \in 1 .. k : a[i] = s[i]
  OBVIOUS
<1>2. /\ c \in Seq(S) /\ Len(c) = Len(s) - k
      /\ \A i \in 1 .. Len(c) : c[i] = s[k + i]
  OBVIOUS
<1>. HIDE DEF a, c
<1>3. /\ b \in Seq(S) /\ Len(b) = k + 1 /\ b[k + 1] = v
      /\ \A i \in 1 .. k : b[i] = s[i]
  BY <1>1
<1>. HIDE DEF b
<1>4. /\ b \o c \in Seq(S) /\ Len(b \o c) = Len(t)
      /\ \A i \in 1 .. (k + 1) : (b \o c)[i] = b[i]
      /\ \A i \in (k + 2) .. Len(t) : (b \o c)[i] = c[i - (k + 1)]
  <2>1. /\ b \o c \in Seq(S) /\ Len(b \o c) = Len(b) + Len(c)
        /\ \A i \in 1 .. (Len(b) + Len(c)) :
             (b \o c)[i] = IF i <= Len(b) THEN b[i] ELSE c[i - Len(b)]
    BY <1>2, <1>3, Concatenation, ZenonT(30)
  <2>2. Len(b) + Len(c) = Len(t)
    BY <1>2, <1>3
  <2>3. ASSUME NEW i \in 1 .. (k + 1) PROVE i \in 1 .. Len(t) /\ i <= k + 1
    OBVIOUS
  <2>4. ASSUME NEW i \in (k + 2) .. Len(t) PROVE i \in 1 .. Len(t) /\ ~(i <= k + 1)
    OBVIOUS
  <2>. QED BY <1>3, <2>1, <2>2, <2>3, <2>4, Zenon
<1>5. ASSUME NEW i \in 1 .. Len(t) PROVE (b \o c)[i] = t[i]
  <2>1. CASE i <= k
    <3>1. i \in 1 .. k /\ i \in 1 .. (k + 1)
      BY <2>1
    <3>. QED BY <1>3, <1>4, <2>1, <3>1, Zenon
  <2>2. CASE i = k + 1
    BY <1>3, <1>4, <2>2
  <2>3. CASE k + 1 < i
    <3>1. /\ i \in (k + 2) .. Len(t) /\ i - (k + 1) \in 1 .. Len(c)
          /\ k + (i - (k + 1)) = i - 1 /\ ~(i <= k) /\ i # k + 1
      BY <1>2, <2>3
    <3>2. (b \o c)[i] = c[i - (k + 1)] /\ c[i - (k + 1)] = s[k + (i - (k + 1))]
      BY <1>2, <1>4, <3>1, Zenon
    <3>3. t[i] = s[i - 1]
      BY <3>1, Zenon
    <3>. QED BY <3>1, <3>2, <3>3, Zenon
  <2>4. i <= k \/ i = k + 1 \/ k + 1 < i
    OBVIOUS
  <2>. QED BY <2>1, <2>2, <2>3, <2>4, Zenon
<1>6. b \o c = t
  BY <1>4, <1>5
<1>. QED BY <1>6, Zenon DEF a, b, c

\* A sequence by its elements: the one behind the k-th is left out.
LEMMA SeqWithoutElement ==
  ASSUME NEW S, NEW s \in Seq(S), NEW k \in 0 .. (Len(s) - 1),
         NEW t \in Seq(S), Len(t) = Len(s) - 1,
         \A i \in 1 .. Len(t) : t[i] = IF i <= k THEN s[i] ELSE s[i + 1]
  PROVE  t = SubSeq(s, 1, (k + 1) - 1) \o SubSeq(s, (k + 1) + 1, Len(s))
<1>. DEFINE a == SubSeq(s, 1, (k + 1) - 1)
            c == SubSeq(s, (k + 1) + 1, Len(s))
<1>. k \in Nat /\ Len(s) \in Nat /\ Len(t) \in Nat
  OBVIOUS
<1>1. a \in Seq(S) /\ Len(a) = k /\ \A i \in 1 .. k : a[i] = s[i]
  OBVIOUS
<1>2. /\ c \in Seq(S) /\ Len(c) = Len(s) - (k + 1)
      /\ \A i \in 1 .. Len(c) : c[i] = s[k + 1 + i]
  OBVIOUS
<1>. HIDE DEF a, c
<1>3. /\ a \o c \in Seq(S) /\ Len(a \o c) = Len(t)
      /\ \A i \in 1 .. k : (a \o c)[i] = a[i]
      /\ \A i \in (k + 1) .. Len(t) : (a \o c)[i] = c[i - k]
  <2>1. /\ a \o c \in Seq(S) /\ Len(a \o c) = Len(a) + Len(c)
        /\ \A i \in 1 .. (Len(a) + Len(c)) :
             (a \o c)[i] = IF i <= Len(a) THEN a[i] ELSE c[i - Len(a)]
    BY <1>1, <1>2, Concatenation, ZenonT(30)
  <2>2. Len(a) + Len(c) = Len(t)
    BY <1>1, <1>2
  <2>3. ASSUME NEW i \in 1 .. k PROVE i \in 1 .. Len(t) /\ i <= k
    OBVIOUS
  <2>4. ASSUME NEW i \in (k + 1) .. Len(t) PROVE i \in 1 .. Len(t) /\ ~(i <= k)
    OBVIOUS
  <2>. QED BY <1>1, <2>1, <2>2, <2>3, <2>4, Zenon
<1>4. ASSUME NEW i \in 1 .. Len(t) PROVE (a \o c)[i] = t[i]
  <2>1. CASE i <= k
    <3>1. i \in 1 .. k
      BY <2>1
    <3>. QED BY <1>1, <1>3, <2>1, <3>1, Zenon
  <2>2. CASE k < i
    <3>1. /\ i \in (k + 1) .. Len(t) /\ i - k \in 1 .. Len(c)
          /\ k + 1 + (i - k) = i + 1 /\ ~(i <= k)
      BY <1>2, <2>2
    <3>2. (a \o c)[i] = c[i - k] /\ c[i - k] = s[k + 1 + (i - k)]
      BY <1>2, <1>3, <3>1, Zenon
    <3>3. t[i] = s[i + 1]
      BY <3>1, Zenon
    <3>. QED BY <3>1, <3>2, <3>3, Zenon
  <2>3. i <= k \/ k < i
    OBVIOUS
  <2>. QED BY <2>1, <2>2, <2>3, Zenon
<1>5. a \o c = t
  <2>. DEFINE u == a \o c
  <2>1. u \in Seq(S) /\ Len(u) = Len(t) /\ \A i \in 1 .. Len(t) : u[i] = t[i]
    BY <1>3, <1>4, Zenon
  <2>. HIDE DEF u
  <2>2. u = t
    BY <2>1
  <2>. QED BY <2>2, Zenon DEF u
<1>. QED BY <1>5, Zenon DEF a, c

\* The values along a path are a sequence.
LEMMA ListIsSequence ==
  ASSUME NEW at, NEW n \in Nat, NEW values, \A i \in 1 .. n : values[at[i]] \in Element
  PROVE  /\ ListOf(at, n, values) \in Seq(Element)
         /\ Len(ListOf(at, n, values)) = n
         /\ \A i \in 1 .. n : ListOf(at, n, values)[i] = values[at[i]]
BY DEF ListOf

Nodes(at, n) == {at[i] : i \in 1 .. n}

CallType ==
  [op : {"none", "link", "publish", "clear", "remove"},
   it : Node \cup {before_begin_, no_node}, node : Node \cup {no_node},
   erase : SUBSET Element]

\* The new node of push_after() is not yet in the list.
Adding(at, n) ==
  /\ call.node \in Node \ Nodes(at, n)
  /\ live = Nodes(at, n) \cup {call.node}
  /\ value_[call.node] \in Element
  /\ \E k \in 0 .. n : call.it = at[k]
  /\ call.op = "publish" => fwd_next[call.node] = fwd_next[call.it]

\* What remove() has looked at stays.
Removing(at, n) ==
  /\ \E v \in Element : call.erase = {v}
  /\ \E k \in 0 .. n : /\ call.it = at[k]
                       /\ \A j \in 1 .. k : value_[at[j]] \notin call.erase

\* The nodes of the list are in use, each is linked once, and the call in
\* progress is at one of them.
ForwardAt(at, n) ==
  /\ Path(at, n, fwd_next)
  /\ DOMAIN fwd_next = Node \cup {before_begin_} /\ DOMAIN value_ = Node
  /\ \A i \in 1 .. n : value_[at[i]] \in Element
  /\ call \in CallType
  /\ IF call.op \in {"link", "publish"} THEN Adding(at, n) ELSE live = Nodes(at, n)
  /\ call.op \in {"none", "link", "publish"} => call.erase = {}
  /\ call.op = "clear" => call.erase = Element
  /\ call.op = "remove" => Removing(at, n)

ForwardInv == \E at, n : ForwardAt(at, n)

\* The list before and after a step.
LEMMA ListIsElements ==
  /\ \A at, n : Path(at, n, fwd_next) => Forward!Elements = ListOf(at, n, value_)
  /\ \A at, n : Path(at, n, fwd_next') => Forward!Elements' = ListOf(at, n, value_')
BY ReachedIsPath, Zenon DEF Forward!Elements

\* No node is twice on a path.
LEMMA PathIsInjective ==
  ASSUME NEW at, NEW n, NEW links, Path(at, n, links),
         NEW i \in 0 .. n, NEW j \in 0 .. n, at[i] = at[j]
  PROVE  i = j
<1>1. ASSUME NEW l \in 0 .. n, l # 0 PROVE at[l] # before_begin_
  BY <1>1, PathIsThere
<1>2. (i # 0 => i \in 1 .. n) /\ (j # 0 => j \in 1 .. n)
  BY DEF Path
<1>. QED BY <1>1, <1>2, Zenon DEF Path

\* erase_after() of the base class, in erase_after(), clear() and remove().
LEMMA EraseErases ==
  ASSUME NEW at, NEW n, ForwardAt(at, n), live = Nodes(at, n),
         NEW k \in 0 .. n, fwd_next[at[k]] # no_node,
         Forward!Erase(at[k]), value_' = value_
  PROVE  \E p :
           /\ k # n /\ n \in Nat /\ n - 1 \in Nat
           /\ Path(p, n - 1, fwd_next')
           /\ DOMAIN fwd_next' = Node \cup {before_begin_} /\ DOMAIN value_' = Node
           /\ \A i \in 1 .. (n - 1) : value_'[p[i]] \in Element
           /\ live' = Nodes(p, n - 1)
           /\ \A i \in 0 .. k : p[i] = at[i]
           /\ Forward!Elements = ListOf(at, n, value_)
           /\ Forward!Elements' = Forward!Abstract!Without(k + 1)
<1>. DEFINE p == Dropped(at, n, k)
<1>1. /\ n \in Nat /\ Path(at, n, fwd_next) /\ at[n + 1] = no_node
      /\ \A i \in 1 .. n : at[i] \in Node
      /\ \A i \in 0 .. n : fwd_next[at[i]] = at[i + 1]
      /\ DOMAIN fwd_next = Node \cup {before_begin_} /\ DOMAIN value_ = Node
      /\ \A i \in 1 .. n : value_[at[i]] \in Element
  BY Zenon DEF ForwardAt, Path
<1>2. k # n /\ n - 1 \in Nat
  <2>1. k # n
    BY <1>1, Zenon
  <2>. QED BY <1>1, <2>1
<1>3. /\ fwd_next' = [fwd_next EXCEPT ![at[k]] = fwd_next[at[k + 1]]]
      /\ live' = live \ {at[k + 1]}
  BY <1>1, Zenon DEF Forward!Erase
<1>4. /\ DOMAIN fwd_next' = Node \cup {before_begin_}
      /\ fwd_next'[at[k]] = fwd_next[at[k + 1]]
      /\ \A i \in 0 .. n : i # k => fwd_next'[at[i]] = fwd_next[at[i]]
  <2>1. \A i \in 0 .. n : at[i] \in DOMAIN fwd_next
    BY <1>1, PathIsThere, Zenon
  <2>2. \A i \in 0 .. n : i # k => at[i] # at[k]
    BY <1>1, PathIsInjective, Zenon
  <2>. QED BY <1>1, <1>3, <2>1, <2>2, Zenon
<1>5. Path(p, n - 1, fwd_next')
  BY <1>1, <1>2, <1>4, PathWithoutNode, Zenon
<1>6. \A i \in 0 .. n : /\ i <= k => p[i] = at[i]
                        /\ k < i => p[i] = at[i + 1]
  BY <1>1 DEF Dropped
<1>. HIDE DEF p
<1>7. \A i \in 1 .. (n - 1) :
        \/ i <= k /\ i \in 1 .. n /\ p[i] = at[i]
        \/ k < i /\ i + 1 \in 1 .. n /\ p[i] = at[i + 1]
  BY <1>1, <1>6
<1>8. \A i \in 1 .. (n - 1) : value_'[p[i]] \in Element
  BY <1>1, <1>7, Zenon
<1>9. live' = Nodes(p, n - 1)
  <2>1. ASSUME NEW i \in 1 .. (n - 1) PROVE p[i] \in Nodes(at, n) \ {at[k + 1]}
    <3>1. k + 1 \in 1 .. n
      BY <1>1, <1>2
    <3>2. CASE i <= k /\ i \in 1 .. n /\ p[i] = at[i]
      <4>1. i # k + 1
        BY <1>1, <3>2
      <4>. QED BY <1>1, <3>1, <3>2, <4>1, Zenon DEF Nodes, Path
    <3>3. CASE k < i /\ i + 1 \in 1 .. n /\ p[i] = at[i + 1]
      <4>1. i + 1 # k + 1
        BY <1>1, <3>3
      <4>. QED BY <1>1, <3>1, <3>3, <4>1, Zenon DEF Nodes, Path
    <3>. QED BY <1>7, <3>2, <3>3, Zenon
  <2>2. ASSUME NEW i \in 1 .. n, at[i] # at[k + 1]
        PROVE  \E j \in 1 .. (n - 1) : p[j] = at[i]
    <3>1. i # k + 1
      BY <2>2, Zenon
    <3>2. CASE i <= k
      <4>1. i \in 1 .. (n - 1) /\ i \in 0 .. n
        BY <1>1, <1>2, <3>2
      <4>. QED BY <1>6, <3>2, <4>1, Zenon
    <3>3. CASE k + 1 < i
      <4>1. i - 1 \in 1 .. (n - 1) /\ i - 1 \in 0 .. n /\ k < i - 1 /\ (i - 1) + 1 = i
        BY <1>1, <3>3
      <4>. QED BY <1>6, <4>1, Zenon
    <3>4. i <= k \/ k + 1 < i
      BY <1>1, <3>1
    <3>. QED BY <3>2, <3>3, <3>4, Zenon
  <2>3. \A x : x \in Nodes(p, n - 1) <=> \E i \in 1 .. (n - 1) : x = p[i]
    BY Zenon DEF Nodes
  <2>4. \A x : x \in Nodes(at, n) <=> \E i \in 1 .. n : x = at[i]
    BY Zenon DEF Nodes
  <2>5. ASSUME NEW x \in live' PROVE x \in Nodes(p, n - 1)
    <3>1. x \in Nodes(at, n) /\ x # at[k + 1]
      BY <1>3, <2>5, Zenon
    <3>2. PICK i \in 1 .. n : x = at[i]
      BY <2>4, <3>1, Zenon
    <3>. QED BY <2>2, <2>3, <3>1, <3>2, Zenon
  <2>6. ASSUME NEW x \in Nodes(p, n - 1) PROVE x \in live'
    <3>1. PICK i \in 1 .. (n - 1) : x = p[i]
      BY <2>3, <2>6, Zenon
    <3>. QED BY <1>3, <2>1, <3>1, Zenon
  <2>. QED BY <2>5, <2>6, Zenon
<1>10. \A i \in 0 .. k : p[i] = at[i]
  BY <1>1, <1>6
<1>11. Forward!Elements' = Forward!Abstract!Without(k + 1)
  <2>. DEFINE s == ListOf(at, n, value_)
              t == ListOf(p, n - 1, value_)
  <2>1. Forward!Elements = s /\ Forward!Elements' = t
    BY <1>1, <1>5, ListIsElements, Zenon
  <2>2. s \in Seq(Element) /\ Len(s) = n /\ \A i \in 1 .. n : s[i] = value_[at[i]]
    BY <1>1, ListIsSequence
  <2>3. /\ t \in Seq(Element) /\ Len(t) = n - 1
        /\ \A i \in 1 .. (n - 1) : t[i] = value_[p[i]]
    BY <1>2, <1>8, ListIsSequence
  <2>. HIDE DEF s, t
  <2>4. ASSUME NEW i \in 1 .. (n - 1) PROVE t[i] = IF i <= k THEN s[i] ELSE s[i + 1]
    <3>1. CASE i <= k /\ i \in 1 .. n /\ p[i] = at[i]
      BY <2>2, <2>3, <3>1, Zenon
    <3>2. CASE k < i /\ i + 1 \in 1 .. n /\ p[i] = at[i + 1]
      <4>1. ~(i <= k)
        BY <1>1, <3>2
      <4>2. t[i] = value_[p[i]]
        BY <2>3, Zenon
      <4>3. s[i + 1] = value_[at[i + 1]]
        BY <2>2, <3>2, Zenon
      <4>. QED BY <3>2, <4>1, <4>2, <4>3, Zenon
    <3>. QED BY <1>7, <3>1, <3>2, Zenon
  <2>5. k \in 0 .. (Len(s) - 1) /\ Len(t) = Len(s) - 1
    BY <1>1, <1>2, <2>2, <2>3
  <2>6. t = SubSeq(s, 1, (k + 1) - 1) \o SubSeq(s, (k + 1) + 1, Len(s))
    BY <2>2, <2>3, <2>4, <2>5, SeqWithoutElement, SMTT(30)
  <2>. QED BY <2>1, <2>6, Zenon DEF Forward!Abstract!Without
<1>12. Forward!Elements = ListOf(at, n, value_)
  BY <1>1, ListIsElements, Zenon
<1>. QED
  BY <1>1, <1>2, <1>4, <1>5, <1>8, <1>9, <1>10, <1>11, <1>12, ZenonT(30)

\* A step that the abstract list does not see.
LEMMA ForwardStutters ==
  ASSUME Forward!Elements' = Forward!Elements, call'.erase = call.erase,
         call'.op = "remove" <=> call.op = "remove", removed' = removed
  PROVE  UNCHANGED Forward!Abstract!vars
BY Zenon DEF Forward!Abstract!vars

\* A store into a node that is not in the list.
LEMMA StoreOutside ==
  ASSUME NEW at, NEW n, ForwardAt(at, n), NEW node \in Node \ Nodes(at, n), NEW x,
         fwd_next' = [fwd_next EXCEPT ![node] = x]
  PROVE  /\ Path(at, n, fwd_next') /\ DOMAIN fwd_next' = Node \cup {before_begin_}
         /\ fwd_next'[node] = x
         /\ \A i \in 0 .. n : fwd_next'[at[i]] = fwd_next[at[i]]
<1>1. Path(at, n, fwd_next) /\ DOMAIN fwd_next = Node \cup {before_begin_} /\ n \in Nat
  BY Zenon DEF ForwardAt, Path
<1>2. ASSUME NEW i \in 0 .. n PROVE at[i] # node /\ at[i] \in DOMAIN fwd_next
  <2>1. CASE i = 0
    BY <1>1, <2>1, LinkedListsAssumption, Zenon DEF Path
  <2>2. CASE i # 0
    <3>1. i \in 1 .. n
      BY <1>1, <2>2
    <3>2. at[i] \in Nodes(at, n) /\ at[i] \in Node
      BY <1>1, <3>1, Zenon DEF Nodes, Path
    <3>. QED BY <1>1, <3>2, Zenon
  <2>. QED BY <2>1, <2>2, Zenon
<1>3. \A i \in 0 .. n : fwd_next'[at[i]] = fwd_next[at[i]]
  BY <1>2, Zenon
<1>4. DOMAIN fwd_next' = Node \cup {before_begin_} /\ fwd_next'[node] = x
  BY <1>1, Zenon
<1>5. Path(at, n, fwd_next')
  BY <1>1, <1>3, PathStays, Zenon
<1>. QED BY <1>3, <1>4, <1>5, Zenon

\* The positions that a caller can have an iterator of.
LEMMA PositionOnPath ==
  ASSUME NEW at, NEW n, ForwardAt(at, n), live = Nodes(at, n),
         NEW position \in Forward!Positions
  PROVE  \E k \in 0 .. n : position = at[k]
<1>1. n \in Nat /\ at[0] = before_begin_
  BY Zenon DEF ForwardAt, Path
<1>2. 0 \in 0 .. n /\ \A i \in 1 .. n : i \in 0 .. n
  BY <1>1
<1>. QED BY <1>1, <1>2, Zenon DEF Forward!Positions, Nodes

\* push_after() gets its node: nothing changes for those who go through.
LEMMA PushImplements ==
  ASSUME ForwardInv, NEW after \in Forward!Positions, NEW node \in Node,
         NEW value \in Element, Forward!push_after(after, node, value)
  PROVE  ForwardInv' /\ UNCHANGED Forward!Abstract!vars
<1>1. PICK at, n : ForwardAt(at, n)
  BY Zenon DEF ForwardInv
<1>2. /\ call = Forward!Idle /\ node \notin live /\ live' = live \cup {node}
      /\ fwd_next' = [fwd_next EXCEPT ![node] = no_node]
      /\ value_' = [value_ EXCEPT ![node] = value]
      /\ call' = [Forward!Idle EXCEPT !.op = "link", !.it = after, !.node = node]
      /\ removed' = removed
  BY Zenon DEF Forward!push_after
<1>3. /\ call.op = "none" /\ call.erase = {}
      /\ call'.op = "link" /\ call'.it = after /\ call'.node = node /\ call'.erase = {}
      /\ call' = [op |-> "link", it |-> after, node |-> node, erase |-> {}]
  BY <1>2, Zenon DEF Forward!Idle
<1>4. live = Nodes(at, n)
  BY <1>1, <1>3, Zenon DEF ForwardAt
<1>5. PICK k \in 0 .. n : after = at[k]
  BY <1>1, <1>4, PositionOnPath, Zenon
<1>6. Path(at, n, fwd_next') /\ DOMAIN fwd_next' = Node \cup {before_begin_}
  <2>1. node \in Node \ Nodes(at, n)
    BY <1>2, <1>4, Zenon
  <2>. QED BY <1>1, <1>2, <2>1, StoreOutside, Zenon
<1>7. /\ DOMAIN value_' = Node /\ value_'[node] = value
      /\ \A i \in 1 .. n : value_'[at[i]] = value_[at[i]]
      /\ \A i \in 1 .. n : value_'[at[i]] \in Element
  <2>1. DOMAIN value_ = Node /\ \A i \in 1 .. n : value_[at[i]] \in Element /\ at[i] \in Node
    BY <1>1, Zenon DEF ForwardAt, Path
  <2>2. \A i \in 1 .. n : at[i] # node
    BY <1>2, <1>4, Zenon DEF Nodes
  <2>. QED BY <1>2, <2>1, <2>2, Zenon
<1>8. Adding(at, n)'
  BY <1>2, <1>3, <1>4, <1>5, <1>7, Zenon DEF Adding, Nodes
<1>9. call' \in CallType
  <2>1. after \in Node \cup {before_begin_}
    BY <1>1, <1>5, PathIsThere, Zenon DEF ForwardAt
  <2>. QED BY <1>3, <2>1, Zenon DEF CallType
<1>10. ForwardAt(at, n)'
  BY <1>3, <1>6, <1>7, <1>8, <1>9, Zenon DEF ForwardAt
<1>11. Forward!Elements' = Forward!Elements
  <2>1. Path(at, n, fwd_next)
    BY <1>1, Zenon DEF ForwardAt
  <2>2. ListOf(at, n, value_') = ListOf(at, n, value_)
    BY <1>7, Zenon DEF ListOf
  <2>3. Forward!Elements = ListOf(at, n, value_) /\ Forward!Elements' = ListOf(at, n, value_')
    BY <1>6, <2>1, ListIsElements, Zenon
  <2>. QED BY <2>2, <2>3, Zenon
<1>12. call'.op = "remove" <=> call.op = "remove"
  BY <1>3, Zenon
<1>. QED BY <1>2, <1>3, <1>10, <1>11, <1>12, ForwardStutters, ZenonT(30) DEF ForwardInv

\* node->next = after->next: still nothing changes for them.
LEMMA LinkImplements ==
  ASSUME ForwardInv, Forward!link_node
  PROVE  ForwardInv' /\ UNCHANGED Forward!Abstract!vars
<1>1. PICK at, n : ForwardAt(at, n)
  BY Zenon DEF ForwardInv
<1>2. /\ call.op = "link"
      /\ fwd_next' = [fwd_next EXCEPT ![call.node] = fwd_next[call.it]]
      /\ call' = [call EXCEPT !.op = "publish"]
      /\ UNCHANGED <<value_, live, removed>>
  BY Zenon DEF Forward!link_node
<1>3. /\ call \in CallType /\ call.erase = {} /\ Adding(at, n)
      /\ Path(at, n, fwd_next) /\ DOMAIN value_ = Node
      /\ \A i \in 1 .. n : value_[at[i]] \in Element
  BY <1>1, <1>2, Zenon DEF ForwardAt
<1>4. /\ call'.op = "publish" /\ call'.it = call.it /\ call'.node = call.node
      /\ call'.erase = {} /\ call' \in CallType
  BY <1>2, <1>3, Zenon DEF CallType
<1>5. PICK k \in 0 .. n : call.it = at[k]
  BY <1>3, Zenon DEF Adding
<1>6. /\ Path(at, n, fwd_next') /\ DOMAIN fwd_next' = Node \cup {before_begin_}
      /\ fwd_next'[call.node] = fwd_next[call.it]
      /\ \A i \in 0 .. n : fwd_next'[at[i]] = fwd_next[at[i]]
  <2>1. call.node \in Node \ Nodes(at, n)
    BY <1>3, Zenon DEF Adding
  <2>. QED BY <1>1, <1>2, <2>1, StoreOutside, ZenonT(30)
<1>7. Adding(at, n)'
  BY <1>2, <1>3, <1>4, <1>5, <1>6, ZenonT(30) DEF Adding, Nodes
<1>8. ForwardAt(at, n)'
  BY <1>2, <1>3, <1>4, <1>6, <1>7, Zenon DEF ForwardAt
<1>9. Forward!Elements' = Forward!Elements
  <2>1. Forward!Elements = ListOf(at, n, value_) /\ Forward!Elements' = ListOf(at, n, value_')
    BY <1>3, <1>6, ListIsElements, Zenon
  <2>. QED BY <1>2, <2>1, Zenon
<1>10. call'.op = "remove" <=> call.op = "remove"
  BY <1>2, <1>4, Zenon
<1>. QED BY <1>2, <1>3, <1>4, <1>8, <1>9, <1>10, ForwardStutters, ZenonT(30) DEF ForwardInv

\* after->next = node: they meet the new element, in its place.
LEMMA PublishImplements ==
  ASSUME ForwardInv, Forward!publish_node
  PROVE  ForwardInv' /\ Forward!Abstract!Next
<1>1. PICK at, n : ForwardAt(at, n)
  BY Zenon DEF ForwardInv
<1>2. /\ call.op = "publish"
      /\ fwd_next' = [fwd_next EXCEPT ![call.it] = call.node]
      /\ call' = Forward!Idle
      /\ UNCHANGED <<value_, live, removed>>
  BY Zenon DEF Forward!publish_node
<1>3. /\ call.erase = {} /\ Adding(at, n) /\ Path(at, n, fwd_next)
      /\ DOMAIN fwd_next = Node \cup {before_begin_} /\ DOMAIN value_ = Node
      /\ \A i \in 1 .. n : value_[at[i]] \in Element
  BY <1>1, <1>2, Zenon DEF ForwardAt
<1>4. /\ n \in Nat /\ n + 1 \in Nat
      /\ \A i \in 1 .. n : at[i] \in Node
      /\ \A i \in 0 .. n : fwd_next[at[i]] = at[i + 1]
  BY <1>3 DEF Path
<1>5. PICK k \in 0 .. n : call.it = at[k]
  BY <1>3, Zenon DEF Adding
<1>5a. PICK node, v, p :
        node = call.node /\ v = value_[node] /\ p = Inserted(at, n, k, node)
  BY Zenon
<1>6. /\ node \in Node /\ v \in Element /\ live = Nodes(at, n) \cup {node}
      /\ fwd_next[node] = at[k + 1]
      /\ \A i \in 1 .. n : at[i] # node
  BY <1>5a, <1>2, <1>3, <1>4, <1>5, Zenon DEF Adding, Nodes
<1>7. /\ DOMAIN fwd_next' = Node \cup {before_begin_}
      /\ fwd_next'[at[k]] = node /\ fwd_next'[node] = at[k + 1]
      /\ \A i \in 0 .. n : i # k => fwd_next'[at[i]] = fwd_next[at[i]]
  <2>1. \A i \in 0 .. n : at[i] \in DOMAIN fwd_next
    BY <1>3, PathIsThere, Zenon
  <2>2. \A i \in 0 .. n : i # k => at[i] # at[k]
    BY <1>3, PathIsInjective, Zenon
  <2>3. at[k] # node
    <3>1. CASE k = 0
      BY <1>3, <1>6, <3>1, LinkedListsAssumption, Zenon DEF Path
    <3>2. CASE k # 0
      <4>1. k \in 1 .. n
        BY <1>4, <3>2
      <4>. QED BY <1>6, <4>1, Zenon
    <3>. QED BY <3>1, <3>2, Zenon
  <2>4. fwd_next' = [fwd_next EXCEPT ![at[k]] = node]
    BY <1>5a, <1>2, <1>5, Zenon
  <2>. QED BY <1>3, <1>6, <2>1, <2>2, <2>3, <2>4, Zenon
<1>8. Path(p, n + 1, fwd_next')
  BY <1>5a, <1>3, <1>6, <1>7, PathWithNode, Zenon
<1>9. \A i \in 1 .. (n + 1) :
        \/ i <= k /\ i \in 1 .. n /\ p[i] = at[i]
        \/ i = k + 1 /\ p[i] = node
        \/ k + 1 < i /\ i - 1 \in 1 .. n /\ p[i] = at[i - 1]
  BY <1>5a, <1>4 DEF Inserted
<1>10. \A i \in 1 .. (n + 1) : value_[p[i]] \in Element
  BY <1>5a, <1>3, <1>6, <1>9, Zenon
<1>11. live' = Nodes(p, n + 1)
  <2>1. ASSUME NEW x \in Nodes(p, n + 1) PROVE x \in Nodes(at, n) \cup {node}
    <3>1. PICK i \in 1 .. (n + 1) : x = p[i]
      BY <2>1, Zenon DEF Nodes
    <3>. QED BY <1>9, <3>1, Zenon DEF Nodes
  <2>2. node \in Nodes(p, n + 1)
    <3>1. k + 1 \in 1 .. (n + 1) /\ ~(k + 1 <= k) /\ ~(k + 1 < k + 1)
      BY <1>4
    <3>. QED BY <1>9, <3>1, Zenon DEF Nodes
  <2>3. ASSUME NEW i \in 1 .. n PROVE at[i] \in Nodes(p, n + 1)
    <3>1. CASE i <= k
      <4>1. i \in 1 .. (n + 1) /\ i # k + 1 /\ ~(k + 1 < i)
        BY <1>4, <3>1
      <4>2. p[i] = at[i]
        BY <1>9, <4>1, Zenon
      <4>. QED BY <4>1, <4>2, Zenon DEF Nodes
    <3>2. CASE k < i
      <4>1. /\ i + 1 \in 1 .. (n + 1) /\ ~(i + 1 <= k) /\ i + 1 # k + 1
            /\ at[(i + 1) - 1] = at[i]
        BY <1>4, <3>2
      <4>2. p[i + 1] = at[(i + 1) - 1]
        BY <1>9, <4>1, Zenon
      <4>. QED BY <4>1, <4>2, Zenon DEF Nodes
    <3>3. i <= k \/ k < i
      BY <1>4
    <3>. QED BY <3>1, <3>2, <3>3, Zenon
  <2>4. \A x \in Nodes(at, n) : x \in Nodes(p, n + 1)
    <3>1. \A x \in Nodes(at, n) : \E i \in 1 .. n : x = at[i]
      BY Zenon DEF Nodes
    <3>. QED BY <2>3, <3>1, Zenon
  <2>. QED BY <1>2, <1>6, <2>1, <2>2, <2>4, ZenonT(30)
<1>12. /\ call'.op = "none" /\ call'.erase = {} /\ call' \in CallType
       /\ call.op # "remove"
  BY <1>2, Zenon DEF Forward!Idle, CallType
<1>13. ForwardAt(p, n + 1)'
  BY <1>2, <1>3, <1>7, <1>8, <1>10, <1>11, <1>12, ZenonT(30) DEF ForwardAt
<1>. DEFINE s == ListOf(at, n, value_)
            t == ListOf(p, n + 1, value_)
<1>14. Forward!Elements = s /\ Forward!Elements' = t
  BY <1>2, <1>3, <1>8, ListIsElements, Zenon
<1>15. s \in Seq(Element) /\ Len(s) = n /\ \A i \in 1 .. n : s[i] = value_[at[i]]
  BY <1>3, <1>4, ListIsSequence
<1>16. /\ t \in Seq(Element) /\ Len(t) = n + 1
       /\ \A i \in 1 .. (n + 1) : t[i] = value_[p[i]]
  BY <1>4, <1>10, ListIsSequence
<1>. HIDE DEF s, t
<1>17. t = SubSeq(s, 1, k) \o <<v>> \o SubSeq(s, k + 1, Len(s))
  <2>1. ASSUME NEW i \in 1 .. (n + 1)
        PROVE  t[i] = IF i <= k THEN s[i] ELSE IF i = k + 1 THEN v ELSE s[i - 1]
    <3>1. CASE i <= k /\ i \in 1 .. n /\ p[i] = at[i]
      BY <1>15, <1>16, <3>1, Zenon
    <3>2. CASE i = k + 1 /\ p[i] = node
      <4>1. ~(i <= k)
        BY <1>4, <3>2
      <4>. QED BY <1>5a, <1>16, <3>2, <4>1, Zenon
    <3>3. CASE k + 1 < i /\ i - 1 \in 1 .. n /\ p[i] = at[i - 1]
      <4>1. ~(i <= k) /\ i # k + 1
        BY <1>4, <3>3
      <4>2. s[i - 1] = value_[at[i - 1]] /\ t[i] = value_[at[i - 1]]
        BY <1>15, <1>16, <3>3, Zenon
      <4>. QED BY <4>1, <4>2, Zenon
    <3>. QED BY <1>9, <3>1, <3>2, <3>3, Zenon
  <2>2. k \in 0 .. Len(s) /\ Len(t) = Len(s) + 1
    BY <1>15, <1>16, Zenon
  <2>3. \A i \in 1 .. Len(t) :
          t[i] = IF i <= k THEN s[i] ELSE IF i = k + 1 THEN v ELSE s[i - 1]
    BY <1>16, <2>1, Zenon
  <2>. QED BY <1>6, <1>15, <1>16, <2>2, <2>3, SeqWithElement, ZenonT(30)
<1>18. n < Forward!Cardinality(Node)
  <2>1. IsFiniteSet(Node \ {node}) /\ Cardinality(Node \ {node}) = Cardinality(Node) - 1
    BY <1>6, LinkedListsAssumption, FS_RemoveElement, Zenon
  <2>2. \A i \in 1 .. n : at[i] \in Node \ {node}
    BY <1>4, <1>6, Zenon
  <2>3. n <= Cardinality(Node \ {node})
    BY <1>3, <2>1, <2>2, PathFits, ZenonT(30)
  <2>4. Cardinality(Node) \in Nat /\ Forward!Cardinality(Node) = Cardinality(Node)
    BY LinkedListsAssumption, FS_CardinalityType, ZenonT(30) DEF Forward!Cardinality, Cardinality
  <2>. QED BY <1>4, <2>1, <2>3, <2>4
<1>19. Forward!Abstract!Push(k, v)
  <2>1. (call'.op = "remove") = (call.op = "remove")
    BY <1>2, <1>12, Zenon
  <2>. QED
    BY <1>2, <1>3, <1>12, <1>14, <1>15, <1>17, <1>18, <2>1, ZenonT(30)
    DEF Forward!Abstract!Push
<1>20. k \in 0 .. Len(Forward!Elements)
  BY <1>14, <1>15, Zenon
<1>. QED BY <1>6, <1>13, <1>19, <1>20, Zenon DEF ForwardInv, Forward!Abstract!Next

\* erase_after(): the element behind the position is gone.
LEMMA EraseAfterImplements ==
  ASSUME ForwardInv, NEW position \in Forward!Positions, Forward!erase_after(position)
  PROVE  ForwardInv' /\ Forward!Abstract!Next
<1>1. PICK at, n : ForwardAt(at, n)
  BY Zenon DEF ForwardInv
<1>2. /\ call = Forward!Idle /\ fwd_next[position] # no_node /\ Forward!Erase(position)
      /\ UNCHANGED <<value_, call, removed>>
  BY Zenon DEF Forward!erase_after
<1>3. call.op = "none" /\ call.erase = {}
  BY <1>2, Zenon DEF Forward!Idle
<1>4. live = Nodes(at, n) /\ call \in CallType
  BY <1>1, <1>3, Zenon DEF ForwardAt
<1>5. PICK k \in 0 .. n : position = at[k]
  BY <1>1, <1>4, PositionOnPath, Zenon
<1>6. PICK p :
        /\ k # n /\ n \in Nat /\ n - 1 \in Nat
        /\ Path(p, n - 1, fwd_next')
        /\ DOMAIN fwd_next' = Node \cup {before_begin_} /\ DOMAIN value_' = Node
        /\ \A i \in 1 .. (n - 1) : value_'[p[i]] \in Element
        /\ live' = Nodes(p, n - 1)
        /\ Forward!Elements = ListOf(at, n, value_)
        /\ Forward!Elements' = Forward!Abstract!Without(k + 1)
  <2>1. Forward!Erase(at[k]) /\ fwd_next[at[k]] # no_node /\ value_' = value_
    BY <1>2, <1>5, Zenon
  <2>. QED BY <1>1, <1>4, <2>1, EraseErases, Zenon
<1>7. ForwardAt(p, n - 1)'
  BY <1>2, <1>3, <1>4, <1>6, Zenon DEF ForwardAt
<1>8. Len(Forward!Elements) = n
  <2>1. \A i \in 1 .. n : value_[at[i]] \in Element
    BY <1>1, Zenon DEF ForwardAt
  <2>. QED BY <1>6, <2>1, ListIsSequence, Zenon
<1>9. k \in 0 .. Len(Forward!Elements) /\ k < Len(Forward!Elements)
  BY <1>6, <1>8
<1>10. Forward!Abstract!EraseAfter(k)
  BY <1>2, <1>3, <1>6, <1>9, Zenon DEF Forward!Abstract!EraseAfter
<1>. QED BY <1>7, <1>9, <1>10, Zenon DEF ForwardInv, Forward!Abstract!Next

\* clear() and remove() begin.
LEMMA BeginImplements ==
  ASSUME ForwardInv, Forward!clear_begins \/ \E value \in Element : Forward!remove(value)
  PROVE  ForwardInv' /\ Forward!Abstract!Next
<1>1. PICK at, n : ForwardAt(at, n)
  BY Zenon DEF ForwardInv
<1>2. call = Forward!Idle /\ UNCHANGED <<fwd_next, value_, live>>
  BY Zenon DEF Forward!clear_begins, Forward!remove
<1>3. call.op = "none" /\ call.erase = {}
  BY <1>2, Zenon DEF Forward!Idle
<1>4. /\ live = Nodes(at, n) /\ Path(at, n, fwd_next)
      /\ DOMAIN fwd_next = Node \cup {before_begin_} /\ DOMAIN value_ = Node
      /\ \A i \in 1 .. n : value_[at[i]] \in Element
  BY <1>1, <1>3, Zenon DEF ForwardAt
<1>5. Forward!Elements' = Forward!Elements
  BY <1>2, Zenon DEF Forward!Elements
<1>6. CASE Forward!clear_begins
  <2>1. /\ call' = [Forward!Idle EXCEPT !.op = "clear", !.erase = Element]
        /\ removed' = removed
    BY <1>6, Zenon DEF Forward!clear_begins
  <2>2. call'.op = "clear" /\ call'.erase = Element /\ call' \in CallType
    BY <2>1, Zenon DEF Forward!Idle, CallType
  <2>3. ForwardAt(at, n)'
    BY <1>2, <1>4, <2>2, Zenon DEF ForwardAt
  <2>4. (call'.op = "remove") = FALSE
    BY <2>2, Zenon
  <2>5. Forward!Abstract!Begin(Element, FALSE)
    BY <1>3, <1>5, <2>1, <2>2, <2>4, Zenon DEF Forward!Abstract!Begin
  <2>. QED BY <2>3, <2>5, Zenon DEF ForwardInv, Forward!Abstract!Next
<1>7. ASSUME NEW value \in Element, Forward!remove(value)
      PROVE  ForwardInv' /\ Forward!Abstract!Next
  <2>1. /\ call' = [Forward!Idle EXCEPT !.op = "remove", !.it = before_begin_,
                                        !.erase = {value}]
        /\ removed' = 0
    BY <1>7, Zenon DEF Forward!remove
  <2>2. /\ call'.op = "remove" /\ call'.it = before_begin_ /\ call'.erase = {value}
        /\ call' \in CallType
    BY <2>1, Zenon DEF Forward!Idle, CallType
  <2>3. 0 \in 0 .. n /\ 1 .. 0 = {} /\ at[0] = before_begin_
    BY <1>4 DEF Path
  <2>4. Removing(at, n)'
    BY <2>2, <2>3, Zenon DEF Removing
  <2>5. ForwardAt(at, n)'
    BY <1>2, <1>4, <2>2, <2>4, Zenon DEF ForwardAt
  <2>6. (call'.op = "remove") = TRUE
    BY <2>2, Zenon
  <2>7. Forward!Abstract!Begin({value}, TRUE)
    BY <1>3, <1>5, <2>1, <2>2, <2>6, Zenon DEF Forward!Abstract!Begin
  <2>. QED BY <2>5, <2>7, Zenon DEF ForwardInv, Forward!Abstract!Next
<1>. QED BY <1>6, <1>7, Zenon

\* clear() and remove() take the first element that is to go.
LEMMA EraseOneImplements ==
  ASSUME ForwardInv, Forward!clear_pops \/ Forward!remove_erases
  PROVE  ForwardInv' /\ Forward!Abstract!Next
<1>1. PICK at, n : ForwardAt(at, n)
  BY Zenon DEF ForwardInv
<1>2. call.op \in {"clear", "remove"} /\ UNCHANGED <<value_, call>>
  BY Zenon DEF Forward!clear_pops, Forward!remove_erases
<1>3. /\ live = Nodes(at, n) /\ Path(at, n, fwd_next) /\ call \in CallType
      /\ n \in Nat /\ at[0] = before_begin_
      /\ \A i \in 0 .. n : fwd_next[at[i]] = at[i + 1]
      /\ \A i \in 1 .. n : value_[at[i]] \in Element
  BY <1>1, <1>2, Zenon DEF ForwardAt, Path
<1>4. PICK k \in 0 .. n :
        /\ Forward!Erase(at[k]) /\ fwd_next[at[k]] # no_node
        /\ call.op = "clear" => k = 0
        /\ call.op = "remove" => call.it = at[k]
        /\ \A j \in 1 .. k : value_[at[j]] \notin call.erase
        /\ value_[at[k + 1]] \in call.erase
        /\ removed' = IF call.op = "remove" THEN removed + 1 ELSE removed
  <2>1. CASE Forward!clear_pops
    <3>1. /\ call.op = "clear" /\ fwd_next[before_begin_] # no_node
          /\ Forward!Erase(before_begin_) /\ removed' = removed
      BY <2>1, Zenon DEF Forward!clear_pops, Forward!empty, Forward!begin
    <3>2. 0 \in 0 .. n /\ 1 .. 0 = {} /\ 0 + 1 = 1
      BY <1>3
    <3>3. 1 \in 1 .. n
      <4>1. n # 0
        BY <1>3, <3>1, <3>2, Zenon DEF Path
      <4>. QED BY <1>3, <4>1
    <3>4. call.erase = Element
      BY <1>1, <3>1, Zenon DEF ForwardAt
    <3>5. call.op # "remove"
      BY <3>1, Zenon
    <3>. QED BY <1>3, <3>1, <3>2, <3>3, <3>4, <3>5, ZenonT(30)
  <2>2. CASE Forward!remove_erases
    <3>. DEFINE next_it == Forward!advance(fwd_next, call.it, 1)
    <3>1. /\ call.op = "remove" /\ next_it # no_node /\ value_[next_it] \in call.erase
          /\ Forward!Erase(call.it) /\ removed' = removed + 1
      BY <2>2, Zenon DEF Forward!remove_erases
    <3>. HIDE DEF next_it
    <3>2. PICK k \in 0 .. n : /\ call.it = at[k]
                              /\ \A j \in 1 .. k : value_[at[j]] \notin call.erase
      BY <1>1, <3>1, Zenon DEF ForwardAt, Removing
    <3>3. k \in 0 .. (n + 1) /\ 1 \in Nat /\ k + 1 <= n + 1
      BY <1>3
    <3>4. next_it = at[k + 1]
      <4>1. Forward!advance(fwd_next, at[k], 1) = at[k + 1]
        BY <1>3, <3>3, AdvanceOnPath
      <4>. QED BY <3>2, <4>1, Zenon DEF next_it
    <3>5. call.op # "clear"
      BY <3>1, Zenon
    <3>. QED BY <1>3, <3>1, <3>2, <3>4, <3>5, Zenon
  <2>. QED BY <2>1, <2>2, Zenon
<1>5. PICK p :
        /\ k # n /\ n \in Nat /\ n - 1 \in Nat
        /\ Path(p, n - 1, fwd_next')
        /\ DOMAIN fwd_next' = Node \cup {before_begin_} /\ DOMAIN value_' = Node
        /\ \A i \in 1 .. (n - 1) : value_'[p[i]] \in Element
        /\ live' = Nodes(p, n - 1)
        /\ \A i \in 0 .. k : p[i] = at[i]
        /\ Forward!Elements = ListOf(at, n, value_)
        /\ Forward!Elements' = Forward!Abstract!Without(k + 1)
  <2>1. value_' = value_
    BY <1>2, Zenon
  <2>2. Forward!Erase(at[k]) /\ fwd_next[at[k]] # no_node /\ live = Nodes(at, n)
    BY <1>3, <1>4, Zenon
  <2>. QED BY <1>1, <2>1, <2>2, EraseErases, Zenon
<1>6. call.op = "remove" => Removing(p, n - 1)'
  <2>. SUFFICES ASSUME call.op = "remove" PROVE Removing(p, n - 1)'
    BY Zenon
  <2>1. call' = call /\ value_' = value_
    BY <1>2, Zenon
  <2>2. \E v \in Element : call.erase = {v}
    BY <1>1, Zenon DEF ForwardAt, Removing
  <2>3. k \in 0 .. (n - 1) /\ k \in 0 .. k /\ \A j \in 1 .. k : j \in 0 .. k
    BY <1>3, <1>5
  <2>4. call.it = p[k] /\ \A j \in 1 .. k : value_[p[j]] \notin call.erase
    BY <1>4, <1>5, <2>3, Zenon
  <2>. QED BY <2>1, <2>2, <2>3, <2>4, Zenon DEF Removing
<1>7. ForwardAt(p, n - 1)'
  <2>1. call' = call /\ (call.op = "clear" => call.erase = Element)
    BY <1>1, <1>2, Zenon DEF ForwardAt
  <2>. QED BY <1>2, <1>3, <1>5, <1>6, <2>1, ZenonT(30) DEF ForwardAt
<1>8. Forward!Abstract!EraseOne
  <2>. DEFINE s == Forward!Elements
  <2>1. s \in Seq(Element) /\ Len(s) = n /\ \A i \in 1 .. n : s[i] = value_[at[i]]
    BY <1>3, <1>5, ListIsSequence
  <2>2. k + 1 \in 1 .. n /\ k + 1 \in DOMAIN s
    <3>1. k + 1 \in 1 .. n
      BY <1>3, <1>5
    <3>. QED BY <2>1, <3>1
  <2>3. \A j \in 1 .. ((k + 1) - 1) : j \in 1 .. k /\ j \in 1 .. n
    BY <1>3
  <2>4. s[k + 1] \in call.erase /\ \A j \in 1 .. ((k + 1) - 1) : s[j] \notin call.erase
    BY <1>4, <2>1, <2>2, <2>3, Zenon
  <2>5. call'.erase = call.erase /\ (call'.op = "remove") = (call.op = "remove")
    BY <1>2, Zenon
  <2>. QED BY <1>4, <1>5, <2>2, <2>4, <2>5, ZenonT(30) DEF Forward!Abstract!EraseOne
<1>. QED BY <1>7, <1>8, Zenon DEF ForwardInv, Forward!Abstract!Next

\* remove() leaves an element.
LEMMA StepsImplements ==
  ASSUME ForwardInv, Forward!remove_steps
  PROVE  ForwardInv' /\ UNCHANGED Forward!Abstract!vars
<1>1. PICK at, n : ForwardAt(at, n)
  BY Zenon DEF ForwardInv
<1>. DEFINE next_it == Forward!advance(fwd_next, call.it, 1)
<1>2. /\ call.op = "remove" /\ next_it # no_node /\ value_[next_it] \notin call.erase
      /\ call' = [call EXCEPT !.it = next_it]
      /\ UNCHANGED <<fwd_next, value_, live, removed>>
  BY Zenon DEF Forward!remove_steps
<1>3. /\ live = Nodes(at, n) /\ Path(at, n, fwd_next) /\ call \in CallType
      /\ DOMAIN fwd_next = Node \cup {before_begin_} /\ DOMAIN value_ = Node
      /\ n \in Nat /\ at[n + 1] = no_node /\ Removing(at, n)
      /\ \A i \in 1 .. n : value_[at[i]] \in Element /\ at[i] \in Node
  BY <1>1, <1>2, Zenon DEF ForwardAt, Path
<1>4. PICK k \in 0 .. n : /\ call.it = at[k]
                          /\ \A j \in 1 .. k : value_[at[j]] \notin call.erase
  BY <1>3, Zenon DEF Removing
<1>5. k \in 0 .. (n + 1) /\ 1 \in Nat /\ k + 1 <= n + 1
  BY <1>3
<1>6. next_it = at[k + 1]
  <2>1. Forward!advance(fwd_next, at[k], 1) = at[k + 1]
    BY <1>3, <1>5, AdvanceOnPath
  <2>. QED BY <1>4, <2>1, Zenon
<1>. HIDE DEF next_it
<1>7. k # n
  BY <1>2, <1>3, <1>6, Zenon
<1>8. k + 1 \in 0 .. n /\ k + 1 \in 1 .. n
  BY <1>3, <1>7
<1>9. /\ call'.op = "remove" /\ call'.it = at[k + 1] /\ call'.erase = call.erase
      /\ call' \in CallType
  <2>1. at[k + 1] \in Node
    BY <1>3, <1>8, Zenon
  <2>. QED BY <1>2, <1>3, <1>6, <2>1, Zenon DEF CallType
<1>10. \A j \in 1 .. (k + 1) : j \in 1 .. k \/ j = k + 1
  BY <1>3
<1>11. Removing(at, n)'
  <2>1. \A j \in 1 .. (k + 1) : value_[at[j]] \notin call.erase
    BY <1>2, <1>4, <1>6, <1>10, Zenon
  <2>2. \E v \in Element : call.erase = {v}
    BY <1>3, Zenon DEF Removing
  <2>3. value_' = value_
    BY <1>2, Zenon
  <2>. QED BY <1>8, <1>9, <2>1, <2>2, <2>3, ZenonT(30) DEF Removing
<1>12. ForwardAt(at, n)'
  BY <1>2, <1>3, <1>9, <1>11, Zenon DEF ForwardAt
<1>13. Forward!Elements' = Forward!Elements
  BY <1>2, Zenon DEF Forward!Elements
<1>. QED BY <1>2, <1>9, <1>12, <1>13, ForwardStutters, ZenonT(30) DEF ForwardInv

\* clear() and remove() return: no element is left that was to go.
LEMMA EndImplements ==
  ASSUME ForwardInv, Forward!clear_returns \/ Forward!remove_returns
  PROVE  ForwardInv' /\ (Forward!Abstract!Next \/ UNCHANGED Forward!Abstract!vars)
<1>1. PICK at, n : ForwardAt(at, n)
  BY Zenon DEF ForwardInv
<1>2. /\ call.op \in {"clear", "remove"} /\ call' = Forward!Idle
      /\ UNCHANGED <<fwd_next, value_, live, removed>>
  BY Zenon DEF Forward!clear_returns, Forward!remove_returns
<1>3. /\ live = Nodes(at, n) /\ Path(at, n, fwd_next)
      /\ DOMAIN fwd_next = Node \cup {before_begin_} /\ DOMAIN value_ = Node
      /\ n \in Nat /\ at[0] = before_begin_
      /\ \A i \in 0 .. n : fwd_next[at[i]] = at[i + 1]
      /\ \A i \in 1 .. n : value_[at[i]] \in Element
  BY <1>1, <1>2, Zenon DEF ForwardAt, Path
<1>4. call'.op = "none" /\ call'.erase = {} /\ call' \in CallType
  BY <1>2, Zenon DEF Forward!Idle, CallType
<1>5. ForwardAt(at, n)'
  BY <1>2, <1>3, <1>4, Zenon DEF ForwardAt
<1>6. Forward!Elements' = Forward!Elements
  BY <1>2, Zenon DEF Forward!Elements
<1>7. \A i \in 1 .. n : value_[at[i]] \notin call.erase
  <2>1. CASE Forward!clear_returns
    <3>1. fwd_next[before_begin_] = no_node
      BY <2>1, Zenon DEF Forward!clear_returns, Forward!empty, Forward!begin
    <3>2. ASSUME n # 0 PROVE FALSE
      <4>1. 0 \in 0 .. n /\ 1 \in 0 .. n /\ 0 + 1 = 1
        BY <1>3, <3>2
      <4>2. at[1] # no_node
        BY <1>3, <4>1, PathIsThere, Zenon
      <4>. QED BY <1>3, <3>1, <4>1, <4>2, Zenon
    <3>. QED BY <3>2
  <2>2. CASE Forward!remove_returns
    <3>1. call.op = "remove" /\ Forward!advance(fwd_next, call.it, 1) = no_node
      BY <2>2, Zenon DEF Forward!remove_returns
    <3>2. PICK k \in 0 .. n : /\ call.it = at[k]
                              /\ \A j \in 1 .. k : value_[at[j]] \notin call.erase
      BY <1>1, <3>1, Zenon DEF ForwardAt, Removing
    <3>3. k \in 0 .. (n + 1) /\ 1 \in Nat /\ k + 1 <= n + 1
      BY <1>3
    <3>4. Forward!advance(fwd_next, at[k], 1) = at[k + 1]
      BY <1>3, <3>3, AdvanceOnPath
    <3>5. at[k + 1] = no_node
      BY <3>1, <3>2, <3>4, Zenon
    <3>6. ASSUME k # n PROVE FALSE
      <4>1. k + 1 \in 0 .. n
        BY <1>3, <3>6
      <4>. QED BY <1>3, <3>5, <4>1, PathIsThere, Zenon
    <3>. QED BY <3>2, <3>6, Zenon
  <2>. QED BY <2>1, <2>2, Zenon
<1>8. CASE call.erase = {}
  <2>1. call.op # "remove"
    BY <1>1, <1>8, Zenon DEF ForwardAt, Removing
  <2>2. call'.op = "remove" <=> call.op = "remove"
    BY <1>4, <2>1, Zenon
  <2>. QED BY <1>2, <1>4, <1>5, <1>6, <1>8, <2>2, ForwardStutters, Zenon DEF ForwardInv
<1>9. CASE call.erase # {}
  <2>. DEFINE s == Forward!Elements
  <2>1. s = ListOf(at, n, value_)
    BY <1>3, ListIsElements, Zenon
  <2>2. s \in Seq(Element) /\ Len(s) = n /\ \A i \in 1 .. n : s[i] = value_[at[i]]
    BY <1>3, <2>1, ListIsSequence, Zenon
  <2>3. DOMAIN s = 1 .. n
    BY <2>2
  <2>4. \A i \in DOMAIN s : s[i] \notin call.erase
    BY <1>7, <2>2, <2>3, Zenon
  <2>5. (call'.op = "remove") = FALSE
    BY <1>4, Zenon
  <2>6. Forward!Abstract!End
    BY <1>2, <1>4, <1>6, <1>9, <2>4, <2>5, Zenon DEF Forward!Abstract!End
  <2>. QED BY <1>5, <2>6, Zenon DEF ForwardInv, Forward!Abstract!Next
<1>. QED BY <1>8, <1>9, Zenon

\* forward_list is, for any nodes and any values, a sequence also for an
\* interrupt that goes through it between two stores: push_after() changes it
\* at the second store, and remove() and clear() take out exactly the elements
\* they are to, each one once (forward_list.hpp:88-103, 183-187 and 369-384).
THEOREM NodesImplementForwardList == Forward!Spec => ImplementsForwardListSpec
<1>1. Forward!Init => ForwardInv /\ Forward!Abstract!Init
  <2>. SUFFICES ASSUME Forward!Init PROVE ForwardInv /\ Forward!Abstract!Init
    BY Zenon
  <2>1. /\ fwd_next = [m \in Node \cup {before_begin_} |-> no_node]
        /\ DOMAIN value_ = Node /\ live = {} /\ call = Forward!Idle /\ removed = 0
    BY Zenon DEF Forward!Init
  <2>2. call.op = "none" /\ call.erase = {} /\ call \in CallType
    BY <2>1, Zenon DEF Forward!Idle, CallType
  <2>3. PICK at : at = [i \in 0 .. 1 |-> IF i = 0 THEN before_begin_ ELSE no_node]
    BY Zenon
  <2>4. at[0] = before_begin_ /\ at[0 + 1] = no_node
    BY <2>3
  <2>5. 0 .. 0 = {0} /\ 1 .. 0 = {} /\ 0 \in Nat
    OBVIOUS
  <2>6. Path(at, 0, fwd_next) /\ Nodes(at, 0) = {}
    BY <2>1, <2>4, <2>5, Zenon DEF Path, Nodes
  <2>7. ForwardAt(at, 0)
    BY <2>1, <2>2, <2>5, <2>6, Zenon DEF ForwardAt
  <2>8. Forward!Elements = <<>>
    <3>1. Forward!Elements = ListOf(at, 0, value_)
      BY <2>6, ListIsElements, Zenon
    <3>2. ListOf(at, 0, value_) \in Seq(Element) /\ Len(ListOf(at, 0, value_)) = 0
      BY <2>5, ListIsSequence, Zenon
    <3>. HIDE DEF ListOf
    <3>. QED BY <3>1, <3>2
  <2>9. (call.op = "remove") = FALSE
    BY <2>2, Zenon
  <2>. QED BY <2>1, <2>2, <2>7, <2>8, <2>9, Zenon DEF ForwardInv, Forward!Abstract!Init
<1>2. ForwardInv /\ [Forward!Next]_(Forward!vars)
        => ForwardInv' /\ [Forward!Abstract!Next]_(Forward!Abstract!vars)
  <2>. SUFFICES ASSUME ForwardInv, [Forward!Next]_(Forward!vars)
                PROVE  ForwardInv' /\ [Forward!Abstract!Next]_(Forward!Abstract!vars)
    BY Zenon
  <2>1. ASSUME NEW after \in Forward!Positions, NEW node \in Node, NEW value \in Element,
               Forward!push_after(after, node, value)
        PROVE  ForwardInv' /\ UNCHANGED Forward!Abstract!vars
    BY <2>1, PushImplements, Zenon
  <2>2. ASSUME NEW position \in Forward!Positions, Forward!erase_after(position)
        PROVE  ForwardInv' /\ Forward!Abstract!Next
    BY <2>2, EraseAfterImplements, Zenon
  <2>3. CASE Forward!link_node
    BY <2>3, LinkImplements, Zenon
  <2>4. CASE Forward!publish_node
    BY <2>4, PublishImplements, Zenon
  <2>5. CASE Forward!clear_begins \/ \E value \in Element : Forward!remove(value)
    BY <2>5, BeginImplements, Zenon
  <2>6. CASE Forward!clear_pops \/ Forward!remove_erases
    BY <2>6, EraseOneImplements, Zenon
  <2>7. CASE Forward!remove_steps
    BY <2>7, StepsImplements, Zenon
  <2>8. CASE Forward!clear_returns \/ Forward!remove_returns
    BY <2>8, EndImplements, Zenon
  <2>9. CASE UNCHANGED Forward!vars
    <3>1. UNCHANGED <<fwd_next, value_, live, call, removed>>
      BY <2>9, Zenon DEF Forward!vars
    <3>2. ForwardInv'
      BY <3>1, Zenon DEF ForwardInv, ForwardAt, Adding, Removing
    <3>3. UNCHANGED Forward!Abstract!vars
      BY <3>1, Zenon DEF Forward!Abstract!vars, Forward!Elements
    <3>. QED BY <3>2, <3>3, Zenon
  <2>. QED
    BY <2>1, <2>2, <2>3, <2>4, <2>5, <2>6, <2>7, <2>8, <2>9, ZenonT(30) DEF Forward!Next
<1>. QED
  BY <1>1, <1>2, PTL
  DEF Forward!Spec, ImplementsForwardListSpec, Forward!ImplementsForwardListSpec,
      Forward!Abstract!Spec
=============================================================================
