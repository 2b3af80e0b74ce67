--------------------------- MODULE LibraryProofs ---------------------------
(***************************************************************************)
(* Proofs about the kernel's library: the intrusive circular list, which   *)
(* implements the rotation of CircularListSpec, and unique_ptr.            *)
(***************************************************************************)
EXTENDS Library, FiniteSetTheorems, FunctionTheorems, SequenceTheorems,
        WellFoundedInduction, TLAPS

-----------------------------------------------------------------------------
(* CircularIntrusiveList.                                                  *)

\* An empty list has no links at all.
LEMMA EmptyListInv == Init => IInv
  BY DEF Init, IInv, TypeOK, LinksAreInverse, Linked, NoIterator

\* insert() (intrusive_circular_list.hpp) into an empty list and behind _some.
LEMMA InsertKeepsInv ==
  ASSUME IInv, NEW v \in Value, Insert(v)
  PROVE  IInv'
<1>. USE ValueAssumption
<1>1. CASE InsertFirst(v)
  BY <1>1 DEF Insert, InsertFirst, IInv, TypeOK, LinksAreInverse, Linked, NoIterator
<1>2. CASE InsertBehindSome(v)
  <2>1. TypeOK'
    BY <1>2, Zenon DEF InsertBehindSome, IInv, TypeOK, Linked, NoIterator
  <2>2. LinksAreInverse'
    BY <1>2 DEF Insert, InsertBehindSome, IInv, TypeOK, LinksAreInverse, Linked
  <2>3. (\A u \in Value : Linked(u) => next[u] \in Value /\ prev[u] \in Value
                                       /\ Linked(next[u]) /\ Linked(prev[u]))'
    BY <1>2, Zenon DEF Insert, InsertBehindSome, IInv, TypeOK, LinksAreInverse, Linked
  <2>4. (\A u \in {_some, it.node} \ {null} : Linked(u))'
    BY <1>2 DEF Insert, InsertBehindSome, IInv, TypeOK, Linked, NoIterator
  <2>. QED BY <2>1, <2>2, <2>3, <2>4, Zenon DEF IInv
<1>. QED BY <1>1, <1>2, Zenon DEF Insert

\* remove() of the only element and of one that has neighbours.
LEMMA RemoveKeepsInv ==
  ASSUME IInv, NEW v \in Value, RemoveValue(v)
  PROVE  IInv'
<1>. USE ValueAssumption
<1>1. CASE RemoveOnly(v)
  <2>1. TypeOK'
    BY <1>1, Zenon DEF RemoveOnly, IInv, TypeOK, NoIterator
  <2>2. \A u \in Value \ {v} : next[u] # v /\ (Linked(u) => prev[u] # v)
    BY <1>1 DEF RemoveOnly, RemoveValue, IInv, TypeOK, LinksAreInverse, Linked
  <2>3. LinksAreInverse'
    BY <1>1, <2>2, Zenon DEF RemoveOnly, IInv, TypeOK, LinksAreInverse, Linked
  <2>4. (\A u \in Value : Linked(u) => next[u] \in Value /\ prev[u] \in Value
                                       /\ Linked(next[u]) /\ Linked(prev[u]))'
    BY <1>1, <2>2, Zenon DEF RemoveOnly, IInv, TypeOK, LinksAreInverse, Linked
  <2>5. (\A u \in {_some, it.node} \ {null} : Linked(u))'
    BY <1>1, Zenon DEF RemoveOnly, RemoveValue, NoIterator
  <2>. QED BY <2>1, <2>3, <2>4, <2>5, Zenon DEF IInv
<1>2. CASE RemoveFromCircle(v)
  <2>1. TypeOK'
    BY <1>2, Zenon DEF RemoveFromCircle, RemoveValue, IInv, TypeOK, Linked, NoIterator
  <2>2. LinksAreInverse'
    BY <1>2 DEF RemoveFromCircle, RemoveValue, IInv, TypeOK, LinksAreInverse, Linked
  <2>3. (\A u \in Value : Linked(u) => next[u] \in Value /\ prev[u] \in Value
                                       /\ Linked(next[u]) /\ Linked(prev[u]))'
    BY <1>2, Zenon DEF RemoveFromCircle, RemoveValue, IInv, TypeOK, LinksAreInverse, Linked
  <2>4. (\A u \in {_some, it.node} \ {null} : Linked(u))'
    BY <1>2 DEF RemoveFromCircle, RemoveValue, IInv, TypeOK, LinksAreInverse, Linked, NoIterator
  <2>. QED BY <2>1, <2>2, <2>3, <2>4, Zenon DEF IInv
<1>. QED BY <1>1, <1>2, Zenon DEF RemoveValue

\* begin() and operator++ keep to the elements of the list.
LEMMA IterationKeepsInv ==
  ASSUME IInv, Begin \/ Advance
  PROVE  IInv'
<1>. USE ValueAssumption
<1>1. CASE Begin
  BY <1>1, Zenon DEF Begin, IInv, TypeOK, LinksAreInverse, Linked, NoIterator
<1>2. CASE Advance
  <2>1. it.node \in Value /\ Linked(it.node)
    BY <1>2, Zenon DEF Advance, IInv, TypeOK, NoIterator
  <2>2. it'.node \in {null, next[it.node]} /\ it' \in {NoIterator} \cup [node : Value, shifted : BOOLEAN]
    BY <1>2, <2>1, Zenon DEF Advance, IInv, NoIterator
  <2>3. TypeOK'
    BY <1>2, <2>2, Zenon DEF Advance, IInv, TypeOK
  <2>4. Linked(next[it.node])
    BY <2>1, Zenon DEF IInv
  <2>5. (\A u \in {_some, it.node} \ {null} : Linked(u))'
    BY <1>2, <2>2, <2>4, Zenon DEF Advance, IInv, Linked
  <2>. QED
    BY <1>2, <2>3, <2>5, Zenon DEF Advance, IInv, LinksAreInverse, Linked
<1>. QED BY <1>1, <1>2, Zenon

\* Whatever is inserted, removed and iterated over, every element of the list
\* is the predecessor of its successor and the successor of its predecessor
\* (intrusive_circular_list.hpp:116-152).
THEOREM LinksStayInverse == Spec => []LinksAreInverse
<1>1. IInv /\ [Next]_vars => IInv'
  <2>. SUFFICES ASSUME IInv, [Next]_vars PROVE IInv'
    BY Zenon
  <2>1. CASE Next
    BY <2>1, InsertKeepsInv, RemoveKeepsInv, IterationKeepsInv, Zenon DEF Next
  <2>2. CASE UNCHANGED vars
    BY <2>2, Zenon DEF vars, IInv, TypeOK, LinksAreInverse, Linked
  <2>. QED BY <2>1, <2>2, Zenon
<1>2. IInv => LinksAreInverse
  BY Zenon DEF IInv
<1>. QED BY EmptyListInv, <1>1, <1>2, PTL DEF Spec

-----------------------------------------------------------------------------
(* CircularIntrusiveList implements CircularListSpec.                      *)

\* The links make a circle of the elements of s, which begins at `some`.
Circle(s, some, links) ==
  /\ s \in Seq(Value)
  /\ \A i, j \in 1 .. Len(s) : s[i] = s[j] => i = j
  /\ \A v \in Value : links[v] # null <=> \E i \in 1 .. Len(s) : s[i] = v
  /\ s = <<>> => some = null
  /\ s # <<>> => some = s[1] /\ links[s[Len(s)]] = s[1]
  /\ \A i \in 1 .. Len(s) : i < Len(s) => links[s[i]] = s[i + 1]

\* A set of natural numbers has a least one.
LEMMA LeastExists ==
  ASSUME NEW T \in SUBSET Nat, T # {}
  PROVE  \E x \in T : \A y \in T : x <= y
<1>. DEFINE Less == {ss \in Nat \X Nat : ss[1] < ss[2]}
<1>1. Less = OpToRel(<, Nat)
  BY Zenon DEF OpToRel
<1>2. IsWellFoundedOn(Less, Nat)
  BY <1>1, NatLessThanWellFounded, Zenon
<1>3. PICK x \in T : \A y \in T : ~ (<<y, x>> \in Less)
  BY <1>2, WFMin, Zenon
<1>4. ASSUME NEW y \in T PROVE x <= y
  <2>1. ~ (<<y, x>> \in Less)
    BY <1>3, Zenon
  <2>2. y < x => <<y, x>> \in Less
    BY Zenon
  <2>. QED BY <2>1, <2>2
<1>. QED BY <1>4, Zenon

\* f is a walk of n steps along the links.
IsWalk(f, n, some, links) ==
  f = [i \in 1 .. n |-> IF i = 1 THEN some ELSE links[f[i - 1]]]

\* There is but one.
LEMMA OneWalk ==
  ASSUME NEW n \in Nat, NEW some, NEW links,
         NEW f, IsWalk(f, n, some, links), NEW g, IsWalk(g, n, some, links)
  PROVE  f = g
<1>. DEFINE T == {i \in 1 .. n : f[i] # g[i]}
<1>1. \A i \in 1 .. n : /\ f[i] = IF i = 1 THEN some ELSE links[f[i - 1]]
                        /\ g[i] = IF i = 1 THEN some ELSE links[g[i - 1]]
  BY Zenon DEF IsWalk
<1>2. CASE T = {}
  <2>1. \A i \in 1 .. n : f[i] = g[i]
    BY <1>2, Zenon
  <2>2. f = [i \in 1 .. n |-> f[i]] /\ g = [i \in 1 .. n |-> g[i]]
    BY Zenon DEF IsWalk
  <2>. QED BY <2>1, <2>2, Zenon
<1>3. CASE T # {}
  <2>1. T \in SUBSET Nat
    OBVIOUS
  <2>2. PICK x \in T : \A y \in T : x <= y
    BY <1>3, <2>1, LeastExists, Zenon
  <2>3. x \in 1 .. n /\ f[x] # g[x]
    BY Zenon
  <2>4. x # 1
    BY <1>1, <2>3, Zenon
  <2>5. x - 1 \in 1 .. n /\ ~ (x <= x - 1)
    BY <2>3, <2>4
  <2>6. x - 1 \notin T
    BY <2>2, <2>5, Zenon
  <2>. QED BY <1>1, <2>3, <2>4, <2>5, <2>6
<1>. QED BY <1>2, <1>3, Zenon

\* A sequence without repetitions has as many elements as places.
LEMMA ElementsOfCircle ==
  ASSUME NEW s, NEW some, NEW links, Circle(s, some, links)
  PROVE  Cardinality({v \in Value : links[v] # null}) = Len(s)
<1>. DEFINE S == {v \in Value : links[v] # null}
<1>1. s \in [1 .. Len(s) -> S] /\ Len(s) \in Nat
  BY DEF Circle
<1>2. \A v \in S : \E i \in 1 .. Len(s) : s[i] = v
  BY Zenon DEF Circle
<1>3. \A i, j \in 1 .. Len(s) : s[i] = s[j] => i = j
  BY Zenon DEF Circle
<1>. HIDE DEF S
<1>4. s \in Bijection(1 .. Len(s), S)
  BY <1>1, <1>2, <1>3, Fun_IsBij, Zenon
<1>5. ExistsBijection(1 .. Len(s), S)
  BY <1>4, Zenon DEF ExistsBijection
<1>. QED BY <1>1, <1>5, FS_CountingElements, Zenon DEF S

\* Once round the circle are its elements, in their order.
LEMMA RoundIsCircle ==
  ASSUME NEW s, NEW some, NEW links, Circle(s, some, links)
  PROVE  RoundOf(some, links) = s
<1>. DEFINE n == Cardinality({v \in Value : links[v] # null})
            walk == CHOOSE f : IsWalk(f, n, some, links)
<1>0. n = Len(s)
  BY ElementsOfCircle, Zenon
<1>1. s \in Seq(Value) /\ n = Len(s) /\ n \in Nat
  BY <1>0 DEF Circle
<1>2. RoundOf(some, links) = [i \in 1 .. n |-> walk[i]]
  BY Zenon DEF RoundOf, IsWalk
<1>. HIDE DEF n
<1>3. IsWalk(s, n, some, links)
  <2>1. ASSUME NEW i \in 1 .. n
        PROVE  s[i] = IF i = 1 THEN some ELSE links[s[i - 1]]
    <3>1. CASE i = 1
      BY <1>1, <3>1 DEF Circle
    <3>2. CASE i # 1
      <4>1. i - 1 \in 1 .. n /\ i - 1 < n /\ (i - 1) + 1 = i
        BY <1>1, <3>2
      <4>. QED BY <1>1, <3>2, <4>1 DEF Circle
    <3>. QED BY <3>1, <3>2, Zenon
  <2>2. s = [i \in 1 .. n |-> s[i]]
    BY <1>1
  <2>. QED BY <2>1, <2>2, Zenon DEF IsWalk
<1>4. IsWalk(walk, n, some, links)
  BY <1>3, Zenon
<1>. HIDE DEF walk
<1>5. walk = s
  BY <1>1, <1>3, <1>4, OneWalk, Zenon
<1>. QED BY <1>1, <1>2, <1>5

\* Every element is followed by the next one, and the last by the first.
LEMMA NextInCircle ==
  ASSUME NEW s, NEW some, NEW links, Circle(s, some, links), NEW k \in 1 .. Len(s)
  PROVE  links[s[k]] = s[IF k = Len(s) THEN 1 ELSE k + 1]
BY DEF Circle

\* insert() puts the value behind the first element.
Inserted(s, v) == IF s = <<>> THEN <<v>> ELSE <<Head(s), v>> \o Tail(s)

\* The sequence with v behind its first element, by its elements.
LEMMA InsertedElements ==
  ASSUME NEW s \in Seq(Value), NEW v \in Value, s # <<>>
  PROVE  /\ Inserted(s, v) \in Seq(Value)
         /\ Len(Inserted(s, v)) = Len(s) + 1
         /\ Inserted(s, v)[1] = s[1]
         /\ Inserted(s, v)[2] = v
         /\ \A i \in 2 .. Len(s) : Inserted(s, v)[i + 1] = s[i]
<1>1. /\ <<Head(s), v>> \in Seq(Value) /\ Len(<<Head(s), v>>) = 2
      /\ <<Head(s), v>>[1] = s[1] /\ <<Head(s), v>>[2] = v
  OBVIOUS
<1>2. /\ Tail(s) \in Seq(Value) /\ Len(Tail(s)) = Len(s) - 1
      /\ \A i \in 1 .. Len(s) - 1 : Tail(s)[i] = s[i + 1]
  OBVIOUS
<1>3. PICK a, b : a = <<Head(s), v>> /\ b = Tail(s)
  BY Zenon
<1>4. Inserted(s, v) = a \o b
  BY <1>3, Zenon DEF Inserted
<1>5. /\ a \o b \in Seq(Value) /\ Len(a \o b) = Len(s) + 1
      /\ (a \o b)[1] = a[1] /\ (a \o b)[2] = a[2]
  BY <1>1, <1>2, <1>3
<1>6. ASSUME NEW i \in 2 .. Len(s) PROVE (a \o b)[i + 1] = s[i]
  <2>1. (a \o b)[i + 1] = b[i - 1]
    BY <1>1, <1>2, <1>3
  <2>2. i - 1 \in 1 .. Len(s) - 1 /\ (i - 1) + 1 = i
    OBVIOUS
  <2>. QED BY <1>2, <1>3, <2>1, <2>2, Zenon
<1>. QED BY <1>1, <1>3, <1>4, <1>5, <1>6, Zenon

\* insert() makes the circle one longer (intrusive_circular_list.hpp:97-130).
LEMMA InsertExtends ==
  ASSUME IInv, NEW v \in Value, Insert(v), NEW s, Circle(s, _some, next)
  PROVE  Circle(Inserted(s, v), _some', next')
<1>1. s \in Seq(Value) /\ Len(s) \in Nat /\ next \in [Value -> Value \cup {null}]
  BY DEF Circle, IInv, TypeOK
<1>2. \A i \in 1 .. Len(s) : s[i] \in Value /\ s[i] # v /\ next[s[i]] # null
  BY <1>1 DEF Circle, Insert, Linked
<1>. USE ValueAssumption
<1>3. CASE s = <<>>
  <2>1. _some = null
    BY <1>3, Zenon DEF Circle
  <2>2. next' = [next EXCEPT ![v] = v] /\ _some' = v
    BY <2>1, Zenon DEF Insert, InsertFirst, InsertBehindSome
  <2>3. /\ Inserted(s, v) = <<v>> /\ Len(<<v>>) = 1 /\ <<v>>[1] = v
        /\ <<v>> \in Seq(Value) /\ <<v>> # <<>> /\ 1 .. 1 = {1}
    BY <1>3 DEF Inserted
  <2>4. \A u \in Value : next[u] = null
    BY <1>3 DEF Circle
  <2>5. \A u \in Value : next'[u] # null <=> u = v
    BY <1>1, <2>2, <2>4, Zenon
  <2>6. next'[v] = v
    BY <1>1, <2>2, Zenon
  <2>7. \A u \in Value : next'[u] # null <=> \E i \in 1 .. 1 : <<v>>[i] = u
    BY <2>3, <2>5, Zenon
  <2>. QED BY <2>2, <2>3, <2>6, <2>7 DEF Circle
<1>4. CASE s # <<>>
  <2>1. _some = s[1] /\ s[1] \in Value /\ s[1] # v /\ 1 \in 1 .. Len(s)
    BY <1>1, <1>2, <1>4 DEF Circle
  <2>2. next' = [next EXCEPT ![v] = next[s[1]], ![s[1]] = v] /\ _some' = s[1]
    BY <2>1, Zenon DEF Insert, InsertFirst, InsertBehindSome
  <2>3. /\ next'[v] = next[s[1]] /\ next'[s[1]] = v
        /\ \A u \in Value \ {v, s[1]} : next'[u] = next[u]
    BY <1>1, <2>1, <2>2, Zenon
  <2>4. PICK t : t = Inserted(s, v)
    BY Zenon
  <2>5. /\ t \in Seq(Value) /\ Len(t) = Len(s) + 1 /\ t[1] = s[1] /\ t[2] = v
        /\ \A i \in 2 .. Len(s) : t[i + 1] = s[i]
    BY <1>1, <1>4, <2>4, InsertedElements, Zenon
  <2>6. \A i \in 3 .. Len(t) : i - 1 \in 2 .. Len(s) /\ t[i] = s[i - 1]
    BY <1>1, <2>5
  <2>7. \A i, j \in 1 .. Len(s) : s[i] = s[j] => i = j
    BY Zenon DEF Circle
  <2>8. \A i, j \in 1 .. Len(t) : t[i] = t[j] => i = j
    <3>1. \A i \in 1 .. Len(t) : i = 1 \/ i = 2 \/ i \in 3 .. Len(t)
      BY <1>1, <2>5
    <3>2. \A i \in 3 .. Len(t) : t[i] # s[1] /\ t[i] # v
      BY <1>1, <1>2, <2>1, <2>6, <2>7
    <3>3. \A i, j \in 3 .. Len(t) : t[i] = t[j] => i = j
      BY <1>1, <2>6, <2>7
    <3>. QED BY <2>1, <2>5, <3>1, <3>2, <3>3, Zenon
  <2>9. ASSUME NEW u \in Value PROVE next'[u] # null <=> \E i \in 1 .. Len(t) : t[i] = u
    <3>1. next'[u] # null <=> u = v \/ next[u] # null
      BY <1>1, <1>2, <2>1, <2>3, Zenon
    <3>2. next[u] # null <=> \E i \in 1 .. Len(s) : s[i] = u
      BY Zenon DEF Circle
    <3>3. (\E i \in 1 .. Len(t) : t[i] = u) <=> u = v \/ \E i \in 1 .. Len(s) : s[i] = u
      <4>1. ASSUME NEW i \in 1 .. Len(t), t[i] = u
            PROVE  u = v \/ \E j \in 1 .. Len(s) : s[j] = u
        <5>1. i = 1 \/ i = 2 \/ i \in 3 .. Len(t)
          BY <1>1, <2>5
        <5>2. i \in 3 .. Len(t) => i - 1 \in 1 .. Len(s) /\ s[i - 1] = u
          BY <2>6, <4>1
        <5>. QED BY <2>1, <2>5, <4>1, <5>1, <5>2, Zenon
      <4>2. ASSUME u = v PROVE \E i \in 1 .. Len(t) : t[i] = u
        <5>1. 2 \in 1 .. Len(t)
          BY <1>1, <1>4, <2>5
        <5>. QED BY <2>5, <4>2, <5>1, Zenon
      <4>3. ASSUME NEW j \in 1 .. Len(s), s[j] = u PROVE \E i \in 1 .. Len(t) : t[i] = u
        <5>1. CASE j = 1
          BY <1>1, <2>5, <4>3, <5>1
        <5>2. CASE j # 1
          <6>1. j \in 2 .. Len(s) /\ j + 1 \in 1 .. Len(t)
            BY <1>1, <2>5, <5>2
          <6>. QED BY <2>5, <4>3, <6>1, Zenon
        <5>. QED BY <5>1, <5>2, Zenon
      <4>. QED BY <4>1, <4>2, <4>3, Zenon
    <3>. QED BY <3>1, <3>2, <3>3, Zenon
  <2>10. ASSUME NEW i \in 1 .. Len(t), i < Len(t) PROVE next'[t[i]] = t[i + 1]
    <3>1. CASE i = 1
      BY <2>3, <2>5, <3>1
    <3>2. CASE i = 2
      <4>1. 2 \in 2 .. Len(s) /\ t[3] = s[2] /\ 1 < Len(s)
        BY <1>1, <2>5, <2>10, <3>2
      <4>2. next[s[1]] = s[2]
        BY <2>1, <4>1 DEF Circle
      <4>. QED BY <2>3, <2>5, <3>2, <4>1, <4>2, Zenon
    <3>3. CASE i \in 3 .. Len(t)
      <4>1. i - 1 \in 2 .. Len(s) /\ t[i] = s[i - 1] /\ i - 1 < Len(s) /\ (i - 1) + 1 = i
        BY <1>1, <2>5, <2>6, <2>10, <3>3
      <4>2. i + 1 \in 3 .. Len(t) /\ (i + 1) - 1 = i
        BY <1>1, <2>5, <2>10, <3>3
      <4>3. t[i + 1] = s[i]
        BY <2>6, <4>2, Zenon
      <4>4. s[i - 1] \in Value \ {v, s[1]}
        BY <1>1, <1>2, <2>1, <2>7, <4>1
      <4>5. next[s[i - 1]] = s[i]
        BY <1>1, <4>1 DEF Circle
      <4>. QED BY <2>3, <4>1, <4>3, <4>4, <4>5, Zenon
    <3>4. i = 1 \/ i = 2 \/ i \in 3 .. Len(t)
      BY <1>1, <2>5
    <3>. QED BY <3>1, <3>2, <3>3, <3>4, Zenon
  <2>11. next'[t[Len(t)]] = t[1]
    <3>1. next[s[Len(s)]] = s[1]
      BY <1>4, Zenon DEF Circle
    <3>2. CASE Len(s) = 1
      BY <2>3, <2>5, <3>1, <3>2
    <3>3. CASE Len(s) # 1
      <4>0. Len(s) >= 2
        BY <1>1, <2>1, <3>3
      <4>1. Len(t) \in 3 .. Len(t) /\ Len(t) - 1 = Len(s) /\ Len(s) \in 1 .. Len(s)
        BY <1>1, <2>5, <4>0
      <4>2. t[Len(t)] = s[Len(s)]
        BY <2>6, <4>1, Zenon
      <4>3. s[Len(s)] \in Value \ {v, s[1]}
        BY <1>1, <1>2, <2>1, <2>7, <3>3, <4>1, Zenon
      <4>. QED BY <2>3, <2>5, <3>1, <4>2, <4>3, Zenon
    <3>. QED BY <3>2, <3>3, Zenon
  <2>12. t # <<>>
    BY <1>1, <2>5
  <2>13. Circle(t, _some', next')
    BY <2>2, <2>5, <2>8, <2>9, <2>10, <2>11, <2>12, Zenon DEF Circle
  <2>. QED BY <2>4, <2>13, Zenon
<1>. QED BY <1>3, <1>4, Zenon

\* remove() takes an element out.
Without(s, k) == SubSeq(s, 1, k - 1) \o SubSeq(s, k + 1, Len(s))

\* The sequence without its k-th element, by its elements.
LEMMA WithoutElements ==
  ASSUME NEW s \in Seq(Value), NEW k \in 1 .. Len(s)
  PROVE  /\ Without(s, k) \in Seq(Value)
         /\ Len(Without(s, k)) = Len(s) - 1
         /\ \A i \in 1 .. Len(s) - 1 :
              Without(s, k)[i] = IF i < k THEN s[i] ELSE s[i + 1]
<1>1. PICK a, b : a = SubSeq(s, 1, k - 1) /\ b = SubSeq(s, k + 1, Len(s))
  BY Zenon
<1>2. a \in Seq(Value) /\ Len(a) = k - 1 /\ \A i \in 1 .. k - 1 : a[i] = s[i]
  BY <1>1
<1>3. /\ b \in Seq(Value) /\ Len(b) = Len(s) - k
      /\ \A i \in 1 .. Len(s) - k : b[i] = s[k + i]
  BY <1>1
<1>4. Without(s, k) = a \o b
  BY <1>1, Zenon DEF Without
<1>5. a \o b \in Seq(Value) /\ Len(a \o b) = Len(s) - 1
  <2>1. a \o b \in Seq(Value) /\ Len(a \o b) = Len(a) + Len(b)
    BY <1>2, <1>3, ConcatProperties, Zenon
  <2>2. (k - 1) + (Len(s) - k) = Len(s) - 1
    OBVIOUS
  <2>. QED BY <1>2, <1>3, <2>1, <2>2, Zenon
<1>6. ASSUME NEW i \in 1 .. Len(s) - 1
      PROVE  (a \o b)[i] = IF i < k THEN s[i] ELSE s[i + 1]
  <2>1. CASE i < k
    BY <1>2, <1>3, <2>1
  <2>2. CASE ~ (i < k)
    <3>1. (a \o b)[i] = b[i - (k - 1)]
      BY <1>2, <1>3, <2>2
    <3>2. i - (k - 1) \in 1 .. Len(s) - k /\ k + (i - (k - 1)) = i + 1
      BY <2>2
    <3>. QED BY <1>3, <2>2, <3>1, <3>2, Zenon
  <2>. QED BY <2>1, <2>2, Zenon
<1>. QED BY <1>4, <1>5, <1>6, Zenon

\* remove() of the only element leaves an empty list.
LEMMA RemoveOnlyEmpties ==
  ASSUME IInv, NEW v \in Value, Linked(v), RemoveOnly(v), NEW s, Circle(s, _some, next),
         NEW k \in 1 .. Len(s), s[k] = v
  PROVE  Len(s) = 1 /\ Circle(Without(s, k), _some', next')
<1>1. s \in Seq(Value) /\ Len(s) \in Nat /\ next \in [Value -> Value \cup {null}]
  BY DEF Circle, IInv, TypeOK
<1>2. next[s[k]] = s[k] /\ next' = [next EXCEPT ![v] = null] /\ _some' = null
  BY Zenon DEF RemoveOnly
<1>3. \A i, j \in 1 .. Len(s) : s[i] = s[j] => i = j
  BY Zenon DEF Circle
<1>4. 1 \in 1 .. Len(s) /\ (k # Len(s) => k + 1 \in 1 .. Len(s) /\ k + 1 # k)
  BY <1>1
<1>5. Len(s) = 1 /\ k = 1
  <2>1. s[k] = s[IF k = Len(s) THEN 1 ELSE k + 1]
    BY <1>2, NextInCircle, Zenon
  <2>2. k = Len(s)
    BY <1>3, <1>4, <2>1, Zenon
  <2>3. k = 1
    BY <1>3, <1>4, <2>1, <2>2, Zenon
  <2>. QED BY <2>2, <2>3, Zenon
<1>6. Without(s, k) \in Seq(Value) /\ Len(Without(s, k)) = 0
  <2>1. Without(s, k) \in Seq(Value) /\ Len(Without(s, k)) = Len(s) - 1
    BY <1>1, WithoutElements, Zenon
  <2>. QED BY <1>5, <2>1
<1>7. Without(s, k) = <<>>
  BY <1>6
<1>8. \A u \in Value : next[u] # null <=> u = v
  <2>1. \A u \in Value : next[u] # null <=> \E i \in 1 .. 1 : s[i] = u
    BY <1>5, Zenon DEF Circle
  <2>2. \A i \in 1 .. 1 : i = 1
    OBVIOUS
  <2>. QED BY <1>5, <2>1, <2>2, Zenon
<1>9. \A u \in Value : next'[u] = null
  BY <1>1, <1>2, <1>8, Zenon
<1>10. <<>> \in Seq(Value) /\ Len(<<>>) = 0 /\ 1 .. 0 = {}
  OBVIOUS
<1>11. Circle(<<>>, _some', next')
  BY <1>2, <1>9, <1>10, Zenon DEF Circle
<1>. QED BY <1>5, <1>7, <1>11, Zenon

\* remove() of another one closes the circle behind it
\* (intrusive_circular_list.hpp:132-152).
LEMMA RemoveCloses ==
  ASSUME IInv, NEW v \in Value, Linked(v), RemoveFromCircle(v),
         NEW s, Circle(s, _some, next), NEW k \in 1 .. Len(s), s[k] = v
  PROVE  Len(s) # 1 /\ Circle(Without(s, k), _some', next')
<1>1. s \in Seq(Value) /\ Len(s) \in Nat /\ next \in [Value -> Value \cup {null}]
  BY DEF Circle, IInv, TypeOK
<1>. DEFINE n == Len(s)
            p == IF k = 1 THEN n ELSE k - 1
            q == IF k = n THEN 1 ELSE k + 1
<1>2. \A i, j \in 1 .. n : s[i] = s[j] => i = j
  BY Zenon DEF Circle
<1>3. \A i \in 1 .. n : s[i] \in Value /\ next[s[i]] # null
  BY <1>1 DEF Circle
<1>4. n \in Nat /\ n > 1 /\ n # 1
  <2>1. n = 1 => next[s[k]] = s[k]
    BY NextInCircle
  <2>2. next[s[k]] # s[k]
    BY Zenon DEF RemoveFromCircle
  <2>3. n # 1
    BY <2>1, <2>2, Zenon
  <2>4. \A m \in Nat : m # 1 /\ k \in 1 .. m => m > 1
    OBVIOUS
  <2>. QED BY <1>1, <2>3, <2>4, Zenon
<1>5. /\ p \in 1 .. n /\ q \in 1 .. n /\ p # k /\ q # k
      /\ (IF p = n THEN 1 ELSE p + 1) = k
  BY <1>4
<1>6. next[v] = s[q] /\ next[s[p]] = v
  BY <1>5, NextInCircle
<1>7. prev[v] = s[p]
  BY <1>3, <1>5, <1>6 DEF IInv, LinksAreInverse, Linked
<1>8. /\ next' = [next EXCEPT ![s[p]] = s[q], ![v] = null]
      /\ _some' = IF _some = v THEN s[q] ELSE _some
  BY <1>6, <1>7, Zenon DEF RemoveFromCircle
<1>. HIDE DEF p, q
<1>9. /\ next'[s[p]] = s[q] /\ next'[v] = null
      /\ \A u \in Value \ {v, s[p]} : next'[u] = next[u]
  BY <1>1, <1>2, <1>3, <1>5, <1>8, Zenon
<1>10. PICK t : t = Without(s, k)
  BY Zenon
<1>11. /\ t \in Seq(Value) /\ Len(t) = n - 1
       /\ \A i \in 1 .. n - 1 : t[i] = IF i < k THEN s[i] ELSE s[i + 1]
  BY <1>1, <1>10, WithoutElements, Zenon
<1>12. \A i, j \in 1 .. Len(t) : t[i] = t[j] => i = j
  BY <1>2, <1>4, <1>11
<1>13. ASSUME NEW u \in Value PROVE next'[u] # null <=> \E i \in 1 .. Len(t) : t[i] = u
  <2>1. next'[u] # null <=> u # v /\ next[u] # null
    <3>1. s[q] # null
      BY <1>3, <1>5, ValueAssumption, Zenon
    <3>. QED BY <1>3, <1>5, <1>9, <3>1, Zenon
  <2>2. next[u] # null <=> \E i \in 1 .. n : s[i] = u
    BY Zenon DEF Circle
  <2>3. ASSUME NEW i \in 1 .. n, s[i] = u, u # v PROVE \E j \in 1 .. Len(t) : t[j] = u
    <3>1. CASE i < k
      <4>1. i \in 1 .. n - 1
        BY <1>4, <3>1
      <4>. QED BY <1>11, <2>3, <3>1, <4>1, Zenon
    <3>2. CASE i > k
      <4>1. i - 1 \in 1 .. n - 1 /\ ~ (i - 1 < k) /\ (i - 1) + 1 = i
        BY <1>4, <3>2
      <4>. QED BY <1>11, <2>3, <4>1, Zenon
    <3>3. i # k
      BY <2>3, Zenon
    <3>. QED BY <3>1, <3>2, <3>3
  <2>4. ASSUME NEW j \in 1 .. Len(t), t[j] = u
        PROVE  u # v /\ \E i \in 1 .. n : s[i] = u
    <3>1. j \in 1 .. n - 1 /\ j \in 1 .. n /\ j + 1 \in 1 .. n
      BY <1>4, <1>11
    <3>2. CASE j < k
      BY <1>2, <1>11, <2>4, <3>1, <3>2
    <3>3. CASE ~ (j < k)
      <4>1. u = s[j + 1] /\ j + 1 # k
        BY <1>11, <2>4, <3>1, <3>3
      <4>. QED BY <1>2, <3>1, <4>1, Zenon
    <3>. QED BY <3>2, <3>3, Zenon
  <2>. QED BY <2>1, <2>2, <2>3, <2>4, Zenon
<1>14. \A i \in 1 .. n : i # k /\ i # p => next'[s[i]] = next[s[i]]
  BY <1>2, <1>3, <1>5, <1>9, Zenon
<1>15. ASSUME NEW i \in 1 .. Len(t), i < Len(t) PROVE next'[t[i]] = t[i + 1]
  <2>1. i \in 1 .. n - 1 /\ i + 1 \in 1 .. n - 1
    BY <1>4, <1>11, <1>15
  <2>2. CASE i + 1 < k
    <3>1. i \in 1 .. n /\ i < n /\ i # k /\ i # p
      BY <1>4, <2>1, <2>2 DEF p
    <3>2. t[i] = s[i] /\ t[i + 1] = s[i + 1]
      BY <1>11, <2>1, <2>2
    <3>3. next[s[i]] = s[i + 1]
      BY <3>1, Zenon DEF Circle
    <3>. QED BY <1>14, <3>1, <3>2, <3>3, Zenon
  <2>3. CASE i + 1 = k
    <3>1. p = i /\ q = i + 2
      BY <1>4, <2>1, <2>3 DEF p, q
    <3>2. t[i] = s[i] /\ t[i + 1] = s[(i + 1) + 1] /\ (i + 1) + 1 = i + 2
      BY <1>11, <2>1, <2>3
    <3>. QED BY <1>9, <3>1, <3>2
  <2>4. CASE i + 1 > k
    <3>1. i + 1 \in 1 .. n /\ i + 1 < n /\ i + 1 # k /\ i + 1 # p
      BY <1>4, <2>1, <2>4 DEF p
    <3>2. t[i] = s[i + 1] /\ t[i + 1] = s[(i + 1) + 1]
      BY <1>11, <2>1, <2>4
    <3>3. next[s[i + 1]] = s[(i + 1) + 1]
      BY <3>1, Zenon DEF Circle
    <3>. QED BY <1>14, <3>1, <3>2, <3>3, Zenon
  <2>. QED BY <2>1, <2>2, <2>3, <2>4
<1>16. next'[t[Len(t)]] = t[1]
  <2>1. 1 \in 1 .. n - 1 /\ n - 1 \in 1 .. n - 1 /\ Len(t) = n - 1 /\ n \in 1 .. n
    BY <1>4, <1>11
  <2>2. CASE k = n
    <3>1. p = n - 1 /\ q = 1 /\ t[n - 1] = s[n - 1] /\ t[1] = s[1]
      BY <1>4, <1>11, <2>1, <2>2 DEF p, q
    <3>. QED BY <1>9, <2>1, <3>1, Zenon
  <2>3. CASE k = 1
    <3>1. p = n /\ q = 2 /\ t[n - 1] = s[(n - 1) + 1] /\ (n - 1) + 1 = n /\ t[1] = s[1 + 1]
      BY <1>4, <1>11, <2>1, <2>3 DEF p, q
    <3>. QED BY <1>9, <2>1, <3>1
  <2>4. CASE k # n /\ k # 1
    <3>1. t[n - 1] = s[(n - 1) + 1] /\ (n - 1) + 1 = n /\ t[1] = s[1] /\ p # n
      BY <1>4, <1>11, <2>1, <2>4 DEF p
    <3>2. next[s[n]] = s[1]
      BY <2>1, NextInCircle, Zenon
    <3>. QED BY <1>14, <2>1, <2>4, <3>1, <3>2, Zenon
  <2>. QED BY <2>2, <2>3, <2>4, Zenon
<1>17. _some' = t[1] /\ t # <<>>
  <2>1. _some = s[1] /\ 1 \in 1 .. n - 1 /\ 1 \in 1 .. n
    BY <1>1, <1>4 DEF Circle
  <2>2. k = 1 => q = 2 /\ t[1] = s[1 + 1]
    BY <1>4, <1>11, <2>1 DEF q
  <2>3. k # 1 => t[1] = s[1] /\ s[1] # v
    BY <1>2, <1>4, <1>11, <2>1
  <2>. QED BY <1>4, <1>8, <1>11, <2>1, <2>2, <2>3
<1>18. Circle(t, _some', next')
  BY <1>11, <1>12, <1>13, <1>15, <1>16, <1>17, Zenon DEF Circle
<1>19. Len(s) # 1
  BY <1>4, Zenon
<1>. QED BY <1>10, <1>18, <1>19, Zenon

\* The inductive invariant: the links are inverse, and make one circle.
CircleInv == IInv /\ \E s : Circle(s, _some, next)

\* The element behind another in the circle is the next one.
LEMMA SuccessorIsNext ==
  ASSUME NEW s, Circle(s, _some, next), NEW k \in 1 .. Len(s)
  PROVE  Abstract!Successor(s[k]) = next[s[k]]
<1>1. s \in Seq(Value) /\ Len(s) \in Nat /\ DOMAIN s = 1 .. Len(s)
  BY DEF Circle
<1>2. Round = s
  BY RoundIsCircle, Zenon DEF Round
<1>3. \A j \in DOMAIN s : s[j] = s[k] <=> j = k
  BY <1>1, Zenon DEF Circle
<1>4. (CHOOSE j \in DOMAIN s : s[j] = s[k]) = k
  BY <1>1, <1>3, Zenon
<1>5. Abstract!Successor(s[k]) = s[(k % Len(s)) + 1]
  BY <1>2, <1>4, Zenon DEF Abstract!Successor
<1>6. (k % Len(s)) + 1 = IF k = Len(s) THEN 1 ELSE k + 1
  <2>1. \A n \in Nat : \A i \in 1 .. n : (i % n) + 1 = IF i = n THEN 1 ELSE i + 1
    BY Z3
  <2>. QED BY <1>1, <2>1, Zenon
<1>. QED BY <1>5, <1>6, NextInCircle, Zenon

\* insert() puts the element behind _some in the sequence.
LEMMA InsertImplements ==
  ASSUME CircleInv, NEW v \in Value, Insert(v)
  PROVE  CircleInv' /\ Abstract!Next
<1>1. PICK s : Circle(s, _some, next)
  BY Zenon DEF CircleInv
<1>2. IInv /\ IInv'
  BY InsertKeepsInv, Zenon DEF CircleInv
<1>3. Circle(Inserted(s, v), _some', next')
  BY <1>1, <1>2, InsertExtends, Zenon
<1>4. Round = s /\ Round' = Inserted(s, v)
  BY <1>1, <1>3, RoundIsCircle, Zenon DEF Round
<1>5. UNCHANGED <<it, ret>>
  BY Zenon DEF Insert, InsertFirst, InsertBehindSome
<1>6. v \notin {s[i] : i \in DOMAIN s}
  BY <1>1 DEF Circle, Insert, Linked
<1>7. Abstract!Insert(v)
  BY <1>4, <1>5, Zenon DEF Abstract!Insert, Inserted
<1>8. Abstract!Next
  BY <1>4, <1>6, <1>7, Zenon DEF Abstract!Next, Abstract!Elements
<1>. QED BY <1>2, <1>3, <1>8, Zenon DEF CircleInv

\* remove() takes the element out of the sequence and returns its successor.
LEMMA RemoveImplements ==
  ASSUME CircleInv, NEW v \in Value, RemoveValue(v)
  PROVE  CircleInv' /\ Abstract!Next
<1>1. PICK s : Circle(s, _some, next)
  BY Zenon DEF CircleInv
<1>2. IInv /\ IInv'
  BY RemoveKeepsInv, Zenon DEF CircleInv
<1>3. PICK k \in 1 .. Len(s) : s[k] = v
  BY <1>1, Zenon DEF Circle, RemoveValue, Linked
<1>4. s \in Seq(Value) /\ DOMAIN s = 1 .. Len(s)
  BY <1>1 DEF Circle
<1>5. it = NoIterator /\ it' = it /\ Linked(v)
  BY Zenon DEF RemoveValue, RemoveOnly, RemoveFromCircle
<1>6. /\ Circle(Without(s, k), _some', next')
      /\ ret' = IF Len(s) = 1 THEN null ELSE next[v]
  <2>1. CASE RemoveOnly(v)
    <3>1. Len(s) = 1 /\ Circle(Without(s, k), _some', next')
      BY <1>1, <1>2, <1>3, <1>5, <2>1, RemoveOnlyEmpties, Zenon
    <3>. QED BY <2>1, <3>1, Zenon DEF RemoveOnly
  <2>2. CASE RemoveFromCircle(v)
    <3>1. Len(s) # 1 /\ Circle(Without(s, k), _some', next')
      BY <1>1, <1>2, <1>3, <1>5, <2>2, RemoveCloses, Zenon
    <3>. QED BY <2>2, <3>1, Zenon DEF RemoveFromCircle
  <2>. QED BY <2>1, <2>2, Zenon DEF RemoveValue
<1>7. Round = s /\ Round' = Without(s, k)
  BY <1>1, <1>6, RoundIsCircle, Zenon DEF Round
<1>8. Abstract!Successor(v) = next[v]
  BY <1>1, <1>3, SuccessorIsNext, Zenon
<1>9. Round' = SubSeq(Round, 1, k - 1) \o SubSeq(Round, k + 1, Len(Round))
  BY <1>7, Zenon DEF Without
<1>10. Abstract!RemoveValue(v)
  BY <1>3, <1>4, <1>5, <1>6, <1>7, <1>8, <1>9, Zenon
  DEF Abstract!RemoveValue, NoIterator, Abstract!NoIterator
<1>11. v \in {s[i] : i \in DOMAIN s}
  BY <1>3, <1>4, Zenon
<1>12. Abstract!Next
  BY <1>7, <1>10, <1>11, Zenon DEF Abstract!Next, Abstract!Elements
<1>. QED BY <1>2, <1>6, <1>12, Zenon DEF CircleInv

\* begin() and operator++ go along the sequence.
LEMMA IterationImplements ==
  ASSUME CircleInv, Begin \/ Advance
  PROVE  CircleInv' /\ Abstract!Next
<1>1. PICK s : Circle(s, _some, next)
  BY Zenon DEF CircleInv
<1>2. IInv /\ IInv' /\ UNCHANGED <<_some, next, ret>>
  BY IterationKeepsInv, Zenon DEF CircleInv, Begin, Advance
<1>3. Round = s /\ Round' = s
  BY <1>1, <1>2, RoundIsCircle, Zenon DEF Round
<1>4. CircleInv'
  BY <1>1, <1>2, Zenon DEF CircleInv
<1>5. s \in Seq(Value) /\ (s # <<>> => _some = Head(s)) /\ (s = <<>> => _some = null)
  BY <1>1 DEF Circle
<1>6. CASE Begin
  <2>1. it = NoIterator /\ _some # null /\ it' = [node |-> _some, shifted |-> FALSE]
    BY <1>6, Zenon DEF Begin
  <2>2. s # <<>> /\ _some = Head(s)
    BY <1>5, <2>1, Zenon
  <2>3. Abstract!Begin
    BY <1>2, <1>3, <2>1, <2>2, Zenon DEF Abstract!Begin, NoIterator, Abstract!NoIterator
  <2>. QED BY <1>4, <2>3, Zenon DEF Abstract!Next
<1>7. CASE Advance
  <2>1. it.node \in Value /\ Linked(it.node) /\ it # NoIterator
    BY <1>2, <1>7, ValueAssumption, Zenon DEF Advance, IInv, TypeOK, NoIterator
  <2>2. PICK k \in 1 .. Len(s) : s[k] = it.node
    BY <1>1, <2>1, Zenon DEF Circle, Linked
  <2>3. s # <<>> /\ _some = Head(s)
    BY <1>5, <2>2
  <2>4. Abstract!Successor(it.node) = next[it.node]
    BY <1>1, <2>2, SuccessorIsNext, Zenon
  <2>5. it' = IF next[it.node] = _some THEN NoIterator
                                       ELSE [node |-> next[it.node], shifted |-> TRUE]
    BY <1>7, Zenon DEF Advance, IsEnd
  <2>6. CASE next[it.node] = _some
    <3>1. Abstract!End
      BY <1>2, <1>3, <2>1, <2>3, <2>4, <2>5, <2>6
      DEF Abstract!End, NoIterator, Abstract!NoIterator
    <3>. QED BY <1>4, <3>1, Zenon DEF Abstract!Next
  <2>7. CASE next[it.node] # _some
    <3>1. it' = [node |-> next[it.node], shifted |-> TRUE] /\ it'.node # Head(s)
      BY <2>3, <2>5, <2>7
    <3>2. Abstract!Advance
      BY <1>2, <1>3, <2>1, <2>4, <3>1, Zenon
      DEF Abstract!Advance, NoIterator, Abstract!NoIterator
    <3>. QED BY <1>4, <3>2, Zenon DEF Abstract!Next
  <2>. QED BY <2>6, <2>7, Zenon
<1>. QED BY <1>6, <1>7, Zenon

\* The doubly linked circle is, for any elements and any calls, the cyclic
\* sequence that the scheduler works with: insert() puts a value behind the
\* first, remove() takes any value out and returns its successor, and the
\* iterators go round once (intrusive_circular_list.hpp:34-152).
THEOREM LinksImplementCircularList == Spec => ImplementsCircularListSpec
<1>1. Init => CircleInv /\ Abstract!Init
  <2>. SUFFICES ASSUME Init PROVE CircleInv /\ Abstract!Init
    BY Zenon
  <2>1. /\ <<>> \in Seq(Value) /\ Len(<<>>) = 0 /\ 1 .. 0 = {}
        /\ _some = null /\ \A v \in Value : next[v] = null
    BY DEF Init
  <2>2. Circle(<<>>, _some, next)
    BY <2>1, Zenon DEF Circle
  <2>3. Round = <<>>
    BY <2>2, RoundIsCircle, Zenon DEF Round
  <2>. QED
    BY EmptyListInv, <2>2, <2>3, Zenon
    DEF CircleInv, Init, Abstract!Init, NoIterator, Abstract!NoIterator
<1>2. CircleInv /\ [Next]_vars => CircleInv' /\ [Abstract!Next]_(Abstract!vars)
  <2>. SUFFICES ASSUME CircleInv, [Next]_vars
                PROVE  CircleInv' /\ [Abstract!Next]_(Abstract!vars)
    BY Zenon
  <2>1. CASE Next
    BY <2>1, InsertImplements, RemoveImplements, IterationImplements, Zenon DEF Next
  <2>2. CASE UNCHANGED vars
    <3>1. UNCHANGED <<_some, next, prev, it, ret>>
      BY <2>2, Zenon DEF vars
    <3>2. CircleInv'
      BY <3>1, Zenon DEF CircleInv, IInv, TypeOK, LinksAreInverse, Linked
    <3>3. UNCHANGED Abstract!vars
      BY <3>1, Zenon DEF Abstract!vars, Round
    <3>. QED BY <3>2, <3>3, Zenon
  <2>. QED BY <2>1, <2>2, Zenon
<1>. QED BY <1>1, <1>2, PTL DEF Spec, ImplementsCircularListSpec, Abstract!Spec

-----------------------------------------------------------------------------
(* unique_ptr.                                                             *)

\* Why ObjectsHaveOneHolder holds: what a unique_ptr holds was created the
\* way it will delete it, and nobody else holds it.
PointersHold ==
  \A p \in exists : _object[p] # null =>
    form[_object[p]] = Unique!Form(p) /\ Unique!Form(_object[p]) = Unique!Form(p)

RawFormed == \A o \in raw : form[o] = Unique!Form(o)

OneEach ==
  \A p, q \in exists :
    _object[p] = _object[q] /\ _object[p] # null => p = q

RawApart == \A p \in exists : _object[p] \notin raw

AllHeld ==
  \A o \in Object : form[o] # "free" =>
    o \in raw \/ \E p \in exists : _object[p] = o

PointerTypes ==
  /\ exists \in SUBSET Pointer
  /\ _object \in [Pointer -> Object \cup {null}]
  /\ form \in [Object -> {"free", "new", "new[]"}]
  /\ raw \in SUBSET Object
  /\ wrong = FALSE

UniqueInv == PointerTypes /\ PointersHold /\ RawFormed /\ OneEach /\ RawApart /\ AllHeld

\* The two forms of `new`.
LEMMA Forms == \A x : Unique!Form(x) \in {"new", "new[]"} /\ Unique!Form(x) # "free"
  BY Zenon DEF Unique!Form

\* The user creates an object.
LEMMA NewKeeps ==
  ASSUME UniqueInv, NEW o \in Object, Unique!New(o)
  PROVE  UniqueInv'
<1>. USE LibraryAssumption DEF UniqueInv, PointerTypes
<1>1. PointerTypes'
  BY Forms, Zenon DEF Unique!New
<1>2. PointersHold'
  BY Zenon DEF Unique!New, PointersHold
<1>3. RawFormed'
  BY Zenon DEF Unique!New, RawFormed
<1>4. OneEach'
  BY Zenon DEF Unique!New, OneEach
<1>5. RawApart'
  BY Forms DEF Unique!New, PointersHold, RawApart
<1>6. AllHeld'
  BY Zenon DEF Unique!New, AllHeld
<1>. QED BY <1>1, <1>2, <1>3, <1>4, <1>5, <1>6, Zenon

\* unique_ptr() (memory.hpp).
LEMMA ConstructKeeps ==
  ASSUME UniqueInv, NEW p \in Pointer, Unique!Construct(p)
  PROVE  UniqueInv'
<1>. USE LibraryAssumption DEF UniqueInv, PointerTypes
<1>1. PointerTypes'
  BY Zenon DEF Unique!Construct
<1>2. PointersHold'
  BY Zenon DEF Unique!Construct, PointersHold
<1>3. RawFormed'
  BY Zenon DEF Unique!Construct, RawFormed
<1>4. OneEach'
  BY DEF Unique!Construct, OneEach
<1>5. RawApart'
  BY Zenon DEF Unique!Construct, RawApart
<1>6. AllHeld'
  BY Zenon DEF Unique!Construct, AllHeld
<1>. QED BY <1>1, <1>2, <1>3, <1>4, <1>5, <1>6, Zenon

\* unique_ptr(o)
LEMMA ConstructFromKeeps ==
  ASSUME UniqueInv, NEW p \in Pointer, NEW o \in raw,
         Unique!Form(o) = Unique!Form(p), Unique!ConstructFrom(p, o)
  PROVE  UniqueInv'
<1>. USE LibraryAssumption DEF UniqueInv, PointerTypes
<1>1. PointerTypes'
  BY Zenon DEF Unique!ConstructFrom
<1>2. PointersHold'
  BY Zenon DEF Unique!ConstructFrom, PointersHold, RawFormed
<1>3. RawFormed'
  BY Zenon DEF Unique!ConstructFrom, RawFormed
<1>4. OneEach'
  BY DEF Unique!ConstructFrom, OneEach, RawApart
<1>5. RawApart'
  BY Zenon DEF Unique!ConstructFrom, RawApart
<1>6. AllHeld'
  BY Zenon DEF Unique!ConstructFrom, AllHeld
<1>. QED BY <1>1, <1>2, <1>3, <1>4, <1>5, <1>6, Zenon

\* make_unique()
LEMMA MakeUniqueKeeps ==
  ASSUME UniqueInv, NEW p \in Pointer, NEW o \in Object,
         Unique!Form(o) = Unique!Form(p), Unique!make_unique(p, o)
  PROVE  UniqueInv'
<1>. USE LibraryAssumption DEF UniqueInv, PointerTypes
<1>1. PointerTypes'
  BY Forms, Zenon DEF Unique!make_unique
<1>2. PointersHold'
  BY Zenon DEF Unique!make_unique, PointersHold
<1>3. RawFormed'
  BY Zenon DEF Unique!make_unique, RawFormed
<1>4. OneEach'
  BY Forms DEF Unique!make_unique, PointersHold, OneEach
<1>5. RawApart'
  BY Forms DEF Unique!make_unique, RawFormed, RawApart
<1>6. AllHeld'
  BY Zenon DEF Unique!make_unique, AllHeld
<1>. QED BY <1>1, <1>2, <1>3, <1>4, <1>5, <1>6, Zenon

\* unique_ptr(unique_ptr&&)
LEMMA MoveConstructKeeps ==
  ASSUME UniqueInv, NEW p \in Pointer, NEW other \in Pointer,
         p # other, Unique!Form(other) = Unique!Form(p), Unique!MoveConstruct(p, other)
  PROVE  UniqueInv'
<1>. USE LibraryAssumption DEF UniqueInv, PointerTypes
<1>1. PointerTypes'
  BY Zenon DEF Unique!MoveConstruct
<1>2. PointersHold'
  BY Zenon DEF Unique!MoveConstruct, PointersHold
<1>3. RawFormed'
  BY Zenon DEF Unique!MoveConstruct, RawFormed
<1>4. OneEach'
  BY DEF Unique!MoveConstruct, OneEach
<1>5. RawApart'
  BY Zenon DEF Unique!MoveConstruct, RawApart
<1>6. AllHeld'
  BY DEF Unique!MoveConstruct, AllHeld
<1>. QED BY <1>1, <1>2, <1>3, <1>4, <1>5, <1>6, Zenon

\* ~unique_ptr()
LEMMA DestroyKeeps ==
  ASSUME UniqueInv, NEW p \in Pointer, Unique!Destroy(p)
  PROVE  UniqueInv'
<1>. USE LibraryAssumption DEF UniqueInv, PointerTypes
<1>1. PointerTypes'
  BY Zenon DEF Unique!Destroy, Unique!Delete, PointersHold
<1>2. PointersHold'
  BY Zenon DEF Unique!Destroy, Unique!Delete, PointersHold, OneEach
<1>3. RawFormed'
  BY Zenon DEF Unique!Destroy, Unique!Delete, RawFormed, RawApart
<1>4. OneEach'
  BY Zenon DEF Unique!Destroy, Unique!Delete, OneEach
<1>5. RawApart'
  BY Zenon DEF Unique!Destroy, Unique!Delete, RawApart
<1>6. AllHeld'
  BY DEF Unique!Destroy, Unique!Delete, AllHeld
<1>. QED BY <1>1, <1>2, <1>3, <1>4, <1>5, <1>6, Zenon

\* operator=(unique_ptr&&)
LEMMA MoveAssignKeeps ==
  ASSUME UniqueInv, NEW p \in Pointer, NEW other \in Pointer,
         Unique!Form(other) = Unique!Form(p), Unique!MoveAssign(p, other)
  PROVE  UniqueInv'
<1>. USE LibraryAssumption DEF UniqueInv, PointerTypes
<1>1. PointerTypes'
  BY Zenon DEF Unique!MoveAssign, Unique!Delete, PointersHold
<1>2. PointersHold'
  BY Zenon DEF Unique!MoveAssign, Unique!Delete, PointersHold, OneEach
<1>3. RawFormed'
  BY Zenon DEF Unique!MoveAssign, Unique!Delete, RawFormed, RawApart
<1>4. OneEach'
  BY Zenon DEF Unique!MoveAssign, Unique!Delete, OneEach
<1>5. RawApart'
  BY Zenon DEF Unique!MoveAssign, Unique!Delete, RawApart
<1>6. AllHeld'
  BY DEF Unique!MoveAssign, Unique!Delete, AllHeld
<1>. QED BY <1>1, <1>2, <1>3, <1>4, <1>5, <1>6, Zenon

\* reset(null) and reset(o)
LEMMA ResetKeeps ==
  ASSUME UniqueInv, NEW p \in Pointer, NEW o \in raw \cup {null},
         o = null \/ Unique!Form(o) = Unique!Form(p), Unique!reset(p, o)
  PROVE  UniqueInv'
<1>. USE LibraryAssumption DEF UniqueInv, PointerTypes
<1>1. PointerTypes'
  BY Zenon DEF Unique!reset, Unique!Delete, PointersHold
<1>2. PointersHold'
  BY Zenon DEF Unique!reset, Unique!Delete, PointersHold, RawFormed, OneEach, RawApart
<1>3. RawFormed'
  BY Zenon DEF Unique!reset, Unique!Delete, RawFormed, RawApart
<1>4. OneEach'
  BY DEF Unique!reset, Unique!Delete, OneEach, RawApart
<1>5. RawApart'
  BY Zenon DEF Unique!reset, Unique!Delete, RawApart
<1>6. AllHeld'
  BY DEF Unique!reset, Unique!Delete, AllHeld
<1>. QED BY <1>1, <1>2, <1>3, <1>4, <1>5, <1>6, Zenon

\* release()
LEMMA ReleaseKeeps ==
  ASSUME UniqueInv, NEW p \in Pointer, Unique!release(p)
  PROVE  UniqueInv'
<1>. USE LibraryAssumption DEF UniqueInv, PointerTypes
<1>1. PointerTypes'
  BY Zenon DEF Unique!release
<1>2. PointersHold'
  BY Zenon DEF Unique!release, PointersHold
<1>3. RawFormed'
  BY DEF Unique!release, PointersHold, RawFormed
<1>4. OneEach'
  BY Zenon DEF Unique!release, OneEach
<1>5. RawApart'
  BY Zenon DEF Unique!release, OneEach, RawApart
<1>6. AllHeld'
  BY Zenon DEF Unique!release, AllHeld
<1>. QED BY <1>1, <1>2, <1>3, <1>4, <1>5, <1>6, Zenon

\* No unique_ptr and no user of one loses an object, shares it or deletes it
\* twice or by the wrong operator (memory.hpp:92-142, 189-239).
THEOREM ObjectsAlwaysHaveOneHolder == Unique!Spec => []ObjectsHaveOneHolder
<1>1. Unique!Init => UniqueInv
  BY LibraryAssumption, Zenon DEF Unique!Init, UniqueInv, PointerTypes, PointersHold, RawFormed, OneEach, RawApart, AllHeld
<1>2. UniqueInv /\ [Unique!Next]_(Unique!vars) => UniqueInv'
  <2>. SUFFICES ASSUME UniqueInv, [Unique!Next]_(Unique!vars) PROVE UniqueInv'
    BY Zenon
  <2>1. CASE UNCHANGED Unique!vars
    BY <2>1 DEF Unique!vars, UniqueInv, PointerTypes, PointersHold, RawFormed, OneEach, RawApart, AllHeld
  <2>2. CASE Unique!Next
    BY Zenon, <2>2, NewKeeps, ConstructKeeps, ConstructFromKeeps, MakeUniqueKeeps,
       MoveConstructKeeps, DestroyKeeps, MoveAssignKeeps, ResetKeeps,
       ReleaseKeeps DEF Unique!Next
  <2>. QED BY <2>1, <2>2, Zenon
<1>3. UniqueInv => ObjectsHaveOneHolder
  <2>. SUFFICES ASSUME UniqueInv, NEW o \in Object
               PROVE  LET holders == {p \in exists : _object[p] = o}
                      IN  CASE form[o] = "free" -> holders = {} /\ o \notin raw
                            [] form[o] # "free" /\ o \in raw -> holders = {}
                            [] OTHER -> \E p \in exists : holders = {p}
    BY Zenon DEF ObjectsHaveOneHolder, Unique!ObjectsHaveOneHolder, UniqueInv, PointerTypes
  <2>. DEFINE holders == {p \in exists : _object[p] = o}
  <2>1. CASE form[o] = "free"
    BY <2>1, Forms, LibraryAssumption DEF UniqueInv, PointerTypes, PointersHold, RawFormed
  <2>2. CASE form[o] # "free" /\ o \in raw
    BY <2>2, Zenon DEF UniqueInv, RawApart
  <2>3. CASE form[o] # "free" /\ o \notin raw
    <3>1. PICK p \in exists : _object[p] = o
      BY <2>3, Zenon DEF UniqueInv, AllHeld
    <3>2. holders = {p}
      BY <3>1, LibraryAssumption, Zenon DEF UniqueInv, OneEach
    <3>. QED BY <2>3, <3>1, <3>2, Zenon
  <2>. QED BY <2>1, <2>2, <2>3
<1>. QED BY <1>1, <1>2, <1>3, PTL DEF Unique!Spec
=============================================================================
