---------------------------- MODULE Queue_proofs ----------------------------
(* What holds of queue/queue.c for any number of threads and nodes, in every *)
(* interleaving: the pointers describe one list, no node is lost, shared or  *)
(* freed twice, and the whole implements a first-in first-out list.          *)
EXTENDS Queue, TLAPS, SequenceTheorems, WellFoundedInduction

-----------------------------------------------------------------------------
(* Sequences of nodes *)

Distinct(s) == \A i, j \in 1..Len(s) : s[i] = s[j] => i = j
EndOf(s) == s[Len(s)]

\* What Tail and Head leave and take, as the provers need it.
LEMMA TailFacts ==
  ASSUME NEW S, NEW s \in Seq(S), s # <<>>
  PROVE  /\ Len(s) \in Nat \ {0}
         /\ Head(s) = s[1] /\ Head(s) \in S
         /\ Tail(s) \in Seq(S)
         /\ Len(Tail(s)) = Len(s) - 1
         /\ \A i \in 1..(Len(s) - 1) : Tail(s)[i] = s[i + 1]
         /\ Tail(s) = <<>> <=> Len(s) = 1
<1>1. Len(s) \in Nat \ {0}
  BY EmptySeq, LenProperties
<1>2. /\ Head(s) \in S /\ Tail(s) \in Seq(S) /\ Len(Tail(s)) = Len(s) - 1
      /\ \A i \in 1..(Len(s) - 1) : Tail(s)[i] = s[i + 1]
  BY HeadTailProperties
<1>3. Head(s) = s[1]
  BY <1>1
<1>4. Tail(s) = <<>> <=> Len(Tail(s)) = 0
  BY <1>2, EmptySeq
<1> QED
  BY <1>1, <1>2, <1>3, <1>4

\* What Append adds.
LEMMA AppendFacts ==
  ASSUME NEW S, NEW s \in Seq(S), NEW n \in S
  PROVE  /\ Len(s) \in Nat
         /\ Append(s, n) \in Seq(S) /\ Append(s, n) # <<>>
         /\ Len(Append(s, n)) = Len(s) + 1
         /\ \A i \in 1..Len(s) : Append(s, n)[i] = s[i]
         /\ Append(s, n)[Len(s) + 1] = n
         /\ s # <<>> => Head(Append(s, n)) = Head(s)
         /\ s = <<>> => Head(Append(s, n)) = n
  BY LenProperties, AppendProperties, HeadTailAppend

\* The nodes of a sequence with one node more.
LEMMA ElemsAppend ==
  ASSUME NEW S, NEW s \in Seq(S), NEW n \in S
  PROVE  /\ Elems(Append(s, n)) = Elems(s) \cup {n}
         /\ Distinct(s) /\ n \notin Elems(s) => Distinct(Append(s, n))
<1> DEFINE a == Append(s, n)
<1>1. /\ Len(s) \in Nat /\ Len(a) = Len(s) + 1
      /\ \A i \in 1..Len(s) : a[i] = s[i]
      /\ a[Len(s) + 1] = n
  BY AppendFacts
<1> HIDE DEF a
<1>2. Elems(a) = Elems(s) \cup {n}
  BY <1>1 DEF Elems
<1>3. ASSUME Distinct(s), n \notin Elems(s)
      PROVE  Distinct(a)
  <2>1. \A i \in 1..Len(s) : s[i] # n
    BY <1>3 DEF Elems
  <2> QED
    BY <1>1, <1>3, <2>1 DEF Distinct
<1> QED
  BY <1>2, <1>3 DEF a

\* The nodes of a sequence without its first.
LEMMA ElemsTail ==
  ASSUME NEW S, NEW s \in Seq(S), s # <<>>
  PROVE  /\ Elems(s) = Elems(Tail(s)) \cup {Head(s)}
         /\ Distinct(s) => Distinct(Tail(s)) /\ Head(s) \notin Elems(Tail(s))
<1> DEFINE a == Tail(s)
           h == Head(s)
<1>1. /\ Len(s) \in Nat \ {0} /\ Len(a) = Len(s) - 1 /\ h = s[1]
      /\ \A i \in 1..(Len(s) - 1) : a[i] = s[i + 1]
  BY TailFacts
<1> HIDE DEF a, h
<1>2. Elems(s) \subseteq Elems(a) \cup {h}
  <2> SUFFICES ASSUME NEW i \in 1..Len(s) PROVE s[i] \in Elems(a) \cup {h}
    BY DEF Elems
  <2>1. CASE i = 1
    BY <1>1, <2>1
  <2>2. CASE i # 1
    <3>1. i - 1 \in 1..Len(a) /\ a[i - 1] = s[i]
      BY <1>1, <2>2
    <3> QED
      BY <3>1 DEF Elems
  <2> QED
    BY <2>1, <2>2
<1>3. Elems(a) \cup {h} \subseteq Elems(s)
  BY <1>1 DEF Elems
<1>4. ASSUME Distinct(s)
      PROVE  Distinct(a) /\ h \notin Elems(a)
  BY <1>1, <1>4 DEF Distinct, Elems
<1> QED
  BY <1>2, <1>3, <1>4 DEF a, h

\* The empty sequence has no node.
LEMMA ElemsEmpty == Elems(<<>>) = {} /\ Distinct(<<>>)
  BY DEF Elems, Distinct

-----------------------------------------------------------------------------
(* Who owns a node: the list, or the one thread that has to free it *)

Own(s, d, h) ==
    /\ s \in Seq(Nodes) /\ d \in [Threads -> Seq(Nodes)]
    /\ Distinct(s)
    /\ \A t \in Threads : /\ Distinct(d[t])
                          /\ \A x \in Elems(d[t]) :
                               /\ x \notin Elems(s)
                               /\ \A u \in Threads \ {t} : x \notin Elems(d[u])
    /\ \A x : x \in h <=> x \in Elems(s) \/ \E t \in Threads : x \in Elems(d[t])

\* Own is what NoSharedNode and the first part of HeapExact say.
LEMMA OwnMeaning ==
  ASSUME TypeOK
  PROVE  Own(q, det, heap) <=>
           /\ NoSharedNode
           /\ heap = Elems(q) \cup UNION {Elems(det[t]) : t \in Threads}
<1> DEFINE U == UNION {Elems(det[t]) : t \in Threads}
<1>1. \A x : x \in U <=> \E t \in Threads : x \in Elems(det[t])
  OBVIOUS
<1> HIDE DEF U
<1>2. heap = Elems(q) \cup U <=>
        \A x : x \in heap <=> x \in Elems(q) \/ \E t \in Threads : x \in Elems(det[t])
  BY <1>1
<1>3. NoSharedNode <=>
        /\ Distinct(q)
        /\ \A t \in Threads : /\ Distinct(det[t])
                              /\ \A x \in Elems(det[t]) :
                                   /\ x \notin Elems(q)
                                   /\ \A u \in Threads \ {t} : x \notin Elems(det[u])
  <2>1. \A A, B : A \cap B = {} <=> \A x \in A : x \notin B
    OBVIOUS
  <2> QED
    BY <2>1, Zenon DEF NoSharedNode, Distinct
<1>4. q \in Seq(Nodes) /\ det \in [Threads -> Seq(Nodes)]
  BY DEF TypeOK
<1> QED
  BY <1>2, <1>3, <1>4, Zenon DEF Own, U

\* malloc: a node nobody owned becomes the last of the list.
LEMMA OwnAdd ==
  ASSUME NEW s, NEW d, NEW h, Own(s, d, h), NEW n \in Nodes, n \notin h
  PROVE  Own(Append(s, n), d, h \cup {n})
<1>1. n \notin Elems(s) /\ \A t \in Threads : n \notin Elems(d[t])
  BY DEF Own
<1>2. /\ Append(s, n) \in Seq(Nodes)
      /\ Elems(Append(s, n)) = Elems(s) \cup {n}
      /\ Distinct(Append(s, n))
  BY <1>1, ElemsAppend, AppendFacts DEF Own
<1> QED
  BY <1>1, <1>2 DEF Own

\* The first node of the list goes to thread t.
LEMMA OwnMove ==
  ASSUME NEW s, NEW d, NEW h, Own(s, d, h), s # <<>>, NEW t \in Threads
  PROVE  Own(Tail(s), [d EXCEPT ![t] = Append(d[t], Head(s))], h)
<1> DEFINE e == [d EXCEPT ![t] = Append(d[t], Head(s))]
           n == Head(s)
           r == Tail(s)
<1>1. /\ n \in Nodes /\ r \in Seq(Nodes)
      /\ Elems(s) = Elems(r) \cup {n} /\ n \notin Elems(r) /\ Distinct(r)
  BY ElemsTail, TailFacts DEF Own
<1>2. d[t] \in Seq(Nodes) /\ n \notin Elems(d[t]) /\ Distinct(d[t])
  BY <1>1 DEF Own
<1>3. /\ Append(d[t], n) \in Seq(Nodes) /\ Distinct(Append(d[t], n))
      /\ Elems(Append(d[t], n)) = Elems(d[t]) \cup {n}
  BY <1>1, <1>2, ElemsAppend, AppendFacts
<1>4. /\ e \in [Threads -> Seq(Nodes)]
      /\ e[t] = Append(d[t], n)
      /\ \A u \in Threads \ {t} : e[u] = d[u]
  BY <1>3 DEF Own
<1> HIDE DEF e, n, r
<1>5. Own(r, e, h)
  BY <1>1, <1>2, <1>3, <1>4, ZenonT(30) DEF Own
<1> QED
  BY <1>5 DEF e, n, r

\* The whole list goes to thread t, which owned nothing.
LEMMA OwnMoveAll ==
  ASSUME NEW s, NEW d, NEW h, Own(s, d, h), NEW t \in Threads, d[t] = <<>>
  PROVE  Own(<<>>, [d EXCEPT ![t] = s], h)
<1> DEFINE e == [d EXCEPT ![t] = s]
<1>1. /\ e \in [Threads -> Seq(Nodes)] /\ e[t] = s
      /\ \A u \in Threads \ {t} : e[u] = d[u]
  BY DEF Own
<1>2. <<>> \in Seq(Nodes) /\ Elems(<<>>) = {} /\ Distinct(<<>>)
  BY ElemsEmpty
<1> HIDE DEF e
<1>3. Own(<<>>, e, h)
  BY <1>1, <1>2 DEF Own
<1> QED
  BY <1>3 DEF e

\* free: the first node of thread t goes back to the heap.
LEMMA OwnFree ==
  ASSUME NEW s, NEW d, NEW h, Own(s, d, h), NEW t \in Threads, d[t] # <<>>
  PROVE  Own(s, [d EXCEPT ![t] = Tail(d[t])], h \ {Head(d[t])})
<1> DEFINE e == [d EXCEPT ![t] = Tail(d[t])]
           n == Head(d[t])
<1>1. /\ n \in Nodes /\ Tail(d[t]) \in Seq(Nodes)
      /\ Elems(d[t]) = Elems(Tail(d[t])) \cup {n} /\ n \notin Elems(Tail(d[t]))
      /\ Distinct(Tail(d[t]))
  BY ElemsTail, TailFacts DEF Own
<1>2. /\ e \in [Threads -> Seq(Nodes)] /\ e[t] = Tail(d[t])
      /\ \A u \in Threads \ {t} : e[u] = d[u]
  BY <1>1 DEF Own
<1> HIDE DEF e, n
<1>3. Own(s, e, h \ {n})
  BY <1>1, <1>2 DEF Own
<1> QED
  BY <1>3 DEF e, n

-----------------------------------------------------------------------------
(* Chains of next links *)

Linked(s, nx) == \A i \in 1..(Len(s) - 1) : nx[s[i]] = s[i + 1]

\* No node, no link.
LEMMA LinkedEmpty == \A nx : Linked(<<>>, nx)
<1>1. Len(<<>>) = 0
  OBVIOUS
<1> QED
  BY <1>1 DEF Linked

\* The last node of a chain is one of its nodes.
LEMMA EndIsElem ==
  ASSUME NEW S, NEW s \in Seq(S), s # <<>>
  PROVE  /\ EndOf(s) \in Elems(s) /\ EndOf(s) \in S
         /\ Head(s) \in Elems(s)
<1>1. Len(s) \in Nat \ {0} /\ Head(s) = s[1] /\ s \in [1..Len(s) -> S]
  BY TailFacts, LenProperties
<1> QED
  BY <1>1 DEF EndOf, Elems

\* A chain stays one as long as the next links of its own nodes are left alone.
LEMMA LinkedFrame ==
  ASSUME NEW S, NEW s \in Seq(S), NEW nx, NEW ny, Linked(s, nx),
         \A x \in Elems(s) : ny[x] = nx[x]
  PROVE  Linked(s, ny)
<1>1. Len(s) \in Nat
  BY LenProperties
<1> QED
  BY <1>1 DEF Linked, Elems

\* Without its first node: that node links to the new first one, or to whatever
\* the chain ended in.
LEMMA LinkedTail ==
  ASSUME NEW S, NEW s \in Seq(S), s # <<>>, NEW nx, Linked(s, nx)
  PROVE  /\ Linked(Tail(s), nx)
         /\ Tail(s) # <<>> => /\ EndOf(Tail(s)) = EndOf(s)
                              /\ nx[Head(s)] = Head(Tail(s))
         /\ Tail(s) = <<>> => EndOf(s) = Head(s)
<1> DEFINE a == Tail(s)
<1>1. /\ Len(s) \in Nat \ {0} /\ Len(a) = Len(s) - 1 /\ Head(s) = s[1]
      /\ \A i \in 1..(Len(s) - 1) : a[i] = s[i + 1]
      /\ a = <<>> <=> Len(s) = 1
      /\ a \in Seq(S)
  BY TailFacts
<1>2. a # <<>> => Head(a) = a[1] /\ Len(a) # 0
  BY <1>1, TailFacts
<1> HIDE DEF a
<1> QED
  <2>1. Linked(a, nx)
    BY <1>1, SMTT(30) DEF Linked
  <2>2. a # <<>> => EndOf(a) = EndOf(s) /\ nx[Head(s)] = Head(a)
    BY <1>1, <1>2 DEF Linked, EndOf
  <2>3. a = <<>> => EndOf(s) = Head(s)
    BY <1>1 DEF EndOf
  <2> QED
    BY <2>1, <2>2, <2>3 DEF a

\* A node that the last one links to prolongs the chain.
LEMMA LinkedAppend ==
  ASSUME NEW S, NEW s \in Seq(S), NEW n \in S, NEW nx, Linked(s, nx),
         s # <<>> => nx[EndOf(s)] = n
  PROVE  Linked(Append(s, n), nx) /\ EndOf(Append(s, n)) = n
<1> DEFINE a == Append(s, n)
<1>1. /\ Len(s) \in Nat /\ Len(a) = Len(s) + 1
      /\ \A i \in 1..Len(s) : a[i] = s[i]
      /\ a[Len(s) + 1] = n
  BY AppendFacts
<1>2. s # <<>> <=> Len(s) # 0
  BY <1>1, EmptySeq
<1> HIDE DEF a
<1>3. Linked(a, nx)
  <2> SUFFICES ASSUME NEW i \in 1..(Len(a) - 1) PROVE nx[a[i]] = a[i + 1]
    BY DEF Linked
  <2>1. CASE i < Len(s)
    BY <1>1, <2>1 DEF Linked
  <2>2. CASE i = Len(s)
    BY <1>1, <1>2, <2>2 DEF EndOf
  <2> QED
    BY <1>1, <2>1, <2>2
<1>4. EndOf(a) = n
  BY <1>1 DEF EndOf
<1> QED
  BY <1>3, <1>4 DEF a

-----------------------------------------------------------------------------
(* The inductive invariant *)

\* What thread t still has to free is a chain of its own, cut off at its end except
\* while ConditionDeleteQueue works on it: there last[t] stands at its end.
Detached(t) ==
    /\ Linked(det[t], next)
    /\ pc[t] \in {"idle", "clear"} => det[t] = <<>>
    /\ pc[t] \in {"drop", "walk", "terminate"} =>
         det[t] # <<>> /\ cur[t] = Head(det[t])
    /\ pc[t] = "drop" => Len(det[t]) = 1
    /\ pc[t] = "clearing" => cur[t] = IF det[t] = <<>> THEN NULL ELSE Head(det[t])
    /\ pc[t] \in {"walk", "clearing"} /\ det[t] # <<>> => next[EndOf(det[t])] = NULL
    /\ pc[t] \in {"cond", "terminate"} =>
         last[t] = IF det[t] = <<>> THEN NULL ELSE EndOf(det[t])
    /\ pc[t] = "cond" =>
         /\ cur[t] = IF det[t] = <<>> THEN front ELSE Head(det[t])
         /\ det[t] # <<>> => next[EndOf(det[t])] = front

\* The list, as ListIntact has it; while ClearQueue frees its nodes it is empty.
List == /\ ~Clearing => /\ size = Len(q)
                        /\ front = IF q = <<>> THEN NULL ELSE Head(q)
        /\ q # <<>> => /\ ~Clearing
                       /\ rear = EndOf(q)
                       /\ next[rear] = NULL
        /\ Linked(q, next)

IInv == /\ TypeOK /\ List /\ FixBound
        /\ Own(q, det, heap)
        /\ \A t \in Threads : Detached(t)

\* The invariant says what the three checked ones say, and more.
LEMMA Implied == IInv => ListIntact /\ HeapExact /\ FixBound
<1> SUFFICES ASSUME IInv PROVE ListIntact /\ HeapExact
  BY DEF IInv
<1>1. TypeOK /\ List /\ Own(q, det, heap)
  BY DEF IInv
<1>2. ListIntact
  BY <1>1 DEF List, ListIntact, Linked, EndOf
<1>3. NoSharedNode /\ heap = Elems(q) \cup UNION {Elems(det[t]) : t \in Threads}
  BY <1>1, OwnMeaning
<1>4. ASSUME NEW t \in Threads
      PROVE  /\ pc[t] \in {"drop", "walk", "terminate", "clearing"} =>
                   cur[t] = IF det[t] = <<>> THEN NULL ELSE Head(det[t])
             /\ pc[t] \in {"drop", "walk", "terminate"} => det[t] # <<>>
             /\ pc[t] \in {"idle", "clear"} => det[t] = <<>>
  <2>1. Detached(t)
    BY DEF IInv
  <2> QED
    BY <2>1 DEF Detached
<1> QED
  BY <1>1, <1>2, <1>3, <1>4 DEF HeapExact

\* The program starts in the invariant.
LEMMA InitInv == Init => IInv
<1> SUFFICES ASSUME Init PROVE IInv
  OBVIOUS
<1>0. AnyTime \in Times
  BY TimeAssumption DEF AnyTime
<1>1. TypeOK
  BY <1>0, NullAssumption DEF Init, TypeOK, Pointers, Steps
<1>2. List
  BY DEF Init, List, Linked
<1>3. FixBound
  BY SizeAssumption DEF Init, FixBound
<1>4. Own(q, det, heap)
  BY ElemsEmpty DEF Init, Own
<1>5. \A t \in Threads : Detached(t)
  BY DEF Init, Detached, Linked
<1> QED
  BY <1>1, <1>2, <1>3, <1>4, <1>5 DEF IInv

\* A thread that takes no step keeps its chain, unless somebody touches its nodes.
LEMMA OtherDetached ==
  ASSUME TypeOK, NEW u \in Threads, Detached(u),
         pc'[u] = pc[u], det'[u] = det[u], cur'[u] = cur[u], last'[u] = last[u],
         \A x \in Elems(det[u]) : next'[x] = next[x],
         pc[u] = "cond" => front' = front
  PROVE  Detached(u)'
<1>1. det[u] \in Seq(Nodes)
  BY DEF TypeOK
<1>2. Linked(det[u], next')
  BY <1>1, LinkedFrame DEF Detached
<1>3. det[u] # <<>> => next'[EndOf(det[u])] = next[EndOf(det[u])]
  BY <1>1, EndIsElem
<1> QED
  BY <1>2, <1>3 DEF Detached

-----------------------------------------------------------------------------
(* One lemma per action: it keeps the invariant *)

\* With q_lock free no thread is in the middle of the list, and size and front
\* are those of the list.
LEMMA Unlocked ==
  ASSUME IInv, lock = NULL
  PROVE  /\ ~Clearing
         /\ size = Len(q) /\ (IsEmpty <=> q = <<>>)
         /\ front = IF q = <<>> THEN NULL ELSE Head(q)
         /\ \A t \in Threads : pc[t] \notin {"cond", "clearing"}
<1>1. ~Clearing
  BY DEF Clearing
<1>2. \A t \in Threads : pc[t] \notin {"cond", "clearing"}
  BY NullAssumption DEF IInv, TypeOK
<1>3. q \in Seq(Nodes)
  BY DEF IInv, TypeOK
<1>4. size = Len(q) /\ front = IF q = <<>> THEN NULL ELSE Head(q)
  BY <1>1 DEF IInv, List
<1> QED
  BY <1>1, <1>2, <1>3, <1>4, EmptySeq DEF IsEmpty

\* malloc and the link behind rear: one chain with one node more.
LEMMA LinkStep ==
  ASSUME IInv, lock = NULL, NEW n \in Nodes, n \notin heap, NEW v \in Times, Link(n, v)
  PROVE  /\ next' \in [Nodes -> Pointers] /\ val' \in [Nodes -> Times]
         /\ heap' = heap \cup {n} /\ heap' \subseteq Nodes /\ rear' = n
         /\ Own(Append(q, n), det, heap')
         /\ Linked(Append(q, n), next') /\ EndOf(Append(q, n)) = n
         /\ next'[n] = NULL
         /\ \A u \in Threads : \A x \in Elems(det[u]) : next'[x] = next[x]
<1>0. /\ TypeOK /\ List /\ Own(q, det, heap)
      /\ q \in Seq(Nodes) /\ heap \subseteq Nodes
      /\ next \in [Nodes -> Pointers] /\ val \in [Nodes -> Times]
  BY DEF IInv, TypeOK
<1>1. /\ heap' = heap \cup {n} /\ rear' = n
      /\ val' = [val EXCEPT ![n] = v]
      /\ next' = [m \in Nodes |-> IF m = n THEN NULL
                                  ELSE IF ~IsEmpty /\ m = rear THEN n ELSE next[m]]
  BY DEF Link
<1>2. next' \in [Nodes -> Pointers] /\ val' \in [Nodes -> Times] /\ heap' \subseteq Nodes
  BY <1>0, <1>1 DEF Pointers
<1>3. Own(Append(q, n), det, heap')
  BY <1>0, <1>1, OwnAdd
<1>4. ~IsEmpty <=> q # <<>>
  BY Unlocked
<1>5. n \notin Elems(q) /\ \A u \in Threads : n \notin Elems(det[u])
  BY <1>0 DEF Own
<1>6. q # <<>> => rear = EndOf(q) /\ rear \in Elems(q) /\ rear \in Nodes
  BY <1>0, EndIsElem DEF List
<1>7. \A u \in Threads : \A x \in Elems(det[u]) : x \in Nodes /\ next'[x] = next[x]
  <2>1. \A u \in Threads : \A x \in Elems(det[u]) : x \in heap /\ x \notin Elems(q)
    BY <1>0 DEF Own
  <2> QED
    BY <2>1, <1>0, <1>1, <1>4, <1>5, <1>6
<1>8. Linked(q, next') /\ (q # <<>> => next'[EndOf(q)] = n)
  <2>1. q # <<>> => next'[EndOf(q)] = n
    BY <1>1, <1>4, <1>5, <1>6
  <2>2. Linked(q, next')
    <3> SUFFICES ASSUME NEW i \in 1..(Len(q) - 1) PROVE next'[q[i]] = q[i + 1]
      BY DEF Linked
    <3>1. Len(q) \in Nat /\ q \in [1..Len(q) -> Nodes]
      BY <1>0, LenProperties
    <3>2. q # <<>>
      BY <3>1, EmptySeq
    <3>3. q[i] \in Nodes /\ q[i] # n
      BY <3>1, <1>5 DEF Elems
    <3>4. q[i] # rear
      BY <3>1, <3>2, <1>0, <1>6 DEF Own, Distinct, EndOf
    <3>5. next'[q[i]] = next[q[i]]
      BY <3>3, <3>4, <1>1
    <3> QED
      BY <3>5, <1>0 DEF List, Linked
  <2> QED
    BY <2>1, <2>2
<1>9. Linked(Append(q, n), next') /\ EndOf(Append(q, n)) = n
  BY <1>0, <1>8, LinkedAppend
<1> QED
  BY <1>1, <1>2, <1>3, <1>7, <1>9

\* EnQueue: the list grows by a node at its end.
LEMMA EnQueueInv ==
  ASSUME IInv, NEW t \in Threads, NEW n \in Nodes, NEW v \in Times, EnQueue(t, n, v)
  PROVE  IInv'
<1>0. /\ lock = NULL /\ kind = "plain" /\ n \notin heap /\ Link(n, v)
      /\ front' = IF IsEmpty THEN n ELSE front
      /\ size' = size + 1 /\ q' = Append(q, n)
      /\ UNCHANGED <<lock, pc, cur, last, ts, kind, det>>
  BY DEF EnQueue, Begin
<1>1. /\ next' \in [Nodes -> Pointers] /\ val' \in [Nodes -> Times]
      /\ heap' \subseteq Nodes /\ rear' = n
      /\ Own(Append(q, n), det, heap')
      /\ Linked(Append(q, n), next') /\ EndOf(Append(q, n)) = n
      /\ next'[n] = NULL
      /\ \A u \in Threads : \A x \in Elems(det[u]) : next'[x] = next[x]
  BY <1>0, LinkStep
<1>2. TypeOK /\ List /\ q \in Seq(Nodes)
  BY DEF IInv, TypeOK
<1>3. /\ ~Clearing /\ size = Len(q) /\ (IsEmpty <=> q = <<>>)
      /\ front = IF q = <<>> THEN NULL ELSE Head(q)
      /\ \A u \in Threads : pc[u] \notin {"cond", "clearing"}
  BY <1>0, Unlocked
<1>4. /\ q' \in Seq(Nodes) /\ q' # <<>> /\ Len(q') = Len(q) + 1
      /\ Head(q') = IF q = <<>> THEN n ELSE Head(q)
  BY <1>0, <1>2, AppendFacts
<1>5. TypeOK'
  BY <1>0, <1>1, <1>2, <1>4 DEF TypeOK, Pointers
<1>6. List'
  <2>1. ~Clearing'
    BY <1>0, <1>3 DEF Clearing
  <2>2. size' = Len(q') /\ front' = Head(q')
    BY <1>0, <1>3, <1>4
  <2>3. rear' = EndOf(q') /\ next'[rear'] = NULL /\ Linked(q', next')
    BY <1>0, <1>1
  <2> QED
    BY <1>4, <2>1, <2>2, <2>3 DEF List
<1>7. FixBound'
  BY <1>0 DEF FixBound
<1>8. ASSUME NEW u \in Threads PROVE Detached(u)'
  BY <1>0, <1>1, <1>2, <1>3, OtherDetached DEF IInv
<1> QED
  BY <1>0, <1>1, <1>5, <1>6, <1>7, <1>8 DEF IInv

\* Of an idle thread that takes one node: the node is all it has to free.
LEMMA TakenDetached ==
  ASSUME NEW t \in Threads, NEW x \in Nodes,
         pc'[t] = "drop", det'[t] = <<x>>, cur'[t] = x
  PROVE  Detached(t)'
<1>1. Len(<<x>>) = 1 /\ Head(<<x>>) = x /\ <<x>> # <<>>
  OBVIOUS
<1>2. Linked(<<x>>, next')
  BY <1>1 DEF Linked
<1> QED
  BY <1>1, <1>2 DEF Detached

\* FixEnQueue below fix_size: the same.
LEMMA FixEnQueueGrows ==
  ASSUME IInv, NEW t \in Threads, NEW n \in Nodes, NEW v \in Times,
         FixEnQueue(t, n, v), ~Full
  PROVE  IInv'
<1>0. /\ lock = NULL /\ kind = "fix" /\ n \notin heap /\ Link(n, v)
      /\ front' = IF IsEmpty THEN n ELSE front
      /\ size' = size + 1 /\ q' = Append(q, n)
      /\ UNCHANGED <<lock, pc, cur, last, ts, kind, det>>
  BY DEF FixEnQueue, Begin
<1>1. /\ next' \in [Nodes -> Pointers] /\ val' \in [Nodes -> Times]
      /\ heap' \subseteq Nodes /\ rear' = n
      /\ Own(Append(q, n), det, heap')
      /\ Linked(Append(q, n), next') /\ EndOf(Append(q, n)) = n
      /\ next'[n] = NULL
      /\ \A u \in Threads : \A x \in Elems(det[u]) : next'[x] = next[x]
  BY <1>0, LinkStep
<1>2. TypeOK /\ List /\ FixBound /\ q \in Seq(Nodes)
  BY DEF IInv, TypeOK
<1>3. /\ ~Clearing /\ size = Len(q) /\ (IsEmpty <=> q = <<>>)
      /\ front = IF q = <<>> THEN NULL ELSE Head(q)
      /\ \A u \in Threads : pc[u] \notin {"cond", "clearing"}
  BY <1>0, Unlocked
<1>4. /\ q' \in Seq(Nodes) /\ q' # <<>> /\ Len(q') = Len(q) + 1
      /\ Head(q') = IF q = <<>> THEN n ELSE Head(q)
  BY <1>0, <1>2, AppendFacts
<1>5. TypeOK'
  BY <1>0, <1>1, <1>2, <1>4 DEF TypeOK, Pointers
<1>6. List'
  <2>1. ~Clearing'
    BY <1>0, <1>3 DEF Clearing
  <2>2. size' = Len(q') /\ front' = Head(q')
    BY <1>0, <1>3, <1>4
  <2>3. rear' = EndOf(q') /\ next'[rear'] = NULL /\ Linked(q', next')
    BY <1>0, <1>1
  <2> QED
    BY <1>4, <2>1, <2>2, <2>3 DEF List
<1>7. FixBound'
  <2>1. size \in Nat /\ size <= FixSize /\ size # FixSize
    BY <1>0, <1>2 DEF FixBound, Full, TypeOK
  <2> QED
    BY <1>0, <2>1, SizeAssumption DEF FixBound
<1>8. ASSUME NEW u \in Threads PROVE Detached(u)'
  BY <1>0, <1>1, <1>2, <1>3, OtherDetached DEF IInv
<1> QED
  BY <1>0, <1>1, <1>5, <1>6, <1>7, <1>8 DEF IInv

\* FixEnQueue at fix_size: the oldest node leaves in the same step, with the caller.
LEMMA FixEnQueueDrops ==
  ASSUME IInv, NEW t \in Threads, NEW n \in Nodes, NEW v \in Times,
         FixEnQueue(t, n, v), Full
  PROVE  IInv'
<1>a. /\ pc[t] = "idle" /\ lock = NULL /\ kind = "fix" /\ n \notin heap /\ Link(n, v)
      /\ front' = next'[IF IsEmpty THEN n ELSE front]
      /\ cur' = [cur EXCEPT ![t] = IF IsEmpty THEN n ELSE front]
      /\ pc' = [pc EXCEPT ![t] = "drop"]
      /\ q' = Append(Tail(q), n)
      /\ det' = [det EXCEPT ![t] = <<Head(q)>>]
      /\ UNCHANGED <<size, lock, last, ts, kind>>
  BY DEF FixEnQueue, Begin
<1>1. /\ next' \in [Nodes -> Pointers] /\ val' \in [Nodes -> Times]
      /\ heap' = heap \cup {n} /\ heap' \subseteq Nodes /\ rear' = n
      /\ Linked(Append(q, n), next') /\ EndOf(Append(q, n)) = n
      /\ next'[n] = NULL
      /\ \A u \in Threads : \A x \in Elems(det[u]) : next'[x] = next[x]
  BY <1>a, LinkStep
<1>2. TypeOK /\ List /\ FixBound /\ Own(q, det, heap) /\ q \in Seq(Nodes)
  BY DEF IInv, TypeOK
<1>3. /\ ~Clearing /\ size = Len(q) /\ (IsEmpty <=> q = <<>>)
      /\ front = IF q = <<>> THEN NULL ELSE Head(q)
      /\ \A u \in Threads : pc[u] \notin {"cond", "clearing"}
  BY <1>a, Unlocked
<1>4. q # <<>> /\ size # 0
  BY <1>3, SizeAssumption DEF Full, IsEmpty
<1>5. /\ Head(q) \in Nodes /\ Tail(q) \in Seq(Nodes) /\ Len(Tail(q)) = Len(q) - 1
      /\ Len(q) \in Nat \ {0}
  BY <1>2, <1>4, TailFacts
<1>0. front' = next'[Head(q)] /\ cur' = [cur EXCEPT ![t] = Head(q)]
  BY <1>a, <1>3, <1>4
<1>6. /\ q' \in Seq(Nodes) /\ q' # <<>> /\ Len(q') = Len(q)
  BY <1>a, <1>5, AppendFacts
<1>7. /\ Linked(q', next') /\ EndOf(q') = n /\ front' = Head(q')
  <2>1. /\ Append(q, n) \in Seq(Nodes) /\ Append(q, n) # <<>>
        /\ Head(Append(q, n)) = Head(q)
    BY <1>2, <1>4, AppendFacts
  <2>2. Tail(Append(q, n)) = q'
    BY <1>a, <1>2, <1>4, HeadTailAppend
  <2> QED
    BY <2>1, <2>2, <1>0, <1>1, <1>6, LinkedTail
<1>8. det[t] = <<>>
  BY <1>a DEF IInv, Detached
<1>9. det' \in [Threads -> Seq(Nodes)] /\ Own(q', det', heap')
  <2>1. Append(det[t], Head(q)) = <<Head(q)>>
    BY <1>8
  <2>2. Own(Tail(q), det', heap)
    BY <2>1, <1>a, <1>2, <1>4, OwnMove
  <2>3. Own(q', det', heap')
    BY <2>2, <1>a, <1>1, OwnAdd
  <2> QED
    BY <2>3 DEF Own
<1>10. TypeOK'
  <2>1. front' \in Pointers /\ rear' \in Pointers
    BY <1>0, <1>1, <1>5 DEF Pointers
  <2>2. cur' \in [Threads -> Pointers] /\ pc' \in [Threads -> Steps]
    BY <1>0, <1>a, <1>2, <1>5 DEF TypeOK, Pointers, Steps
  <2>3. \A u \in Threads : pc'[u] \in {"cond", "clearing"} <=> lock' = u
    BY <1>a, <1>2 DEF TypeOK
  <2> QED
    BY <2>1, <2>2, <2>3, <1>a, <1>1, <1>2, <1>6, <1>9 DEF TypeOK
<1>11. List'
  <2>1. ~Clearing'
    BY <1>a DEF Clearing
  <2> QED
    BY <2>1, <1>a, <1>1, <1>3, <1>6, <1>7 DEF List
<1>12. FixBound'
  BY <1>a, <1>2 DEF FixBound
<1>13. ASSUME NEW u \in Threads PROVE Detached(u)'
  <2>1. CASE u = t
    <3>1. pc'[t] = "drop" /\ det'[t] = <<Head(q)>> /\ cur'[t] = Head(q)
      BY <1>0, <1>a, <1>2 DEF TypeOK
    <3> QED
      BY <2>1, <3>1, <1>5, TakenDetached
  <2>2. CASE u # t
    BY <2>2, <1>0, <1>a, <1>1, <1>2, <1>3, OtherDetached DEF IInv, TypeOK
  <2> QED
    BY <2>1, <2>2
<1> QED
  BY <1>9, <1>10, <1>11, <1>12, <1>13 DEF IInv

\* DeQueue: the first node leaves with the caller.
LEMMA DeQueueInv ==
  ASSUME IInv, NEW t \in Threads, DeQueue(t)
  PROVE  IInv'
<1>0. /\ pc[t] = "idle" /\ lock = NULL /\ ~IsEmpty
      /\ cur' = [cur EXCEPT ![t] = front]
      /\ size' = size - 1 /\ front' = next[front]
      /\ rear' = IF size' = 0 THEN NULL ELSE rear
      /\ pc' = [pc EXCEPT ![t] = "drop"]
      /\ q' = Tail(q) /\ det' = [det EXCEPT ![t] = <<Head(q)>>]
      /\ UNCHANGED <<next, val, heap, lock, last, ts, kind>>
  BY DEF DeQueue, Begin
<1>2. TypeOK /\ List /\ FixBound /\ Own(q, det, heap) /\ q \in Seq(Nodes)
  BY DEF IInv, TypeOK
<1>3. /\ ~Clearing /\ size = Len(q) /\ (IsEmpty <=> q = <<>>)
      /\ front = IF q = <<>> THEN NULL ELSE Head(q)
      /\ \A u \in Threads : pc[u] \notin {"cond", "clearing"}
  BY <1>0, Unlocked
<1>4. q # <<>> /\ front = Head(q)
  BY <1>0, <1>3
<1>5. /\ Head(q) \in Nodes /\ q' \in Seq(Nodes) /\ Len(q') = Len(q) - 1
      /\ Len(q) \in Nat \ {0} /\ (q' = <<>> <=> Len(q) = 1)
  BY <1>0, <1>2, <1>4, TailFacts
<1>6. /\ Linked(q', next)
      /\ q' # <<>> => EndOf(q') = EndOf(q) /\ front' = Head(q')
      /\ q' = <<>> => front' = NULL
  <2>1. Linked(q, next) /\ rear = EndOf(q) /\ next[rear] = NULL
    BY <1>2, <1>4 DEF List
  <2> QED
    BY <2>1, <1>0, <1>2, <1>4, LinkedTail
<1>8. det[t] = <<>>
  BY <1>0 DEF IInv, Detached
<1>9. Own(q', det', heap')
  <2>1. Append(det[t], Head(q)) = <<Head(q)>>
    BY <1>8
  <2> QED
    BY <2>1, <1>0, <1>2, <1>4, OwnMove
<1>10. TypeOK'
  <2>1. front' \in Pointers /\ rear' \in Pointers /\ size' \in Nat
    BY <1>0, <1>2, <1>3, <1>4, <1>5 DEF TypeOK, Pointers
  <2>2. cur' \in [Threads -> Pointers] /\ pc' \in [Threads -> Steps]
    BY <1>0, <1>2, <1>4, <1>5 DEF TypeOK, Pointers, Steps
  <2>3. \A u \in Threads : pc'[u] \in {"cond", "clearing"} <=> lock' = u
    BY <1>0, <1>2 DEF TypeOK
  <2>4. det' \in [Threads -> Seq(Nodes)]
    BY <1>9 DEF Own
  <2> QED
    BY <2>1, <2>2, <2>3, <2>4, <1>0, <1>2, <1>5 DEF TypeOK
<1>11. List'
  <2>1. ~Clearing'
    BY <1>0 DEF Clearing
  <2>2. size' = Len(q')
    BY <1>0, <1>3, <1>5
  <2>3. q' # <<>> => rear' = EndOf(q') /\ next'[rear'] = NULL
    BY <1>0, <1>2, <1>3, <1>4, <1>5, <1>6 DEF List
  <2> QED
    BY <2>1, <2>2, <2>3, <1>0, <1>6 DEF List
<1>12. FixBound'
  BY <1>0, <1>2, SizeAssumption DEF FixBound, TypeOK
<1>13. ASSUME NEW u \in Threads PROVE Detached(u)'
  <2>1. CASE u = t
    <3>1. pc'[t] = "drop" /\ det'[t] = <<Head(q)>> /\ cur'[t] = Head(q)
      BY <1>0, <1>2, <1>4 DEF TypeOK
    <3> QED
      BY <2>1, <3>1, <1>5, TakenDetached
  <2>2. CASE u # t
    BY <2>2, <1>0, <1>2, <1>3, OtherDetached DEF IInv, TypeOK
  <2> QED
    BY <2>1, <2>2
<1> QED
  BY <1>9, <1>10, <1>11, <1>12, <1>13 DEF IInv

\* CutQueue: the whole list leaves with the caller.
LEMMA CutQueueInv ==
  ASSUME IInv, NEW t \in Threads, CutQueue(t)
  PROVE  IInv'
<1>0. /\ pc[t] = "idle" /\ lock = NULL /\ front # NULL
      /\ cur' = [cur EXCEPT ![t] = front]
      /\ front' = NULL /\ rear' = NULL /\ size' = 0
      /\ pc' = [pc EXCEPT ![t] = "walk"]
      /\ q' = <<>> /\ det' = [det EXCEPT ![t] = q]
      /\ UNCHANGED <<next, val, heap, lock, last, ts, kind>>
  BY DEF CutQueue, Begin
<1>2. TypeOK /\ List /\ Own(q, det, heap) /\ q \in Seq(Nodes)
  BY DEF IInv, TypeOK
<1>3. \A u \in Threads : pc[u] \notin {"cond", "clearing"}
  BY <1>0, Unlocked
<1>4. q # <<>> /\ front = Head(q)
  BY <1>0, Unlocked
<1>5. Linked(q, next) /\ next[EndOf(q)] = NULL
  BY <1>2, <1>4 DEF List
<1>8. det[t] = <<>>
  BY <1>0 DEF IInv, Detached
<1>9. Own(q', det', heap')
  BY <1>0, <1>2, <1>8, OwnMoveAll
<1>10. TypeOK'
  <2>1. cur' \in [Threads -> Pointers] /\ pc' \in [Threads -> Steps]
    BY <1>0, <1>2 DEF TypeOK, Pointers, Steps
  <2>2. \A u \in Threads : pc'[u] \in {"cond", "clearing"} <=> lock' = u
    BY <1>0, <1>2 DEF TypeOK
  <2>3. q' \in Seq(Nodes) /\ det' \in [Threads -> Seq(Nodes)]
    BY <1>9 DEF Own
  <2> QED
    BY <2>1, <2>2, <2>3, <1>0, <1>2 DEF TypeOK, Pointers
<1>11. List'
  BY <1>0 DEF List, Linked
<1>12. FixBound'
  BY <1>0, SizeAssumption DEF FixBound
<1>13. ASSUME NEW u \in Threads PROVE Detached(u)'
  <2>1. CASE u = t
    <3>1. pc'[t] = "walk" /\ det'[t] = q /\ cur'[t] = Head(q)
      BY <1>0, <1>2, <1>4 DEF TypeOK
    <3> QED
      BY <2>1, <3>1, <1>0, <1>4, <1>5 DEF Detached
  <2>2. CASE u # t
    BY <2>2, <1>0, <1>2, <1>3, OtherDetached DEF IInv, TypeOK
  <2> QED
    BY <2>1, <2>2
<1> QED
  BY <1>9, <1>10, <1>11, <1>12, <1>13 DEF IInv

\* free of the first node of a chain: the second one is the first of the rest.
LEMMA FreeStep ==
  ASSUME IInv, NEW t \in Threads, det[t] # <<>>, cur[t] = Head(det[t]), Free(t)
  PROVE  /\ Own(q, det', heap') /\ heap' \subseteq Nodes
         /\ det' = [det EXCEPT ![t] = Tail(det[t])]
         /\ det' \in [Threads -> Seq(Nodes)] /\ det'[t] = Tail(det[t])
         /\ Linked(det'[t], next)
         /\ det'[t] # <<>> => /\ EndOf(det'[t]) = EndOf(det[t])
                             /\ next[cur[t]] = Head(det'[t])
                             /\ Head(det'[t]) \in Nodes
         /\ det'[t] = <<>> => EndOf(det[t]) = cur[t]
         /\ det'[t] = <<>> <=> Len(det[t]) = 1
<1>1. TypeOK /\ Own(q, det, heap) /\ Linked(det[t], next) /\ det[t] \in Seq(Nodes)
  BY DEF IInv, Detached, TypeOK
<1>2. heap' = heap \ {Head(det[t])} /\ det' = [det EXCEPT ![t] = Tail(det[t])]
  BY DEF Free, Rest
<1>3. Own(q, det', heap')
  BY <1>1, <1>2, OwnFree
<1>4. det' \in [Threads -> Seq(Nodes)] /\ det'[t] = Tail(det[t])
  BY <1>1, <1>2, <1>3 DEF Own, TypeOK
<1>5. /\ Linked(Tail(det[t]), next)
      /\ Tail(det[t]) # <<>> => /\ EndOf(Tail(det[t])) = EndOf(det[t])
                               /\ next[Head(det[t])] = Head(Tail(det[t]))
      /\ Tail(det[t]) = <<>> => EndOf(det[t]) = Head(det[t])
  BY <1>1, LinkedTail
<1>6. /\ Tail(det[t]) = <<>> <=> Len(det[t]) = 1
      /\ Tail(det[t]) \in Seq(Nodes)
  BY <1>1, TailFacts
<1>7. Tail(det[t]) # <<>> => Head(Tail(det[t])) \in Nodes
  BY <1>6, TailFacts
<1>8. heap' \subseteq Nodes
  BY <1>1, <1>2 DEF TypeOK
<1> QED
  BY <1>2, <1>3, <1>4, <1>5, <1>6, <1>7, <1>8

\* The caller of DeQueue or FixEnQueue frees its node.
LEMMA FreeDroppedInv ==
  ASSUME IInv, NEW t \in Threads, FreeDropped(t)
  PROVE  IInv'
<1>0. /\ pc[t] = "drop" /\ Free(t)
      /\ cur' = [cur EXCEPT ![t] = NULL]
      /\ pc' = [pc EXCEPT ![t] = "idle"]
      /\ UNCHANGED <<front, rear, size, next, val, lock, last, ts, kind, q>>
  BY DEF FreeDropped, ptrs
<1>2. TypeOK /\ List /\ FixBound
  BY DEF IInv
<1>3. det[t] # <<>> /\ cur[t] = Head(det[t]) /\ Len(det[t]) = 1
  BY <1>0 DEF IInv, Detached
<1>4. /\ Own(q', det', heap') /\ heap' \subseteq Nodes
      /\ det' = [det EXCEPT ![t] = Tail(det[t])]
      /\ det' \in [Threads -> Seq(Nodes)] /\ det'[t] = <<>>
  BY <1>0, <1>3, FreeStep
<1>5. pc'[t] = "idle" /\ \A u \in Threads \ {t} : pc'[u] = pc[u]
  BY <1>0, <1>2 DEF TypeOK
<1>6. TypeOK'
  <2>1. cur' \in [Threads -> Pointers] /\ pc' \in [Threads -> Steps]
    BY <1>0, <1>2 DEF TypeOK, Pointers, Steps
  <2>2. \A u \in Threads : pc'[u] \in {"cond", "clearing"} <=> lock' = u
    BY <1>0, <1>2, <1>5 DEF TypeOK
  <2> QED
    BY <2>1, <2>2, <1>0, <1>2, <1>4 DEF TypeOK
<1>7. Clearing' <=> Clearing
  BY <1>0, <1>2, <1>5, NullAssumption DEF Clearing, TypeOK
<1>8. List' /\ FixBound'
  BY <1>0, <1>2, <1>7 DEF List, FixBound
<1>9. ASSUME NEW u \in Threads PROVE Detached(u)'
  <2>1. CASE u = t
    BY <2>1, <1>4, <1>5, LinkedEmpty DEF Detached
  <2>2. CASE u # t
    BY <2>2, <1>0, <1>2, <1>4, <1>5, OtherDetached DEF IInv, TypeOK
  <2> QED
    BY <2>1, <2>2
<1> QED
  BY <1>4, <1>6, <1>8, <1>9 DEF IInv

\* One turn of the loop that frees a chain nobody else can reach.
LEMMA FreeChainInv ==
  ASSUME IInv, NEW t \in Threads, FreeChain(t)
  PROVE  IInv'
<1>0. /\ pc[t] = "walk" /\ Free(t)
      /\ cur' = [cur EXCEPT ![t] = next[cur[t]]]
      /\ pc' = [pc EXCEPT ![t] = IF next[cur[t]] = NULL THEN "idle" ELSE "walk"]
      /\ UNCHANGED <<front, rear, size, next, val, lock, last, ts, kind, q>>
  BY DEF FreeChain, ptrs
<1>2. TypeOK /\ List /\ FixBound
  BY DEF IInv
<1>3. det[t] # <<>> /\ cur[t] = Head(det[t]) /\ next[EndOf(det[t])] = NULL
  BY <1>0 DEF IInv, Detached
<1>4. /\ Own(q', det', heap') /\ heap' \subseteq Nodes
      /\ det' = [det EXCEPT ![t] = Tail(det[t])]
      /\ det' \in [Threads -> Seq(Nodes)] /\ det'[t] = Tail(det[t])
      /\ Linked(det'[t], next)
      /\ det'[t] # <<>> => /\ next[EndOf(det'[t])] = NULL
                          /\ next[cur[t]] = Head(det'[t])
                          /\ Head(det'[t]) \in Nodes
      /\ det'[t] = <<>> => next[cur[t]] = NULL
  BY <1>0, <1>3, FreeStep
<1>5. /\ det'[t] = <<>> <=> next[cur[t]] = NULL
      /\ next[cur[t]] \in Pointers
  BY <1>4, NullAssumption DEF Pointers
<1>6. /\ pc'[t] = IF det'[t] = <<>> THEN "idle" ELSE "walk"
      /\ cur'[t] = next[cur[t]]
      /\ \A u \in Threads \ {t} : pc'[u] = pc[u]
  BY <1>0, <1>2, <1>5 DEF TypeOK
<1>7. TypeOK'
  <2>1. cur' \in [Threads -> Pointers] /\ pc' \in [Threads -> Steps]
    BY <1>0, <1>2, <1>5 DEF TypeOK, Steps
  <2>2. \A u \in Threads : pc'[u] \in {"cond", "clearing"} <=> lock' = u
    BY <1>0, <1>2, <1>6 DEF TypeOK
  <2> QED
    BY <2>1, <2>2, <1>0, <1>2, <1>4 DEF TypeOK
<1>8. Clearing' <=> Clearing
  BY <1>0, <1>2, <1>6, NullAssumption DEF Clearing, TypeOK
<1>9. List' /\ FixBound'
  BY <1>0, <1>2, <1>8 DEF List, FixBound
<1>10. ASSUME NEW u \in Threads PROVE Detached(u)'
  <2>1. CASE u = t
    BY <2>1, <1>0, <1>4, <1>5, <1>6, SMTT(30) DEF Detached
  <2>2. CASE u # t
    BY <2>2, <1>0, <1>2, <1>4, <1>6, OtherDetached DEF IInv, TypeOK
  <2> QED
    BY <2>1, <2>2
<1> QED
  BY <1>4, <1>7, <1>9, <1>10 DEF IInv

-----------------------------------------------------------------------------
(* ConditionDeleteQueue *)

\* A thread inside a critical section of several steps holds q_lock alone.
LEMMA Holder ==
  ASSUME TypeOK, NEW t \in Threads, pc[t] \in {"cond", "clearing"}
  PROVE  /\ lock = t /\ lock # NULL
         /\ \A u \in Threads \ {t} : pc[u] \notin {"cond", "clearing"}
         /\ Clearing <=> pc[t] = "clearing"
  BY NullAssumption DEF TypeOK, Clearing

\* The thread stands at the front of the list and holds q_lock.
LEMMA CondBeginInv ==
  ASSUME IInv, NEW t \in Threads, NEW now \in Times, CondBegin(t, now)
  PROVE  IInv'
<1>0. /\ pc[t] = "idle" /\ lock = NULL /\ lock' = t
      /\ cur' = [cur EXCEPT ![t] = front]
      /\ last' = [last EXCEPT ![t] = NULL]
      /\ ts' = [ts EXCEPT ![t] = now]
      /\ pc' = [pc EXCEPT ![t] = "cond"]
      /\ UNCHANGED <<front, rear, size, next, val, heap, kind, q, det>>
  BY DEF CondBegin, Begin, ptrs
<1>1. TypeOK /\ List /\ FixBound /\ Own(q, det, heap)
  BY DEF IInv
<1>2. /\ ~Clearing /\ \A u \in Threads : pc[u] \notin {"cond", "clearing"}
  BY <1>0, Unlocked
<1>3. pc'[t] = "cond" /\ \A u \in Threads \ {t} : pc'[u] = pc[u]
  BY <1>0, <1>1 DEF TypeOK
<1>4. TypeOK'
  <2>1. /\ cur' \in [Threads -> Pointers] /\ last' \in [Threads -> Pointers]
        /\ pc' \in [Threads -> Steps] /\ ts' \in [Threads -> Times]
    BY <1>0, <1>1 DEF TypeOK, Pointers, Steps
  <2>2. \A u \in Threads : pc'[u] \in {"cond", "clearing"} <=> lock' = u
    BY <1>0, <1>2, <1>3
  <2> QED
    BY <2>1, <2>2, <1>0, <1>1 DEF TypeOK
<1>5. ~Clearing'
  BY <1>0, <1>3 DEF Clearing
<1>6. List' /\ FixBound'
  BY <1>0, <1>1, <1>2, <1>5 DEF List, FixBound
<1>7. ASSUME NEW u \in Threads PROVE Detached(u)'
  <2>1. CASE u = t
    <3>1. det[t] = <<>> /\ Linked(det[t], next)
      BY <1>0 DEF IInv, Detached
    <3>2. last'[t] = NULL /\ cur'[t] = front'
      BY <1>0, <1>1 DEF TypeOK
    <3> QED
      BY <2>1, <3>1, <3>2, <1>0, <1>3 DEF Detached
  <2>2. CASE u # t
    BY <2>2, <1>0, <1>1, <1>3, OtherDetached DEF IInv, TypeOK
  <2> QED
    BY <2>1, <2>2
<1> QED
  BY <1>0, <1>1, <1>4, <1>6, <1>7 DEF IInv

\* The front node expired: it joins the chain the thread has taken.
LEMMA CondStepInv ==
  ASSUME IInv, NEW t \in Threads, CondStep(t)
  PROVE  IInv'
<1>0. /\ pc[t] = "cond" /\ front # NULL
      /\ last' = [last EXCEPT ![t] = front]
      /\ front' = next[front] /\ size' = size - 1
      /\ q' = Tail(q) /\ det' = [det EXCEPT ![t] = Append(det[t], Head(q))]
      /\ UNCHANGED <<rear, next, val, heap, lock, pc, cur, ts, kind>>
  BY DEF CondStep
<1>1. /\ TypeOK /\ List /\ FixBound /\ Own(q, det, heap) /\ q \in Seq(Nodes)
      /\ det[t] \in Seq(Nodes)
  BY DEF IInv, TypeOK
<1>2. /\ ~Clearing /\ \A u \in Threads \ {t} : pc[u] # "cond"
  BY <1>0, <1>1, Holder
<1>3. q # <<>> /\ front = Head(q) /\ size = Len(q)
  BY <1>0, <1>1, <1>2 DEF List
<1>4. /\ Head(q) \in Nodes /\ q' \in Seq(Nodes) /\ Len(q') = Len(q) - 1
      /\ Len(q) \in Nat \ {0}
  BY <1>0, <1>1, <1>3, TailFacts
<1>5. /\ Linked(q', next)
      /\ q' # <<>> => EndOf(q') = EndOf(q) /\ front' = Head(q')
      /\ q' = <<>> => front' = NULL
  <2>1. Linked(q, next) /\ rear = EndOf(q) /\ next[rear] = NULL
    BY <1>1, <1>3 DEF List
  <2> QED
    BY <2>1, <1>0, <1>1, <1>3, LinkedTail
<1>6. Own(q', det', heap')
  BY <1>0, <1>1, <1>3, OwnMove
<1>7. TypeOK'
  <2>1. front' \in Pointers /\ size' \in Nat
    BY <1>0, <1>1, <1>3, <1>4 DEF TypeOK
  <2>2. last' \in [Threads -> Pointers]
    BY <1>0, <1>1 DEF TypeOK
  <2>3. det' \in [Threads -> Seq(Nodes)]
    BY <1>6 DEF Own
  <2> QED
    BY <2>1, <2>2, <2>3, <1>0, <1>1, <1>4 DEF TypeOK
<1>8. List'
  <2>1. ~Clearing'
    BY <1>0, <1>2 DEF Clearing
  <2>2. size' = Len(q')
    BY <1>0, <1>3, <1>4
  <2>3. q' # <<>> => rear' = EndOf(q') /\ next'[rear'] = NULL
    BY <1>0, <1>1, <1>3, <1>5 DEF List
  <2> QED
    BY <2>1, <2>2, <2>3, <1>0, <1>5 DEF List
<1>9. FixBound'
  BY <1>0, <1>1, SizeAssumption DEF FixBound, TypeOK
<1>10. ASSUME NEW u \in Threads PROVE Detached(u)'
  <2>1. CASE u = t
    <3>1. /\ Linked(det[t], next)
          /\ cur[t] = IF det[t] = <<>> THEN front ELSE Head(det[t])
          /\ det[t] # <<>> => next[EndOf(det[t])] = front
      BY <1>0 DEF IInv, Detached
    <3>2. /\ last'[t] = Head(q) /\ pc'[t] = "cond" /\ cur'[t] = cur[t]
          /\ det'[t] = Append(det[t], Head(q))
      BY <1>0, <1>1, <1>3 DEF TypeOK
    <3>3. Linked(det'[t], next) /\ EndOf(det'[t]) = Head(q)
      BY <3>1, <3>2, <1>1, <1>3, <1>4, LinkedAppend
    <3>4. det'[t] # <<>> /\ cur'[t] = Head(det'[t])
      <4>1. /\ det[t] \in Seq(Nodes) /\ Head(q) \in Nodes
        BY <1>1, <1>4
      <4> DEFINE a == Append(det[t], Head(q))
      <4>2. /\ a # <<>>
            /\ det[t] # <<>> => Head(a) = Head(det[t])
            /\ det[t] = <<>> => Head(a) = Head(q)
        BY <4>1, AppendFacts
      <4>3. det'[t] = a
        BY <3>2
      <4> HIDE DEF a
      <4> QED
        BY <4>2, <4>3, <3>1, <3>2, <1>3
    <3> QED
      BY <2>1, <3>2, <3>3, <3>4, <1>0, <1>3 DEF Detached
  <2>2. CASE u # t
    BY <2>2, <1>0, <1>1, <1>2, OtherDetached DEF IInv, TypeOK
  <2> QED
    BY <2>1, <2>2
<1> QED
  BY <1>6, <1>7, <1>8, <1>9, <1>10 DEF IInv

\* The rest of the list is kept; the thread goes on with what it has taken.
LEMMA CondUnlockInv ==
  ASSUME IInv, NEW t \in Threads, CondUnlock(t)
  PROVE  IInv'
<1>0. /\ pc[t] = "cond"
      /\ rear' = IF IsEmpty THEN NULL ELSE rear
      /\ lock' = NULL
      /\ last[t] = NULL => /\ pc' = [pc EXCEPT ![t] = "idle"]
                           /\ cur' = [cur EXCEPT ![t] = NULL]
      /\ last[t] # NULL => /\ pc' = [pc EXCEPT ![t] = "terminate"]
                           /\ cur' = cur
      /\ UNCHANGED <<front, size, next, val, heap, last, ts, kind, q, det>>
  BY DEF CondUnlock
<1>1. /\ TypeOK /\ List /\ FixBound /\ Own(q, det, heap) /\ q \in Seq(Nodes)
      /\ det[t] \in Seq(Nodes)
  BY DEF IInv, TypeOK
<1>2. /\ ~Clearing /\ lock = t /\ \A u \in Threads \ {t} : pc[u] \notin {"cond", "clearing"}
  BY <1>0, <1>1, Holder
<1>3. IsEmpty <=> q = <<>>
  BY <1>1, <1>2, EmptySeq DEF List, IsEmpty
<1>4. /\ last[t] = NULL <=> det[t] = <<>>
      /\ last[t] = IF det[t] = <<>> THEN NULL ELSE EndOf(det[t])
      /\ cur[t] = IF det[t] = <<>> THEN front ELSE Head(det[t])
      /\ Linked(det[t], next)
  <2>1. /\ last[t] = IF det[t] = <<>> THEN NULL ELSE EndOf(det[t])
        /\ cur[t] = IF det[t] = <<>> THEN front ELSE Head(det[t])
        /\ Linked(det[t], next)
    BY <1>0 DEF IInv, Detached
  <2>2. det[t] # <<>> => EndOf(det[t]) \in Nodes
    BY <1>1, EndIsElem
  <2> QED
    BY <2>1, <2>2, NullAssumption
<1>5. /\ pc'[t] = IF det[t] = <<>> THEN "idle" ELSE "terminate"
      /\ det[t] # <<>> => cur'[t] = Head(det[t])
      /\ \A u \in Threads \ {t} : pc'[u] = pc[u] /\ cur'[u] = cur[u]
      /\ pc' \in [Threads -> Steps] /\ cur' \in [Threads -> Pointers]
  <2>1. CASE det[t] = <<>>
    BY <2>1, <1>0, <1>1, <1>4 DEF TypeOK, Steps, Pointers
  <2>2. CASE det[t] # <<>>
    BY <2>2, <1>0, <1>1, <1>4 DEF TypeOK, Steps, Pointers
  <2> QED
    BY <2>1, <2>2
<1>6. TypeOK'
  <2>1. \A u \in Threads : pc'[u] \in {"cond", "clearing"} <=> lock' = u
    BY <1>0, <1>2, <1>5, NullAssumption
  <2>2. rear' \in Pointers
    BY <1>0, <1>1 DEF TypeOK, Pointers
  <2> QED
    BY <2>1, <2>2, <1>0, <1>1, <1>5 DEF TypeOK
<1>7. ~Clearing'
  BY <1>0 DEF Clearing
<1>8. List' /\ FixBound'
  BY <1>0, <1>1, <1>2, <1>3, <1>7 DEF List, FixBound
<1>9. ASSUME NEW u \in Threads PROVE Detached(u)'
  <2>1. CASE u = t
    BY <2>1, <1>0, <1>4, <1>5 DEF Detached
  <2>2. CASE u # t
    BY <2>2, <1>0, <1>1, <1>5, OtherDetached DEF IInv, TypeOK
  <2> QED
    BY <2>1, <2>2
<1> QED
  BY <1>0, <1>1, <1>6, <1>8, <1>9 DEF IInv

\* The chain the thread has taken is cut off from the list it came from.
LEMMA CondTerminateInv ==
  ASSUME IInv, NEW t \in Threads, CondTerminate(t)
  PROVE  IInv'
<1>0. /\ pc[t] = "terminate"
      /\ next' = [next EXCEPT ![last[t]] = NULL]
      /\ last' = [last EXCEPT ![t] = NULL]
      /\ pc' = [pc EXCEPT ![t] = "walk"]
      /\ UNCHANGED <<front, rear, size, val, heap, lock, cur, ts, kind, q, det>>
  BY DEF CondTerminate, ptrs
<1>1. /\ TypeOK /\ List /\ FixBound /\ Own(q, det, heap) /\ q \in Seq(Nodes)
      /\ det[t] \in Seq(Nodes) /\ Detached(t) /\ next \in [Nodes -> Pointers]
  BY DEF IInv, TypeOK
<1>2. /\ det[t] # <<>> /\ cur[t] = Head(det[t]) /\ last[t] = EndOf(det[t])
      /\ Linked(det[t], next)
  BY <1>0, <1>1 DEF Detached
<1>3. last[t] \in Elems(det[t]) /\ last[t] \in Nodes
  BY <1>1, <1>2, EndIsElem
<1>4. next'[last[t]] = NULL /\ \A x \in Nodes : x # last[t] => next'[x] = next[x]
  BY <1>0, <1>1, <1>3
<1>5. /\ \A x \in Elems(q) : next'[x] = next[x]
      /\ \A u \in Threads \ {t} : \A x \in Elems(det[u]) : next'[x] = next[x]
  <2>1. /\ \A x \in Elems(q) : x \in Nodes
        /\ \A u \in Threads : \A x \in Elems(det[u]) : x \in Nodes
    BY <1>1 DEF Own, TypeOK
  <2>2. /\ last[t] \notin Elems(q)
        /\ \A u \in Threads \ {t} : last[t] \notin Elems(det[u])
    BY <1>1, <1>3 DEF Own
  <2> QED
    BY <2>1, <2>2, <1>4
<1>6. pc'[t] = "walk" /\ \A u \in Threads \ {t} : pc'[u] = pc[u]
  BY <1>0, <1>1 DEF TypeOK
<1>7. TypeOK'
  <2>1. /\ next' \in [Nodes -> Pointers] /\ last' \in [Threads -> Pointers]
        /\ pc' \in [Threads -> Steps]
    BY <1>0, <1>1 DEF TypeOK, Pointers, Steps
  <2>2. \A u \in Threads : pc'[u] \in {"cond", "clearing"} <=> lock' = u
    BY <1>0, <1>1, <1>6 DEF TypeOK
  <2> QED
    BY <2>1, <2>2, <1>0, <1>1 DEF TypeOK
<1>8. Clearing' <=> Clearing
  BY <1>0, <1>1, <1>6, NullAssumption DEF Clearing, TypeOK
<1>9. List'
  <2>1. Linked(q, next')
    BY <1>1, <1>5, LinkedFrame DEF List
  <2>2. q # <<>> => rear \in Elems(q)
    BY <1>1, EndIsElem DEF List
  <2> QED
    BY <2>1, <2>2, <1>0, <1>1, <1>5, <1>8 DEF List
<1>10. ASSUME NEW u \in Threads PROVE Detached(u)'
  <2>1. CASE u = t
    <3>1. Linked(det[t], next')
      <4> SUFFICES ASSUME NEW i \in 1..(Len(det[t]) - 1)
                   PROVE  next'[det[t][i]] = det[t][i + 1]
        BY DEF Linked
      <4>1. Len(det[t]) \in Nat /\ det[t] \in [1..Len(det[t]) -> Nodes]
        BY <1>1, LenProperties
      <4>2. Distinct(det[t])
        BY <1>1 DEF Own
      <4>3. det[t][i] \in Nodes /\ det[t][i] # last[t]
        BY <4>1, <4>2, <1>2 DEF Distinct, EndOf
      <4>4. next[det[t][i]] = det[t][i + 1]
        BY <1>2 DEF Linked
      <4> QED
        BY <4>3, <4>4, <1>4
    <3> QED
      BY <2>1, <3>1, <1>0, <1>2, <1>4, <1>6 DEF Detached
  <2>2. CASE u # t
    BY <2>2, <1>0, <1>1, <1>5, <1>6, OtherDetached DEF IInv, TypeOK
  <2> QED
    BY <2>1, <2>2
<1> QED
  BY <1>0, <1>1, <1>7, <1>9, <1>10 DEF IInv, FixBound

-----------------------------------------------------------------------------
(* ClearQueue *)

\* The test of size outside q_lock changes nothing another thread relies on.
LEMMA ClearTestInv ==
  ASSUME IInv, NEW t \in Threads, ClearTest(t)
  PROVE  IInv'
<1>0. /\ pc[t] = "idle" /\ pc' = [pc EXCEPT ![t] = "clear"]
      /\ UNCHANGED <<front, rear, size, next, val, heap, lock, cur, last, ts, kind,
                     q, det>>
  BY DEF ClearTest, ptrs
<1>1. TypeOK /\ List /\ FixBound /\ Own(q, det, heap)
  BY DEF IInv
<1>2. pc'[t] = "clear" /\ \A u \in Threads \ {t} : pc'[u] = pc[u]
  BY <1>0, <1>1 DEF TypeOK
<1>3. TypeOK'
  <2>1. pc' \in [Threads -> Steps]
    BY <1>0, <1>1 DEF TypeOK, Steps
  <2>2. \A u \in Threads : pc'[u] \in {"cond", "clearing"} <=> lock' = u
    BY <1>0, <1>1, <1>2 DEF TypeOK
  <2> QED
    BY <2>1, <2>2, <1>0, <1>1 DEF TypeOK
<1>4. Clearing' <=> Clearing
  BY <1>0, <1>1, <1>2, NullAssumption DEF Clearing, TypeOK
<1>5. List' /\ FixBound'
  BY <1>0, <1>1, <1>4 DEF List, FixBound
<1>6. ASSUME NEW u \in Threads PROVE Detached(u)'
  <2>1. CASE u = t
    <3>1. det[t] = <<>> /\ Linked(det[t], next)
      BY <1>0 DEF IInv, Detached
    <3> QED
      BY <2>1, <3>1, <1>0, <1>2 DEF Detached
  <2>2. CASE u # t
    BY <2>2, <1>0, <1>1, <1>2, OtherDetached DEF IInv
  <2> QED
    BY <2>1, <2>2
<1> QED
  BY <1>0, <1>1, <1>3, <1>5, <1>6 DEF IInv

\* Under q_lock the list, which may be empty by now, belongs to the thread.
LEMMA ClearBeginInv ==
  ASSUME IInv, NEW t \in Threads, ClearBegin(t)
  PROVE  IInv'
<1>0. /\ pc[t] = "clear" /\ lock = NULL /\ lock' = t
      /\ cur' = [cur EXCEPT ![t] = front]
      /\ pc' = [pc EXCEPT ![t] = "clearing"]
      /\ q' = <<>> /\ det' = [det EXCEPT ![t] = q]
      /\ UNCHANGED <<front, rear, size, next, val, heap, last, ts, kind>>
  BY DEF ClearBegin, ptrs
<1>1. TypeOK /\ List /\ FixBound /\ Own(q, det, heap) /\ q \in Seq(Nodes)
  BY DEF IInv, TypeOK
<1>2. /\ front = IF q = <<>> THEN NULL ELSE Head(q)
      /\ \A u \in Threads : pc[u] \notin {"cond", "clearing"}
  BY <1>0, Unlocked
<1>3. pc'[t] = "clearing" /\ \A u \in Threads \ {t} : pc'[u] = pc[u]
  BY <1>0, <1>1 DEF TypeOK
<1>4. det[t] = <<>>
  BY <1>0 DEF IInv, Detached
<1>5. Own(q', det', heap')
  BY <1>0, <1>1, <1>4, OwnMoveAll
<1>6. TypeOK'
  <2>1. cur' \in [Threads -> Pointers] /\ pc' \in [Threads -> Steps]
    BY <1>0, <1>1 DEF TypeOK, Pointers, Steps
  <2>2. \A u \in Threads : pc'[u] \in {"cond", "clearing"} <=> lock' = u
    BY <1>0, <1>2, <1>3
  <2>3. q' \in Seq(Nodes) /\ det' \in [Threads -> Seq(Nodes)]
    BY <1>5 DEF Own
  <2> QED
    BY <2>1, <2>2, <2>3, <1>0, <1>1 DEF TypeOK
<1>7. Clearing'
  BY <1>0, <1>3, NullAssumption DEF Clearing
<1>8. List' /\ FixBound'
  BY <1>0, <1>1, <1>7, LinkedEmpty DEF List, FixBound
<1>9. ASSUME NEW u \in Threads PROVE Detached(u)'
  <2>1. CASE u = t
    <3>1. det'[t] = q /\ cur'[t] = IF q = <<>> THEN NULL ELSE Head(q)
      BY <1>0, <1>1, <1>2 DEF TypeOK
    <3>2. Linked(q, next) /\ q # <<>> => next[EndOf(q)] = NULL
      BY <1>1 DEF List
    <3>3. Linked(q, next)
      BY <1>1 DEF List
    <3> QED
      BY <2>1, <3>1, <3>2, <3>3, <1>0, <1>3 DEF Detached
  <2>2. CASE u # t
    BY <2>2, <1>0, <1>1, <1>3, OtherDetached DEF IInv, TypeOK
  <2> QED
    BY <2>1, <2>2
<1> QED
  BY <1>5, <1>6, <1>8, <1>9 DEF IInv

\* One turn of the loop of ClearQueue, under q_lock.
LEMMA ClearStepInv ==
  ASSUME IInv, NEW t \in Threads, ClearStep(t)
  PROVE  IInv'
<1>0. /\ pc[t] = "clearing" /\ cur[t] # NULL /\ Free(t)
      /\ cur' = [cur EXCEPT ![t] = next[cur[t]]]
      /\ UNCHANGED <<front, rear, size, next, val, lock, pc, last, ts, kind, q>>
  BY DEF ClearStep, ptrs
<1>1. TypeOK /\ List /\ FixBound
  BY DEF IInv
<1>2. det[t] # <<>> /\ cur[t] = Head(det[t]) /\ next[EndOf(det[t])] = NULL
  BY <1>0 DEF IInv, Detached
<1>3. /\ Own(q', det', heap') /\ heap' \subseteq Nodes
      /\ det' = [det EXCEPT ![t] = Tail(det[t])]
      /\ det' \in [Threads -> Seq(Nodes)] /\ det'[t] = Tail(det[t])
      /\ Linked(det'[t], next)
      /\ det'[t] # <<>> => /\ next[EndOf(det'[t])] = NULL
                          /\ next[cur[t]] = Head(det'[t])
                          /\ Head(det'[t]) \in Nodes
      /\ det'[t] = <<>> => next[cur[t]] = NULL
  BY <1>0, <1>2, FreeStep
<1>4. next[cur[t]] \in Pointers /\ cur'[t] = next[cur[t]]
  BY <1>0, <1>1, <1>3 DEF Pointers, TypeOK
<1>5. TypeOK'
  BY <1>0, <1>1, <1>3, <1>4 DEF TypeOK
<1>6. List' /\ FixBound'
  BY <1>0, <1>1 DEF List, FixBound, Clearing
<1>7. ASSUME NEW u \in Threads PROVE Detached(u)'
  <2>1. CASE u = t
    BY <2>1, <1>0, <1>3, <1>4 DEF Detached
  <2>2. CASE u # t
    BY <2>2, <1>0, <1>1, <1>3, OtherDetached DEF IInv, TypeOK
  <2> QED
    BY <2>1, <2>2
<1> QED
  BY <1>3, <1>5, <1>6, <1>7 DEF IInv

\* All nodes are freed: the empty list is written and q_lock released.
LEMMA ClearEndInv ==
  ASSUME IInv, NEW t \in Threads, ClearEnd(t)
  PROVE  IInv'
<1>0. /\ pc[t] = "clearing" /\ cur[t] = NULL
      /\ size' = 0 /\ front' = NULL /\ rear' = NULL /\ lock' = NULL
      /\ pc' = [pc EXCEPT ![t] = "idle"]
      /\ UNCHANGED <<next, val, heap, cur, last, ts, kind, q, det>>
  BY DEF ClearEnd
<1>1. /\ TypeOK /\ List /\ FixBound /\ Own(q, det, heap)
      /\ det[t] \in Seq(Nodes) /\ Linked(det[t], next)
  BY DEF IInv, TypeOK, Detached
<1>2. Clearing /\ \A u \in Threads \ {t} : pc[u] \notin {"cond", "clearing"}
  BY <1>0, <1>1, Holder
<1>3. q = <<>>
  BY <1>1, <1>2 DEF List
<1>4. det[t] = <<>>
  <2>1. cur[t] = IF det[t] = <<>> THEN NULL ELSE Head(det[t])
    BY <1>0 DEF IInv, Detached
  <2>2. det[t] # <<>> => Head(det[t]) \in Nodes
    BY <1>1, TailFacts
  <2> QED
    BY <2>1, <2>2, <1>0, NullAssumption
<1>5. pc'[t] = "idle" /\ \A u \in Threads \ {t} : pc'[u] = pc[u]
  BY <1>0, <1>1 DEF TypeOK
<1>6. TypeOK'
  <2>1. pc' \in [Threads -> Steps]
    BY <1>0, <1>1 DEF TypeOK, Steps
  <2>2. \A u \in Threads : pc'[u] \in {"cond", "clearing"} <=> lock' = u
    BY <1>0, <1>2, <1>5, NullAssumption
  <2> QED
    BY <2>1, <2>2, <1>0, <1>1 DEF TypeOK, Pointers
<1>7. List' /\ FixBound'
  BY <1>0, <1>3, LinkedEmpty, SizeAssumption DEF List, FixBound
<1>8. ASSUME NEW u \in Threads PROVE Detached(u)'
  <2>1. CASE u = t
    BY <2>1, <1>0, <1>1, <1>4, <1>5 DEF Detached
  <2>2. CASE u # t
    BY <2>2, <1>0, <1>1, <1>2, <1>5, OtherDetached DEF IInv
  <2> QED
    BY <2>1, <2>2
<1> QED
  BY <1>0, <1>1, <1>6, <1>7, <1>8 DEF IInv

-----------------------------------------------------------------------------
(* The theorems *)

\* No step of any thread leaves the invariant.
LEMMA StepInv ==
  ASSUME IInv, [Next]_vars
  PROVE  IInv'
<1>1. ASSUME NEW t \in Threads, NEW n \in Nodes, NEW v \in Times,
             EnQueue(t, n, v) \/ FixEnQueue(t, n, v)
      PROVE  IInv'
  BY <1>1, EnQueueInv, FixEnQueueGrows, FixEnQueueDrops
<1>2. ASSUME NEW t \in Threads,
             DeQueue(t) \/ CutQueue(t) \/ FreeDropped(t) \/ FreeChain(t)
      PROVE  IInv'
  BY <1>2, DeQueueInv, CutQueueInv, FreeDroppedInv, FreeChainInv
<1>3. ASSUME NEW t \in Threads, NEW now \in Times, CondBegin(t, now)
      PROVE  IInv'
  BY <1>3, CondBeginInv
<1>4. ASSUME NEW t \in Threads, CondStep(t) \/ CondUnlock(t) \/ CondTerminate(t)
      PROVE  IInv'
  BY <1>4, CondStepInv, CondUnlockInv, CondTerminateInv
<1>5. ASSUME NEW t \in Threads,
             ClearTest(t) \/ ClearBegin(t) \/ ClearStep(t) \/ ClearEnd(t)
      PROVE  IInv'
  BY <1>5, ClearTestInv, ClearBeginInv, ClearStepInv, ClearEndInv
<1>6. CASE UNCHANGED vars
  <2>1. TypeOK' /\ List' /\ FixBound' /\ Own(q, det, heap)'
    BY <1>6 DEF IInv, TypeOK, List, FixBound, Clearing, vars
  <2>2. ASSUME NEW u \in Threads PROVE Detached(u)'
    BY <1>6 DEF IInv, Detached, vars
  <2> QED
    BY <2>1, <2>2 DEF IInv
<1> QED
  BY <1>1, <1>2, <1>3, <1>4, <1>5, <1>6 DEF Next

\* The invariant holds in every execution.
LEMMA Invariance == Spec => []IInv
  BY InitInv, StepInv, PTL DEF Spec

\* For any number of threads and nodes: front, rear, size and the next links always
\* describe one list, in every interleaving of the functions of queue.c.
THEOREM ListCorrect == Spec => []ListIntact
  BY Invariance, Implied, PTL

\* Nothing is freed twice, used after it was freed, shared between two threads or
\* leaked, although ConditionDeleteQueue and the callers free outside q_lock.
THEOREM HeapCorrect == Spec => []HeapExact
  BY Invariance, Implied, PTL

\* FixEnQueue keeps every queue within its fix_size.
THEOREM FixBounded == Spec => []FixBound
  BY Invariance, Implied, PTL

-----------------------------------------------------------------------------
(* The refinement of Fifo *)

\* The values of the list, as the history has them.
Vals == [i \in 1..Len(q) |-> val[q[i]]]

\* Hop by hop from front the pointers lead to the nodes of the history: hop is the
\* only function with its recursive equation, and a first node at which it differed
\* from the history would have a predecessor at which it does not.
LEMMA HopsFollowList ==
  ASSUME IInv, ~Clearing
  PROVE  LET hop[i \in 1..size] == IF i = 1 THEN front ELSE next[hop[i - 1]]
         IN  \A i \in 1..size : hop[i] = q[i]
<1> DEFINE IsHop(h) == h = [i \in 1..size |-> IF i = 1 THEN front ELSE next[h[i - 1]]]
           hop == CHOOSE h : IsHop(h)
<1>1. /\ q \in Seq(Nodes) /\ size = Len(q) /\ size \in Nat
      /\ front = IF q = <<>> THEN NULL ELSE Head(q)
      /\ \A i \in 1..(size - 1) : next[q[i]] = q[i + 1]
  BY DEF IInv, TypeOK, List, Linked
<1>2. size # 0 => front = q[1]
  BY <1>1, TailFacts, EmptySeq
<1>3. IsHop([i \in 1..size |-> q[i]])
  <2>1. ASSUME NEW i \in 1..size, i # 1
        PROVE  next[[j \in 1..size |-> q[j]][i - 1]] = q[i]
    BY <1>1, <2>1
  <2> QED
    BY <1>1, <1>2, <2>1
<1>4. hop = [i \in 1..size |-> IF i = 1 THEN front ELSE next[hop[i - 1]]]
  <2> HIDE DEF IsHop
  <2>1. IsHop(hop)
    BY <1>3
  <2> QED
    BY <2>1 DEF IsHop
<1> HIDE DEF hop
<1>5. \A i \in 1..size : hop[i] = IF i = 1 THEN front ELSE next[hop[i - 1]]
  BY <1>4, Zenon
<1> DEFINE T == {i \in 1..size : hop[i] # q[i]}
<1>6. T = {}
  <2> SUFFICES ASSUME T # {} PROVE FALSE
    OBVIOUS
  <2>1. PICK x \in T : \A y \in T : ~(y < x)
    <3>1. T \subseteq Nat
      BY <1>1
    <3>2. T # {}
      OBVIOUS
    <3> HIDE DEF T
    <3>3. \E x \in T : \A y \in T : ~(<<y, x>> \in OpToRel(<, Nat))
      BY <3>1, <3>2, NatLessThanWellFounded, WFMin
    <3>4. \A x, y \in T : y < x => <<y, x>> \in OpToRel(<, Nat)
      BY <3>1 DEF OpToRel
    <3> QED
      BY <3>3, <3>4
  <2>2. x \in 1..size /\ hop[x] # q[x] /\ size # 0
    BY <1>1
  <2>3. x # 1
    BY <2>2, <1>2, <1>5
  <2>4. x - 1 \in 1..size /\ hop[x - 1] = q[x - 1]
    BY <2>1, <2>2, <2>3, <1>1
  <2>5. next[q[x - 1]] = q[x]
    BY <2>2, <2>3, <1>1
  <2> QED
    BY <2>2, <2>3, <2>4, <2>5, <1>5
<1>7. \A i \in 1..size : hop[i] = q[i]
  BY <1>6
<1> QED
  BY <1>7 DEF hop

\* What the pointers describe is what the history says, also while ClearQueue frees.
LEMMA ContentsAreVals == IInv => Contents = Vals
<1> SUFFICES ASSUME IInv PROVE Contents = Vals
  OBVIOUS
<1>1. TypeOK /\ List
  BY DEF IInv
<1>2. CASE Clearing
  <2>1. q = <<>> /\ Len(q) = 0
    BY <1>1, <1>2 DEF List
  <2>2. Vals = <<>>
    BY <2>1 DEF Vals
  <2> QED
    BY <1>2, <2>2 DEF Contents
<1>3. CASE ~Clearing
  <2>1. size = Len(q)
    BY <1>1, <1>3 DEF List
  <2> QED
    BY <1>3, <2>1, HopsFollowList DEF Contents, Vals
<1> QED
  BY <1>2, <1>3

\* The values of a list of nodes are a sequence of values as long as the list.
LEMMA ValsSeq ==
  ASSUME TypeOK
  PROVE  Vals \in Seq(Times) /\ Len(Vals) = Len(q) /\ (Vals = <<>> <=> q = <<>>)
<1>1. q \in Seq(Nodes) /\ Len(q) \in Nat /\ q \in [1..Len(q) -> Nodes]
  BY LenProperties DEF TypeOK
<1>2. \A i \in 1..Len(q) : val[q[i]] \in Times
  BY <1>1 DEF TypeOK
<1>3. Vals \in Seq(Times) /\ Len(Vals) = Len(q)
  BY <1>1, <1>2, IsASeq DEF Vals
<1> QED
  BY <1>1, <1>3, EmptySeq

\* The first node leaves: so does the first value.
LEMMA ValsTail ==
  ASSUME TypeOK, q # <<>>, q' = Tail(q), val' = val
  PROVE  Vals' = Tail(Vals)
<1>1. /\ q \in Seq(Nodes) /\ Len(q) \in Nat \ {0} /\ Len(q') = Len(q) - 1
      /\ \A i \in 1..(Len(q) - 1) : q'[i] = q[i + 1]
  BY TailFacts DEF TypeOK
<1>2. Vals \in Seq(Times) /\ Len(Vals) = Len(q) /\ Vals # <<>>
  BY ValsSeq
<1>3. /\ Tail(Vals) \in Seq(Times) /\ Len(Tail(Vals)) = Len(q) - 1
      /\ \A i \in 1..(Len(q) - 1) : Tail(Vals)[i] = Vals[i + 1]
  BY <1>2, TailFacts
<1>4. Tail(Vals) = [i \in 1..Len(Tail(Vals)) |-> Tail(Vals)[i]]
  BY <1>3, LenProperties
<1>5. \A i \in 1..(Len(q) - 1) : Tail(Vals)[i] = val'[q'[i]]
  BY <1>1, <1>3 DEF Vals
<1>6. Tail(Vals) = [i \in 1..Len(q') |-> val'[q'[i]]]
  BY <1>1, <1>3, <1>4, <1>5
<1> QED
  BY <1>6 DEF Vals

\* A fresh node with value v comes last: so does v.
LEMMA ValsAppend ==
  ASSUME TypeOK, NEW n \in Nodes, n \notin Elems(q), NEW v \in Times,
         q' = Append(q, n), val' = [val EXCEPT ![n] = v]
  PROVE  Vals' = Append(Vals, v)
<1>1. /\ q \in Seq(Nodes) /\ Len(q) \in Nat /\ Len(q') = Len(q) + 1
      /\ \A i \in 1..Len(q) : q'[i] = q[i]
      /\ q'[Len(q) + 1] = n
      /\ q \in [1..Len(q) -> Nodes] /\ val \in [Nodes -> Times]
  BY AppendFacts, LenProperties DEF TypeOK
<1>2. Vals \in Seq(Times) /\ Len(Vals) = Len(q)
  BY ValsSeq
<1>3. /\ Append(Vals, v) \in Seq(Times) /\ Len(Append(Vals, v)) = Len(q) + 1
      /\ \A i \in 1..Len(q) : Append(Vals, v)[i] = Vals[i]
      /\ Append(Vals, v)[Len(q) + 1] = v
  BY <1>2, AppendFacts
<1>4. Append(Vals, v) = [i \in 1..(Len(q) + 1) |-> Append(Vals, v)[i]]
  BY <1>3, LenProperties
<1>5. \A i \in 1..Len(q) : Append(Vals, v)[i] = val'[q'[i]]
  <2> SUFFICES ASSUME NEW i \in 1..Len(q) PROVE Append(Vals, v)[i] = val'[q'[i]]
    OBVIOUS
  <2>1. Append(Vals, v)[i] = val[q[i]]
    BY <1>3 DEF Vals
  <2>2. q[i] # n /\ q[i] \in Nodes
    BY <1>1 DEF Elems
  <2> QED
    BY <2>1, <2>2, <1>1
<1>6. Append(Vals, v)[Len(q) + 1] = val'[q'[Len(q) + 1]]
  BY <1>1, <1>3
<1>7. ASSUME NEW i \in 1..(Len(q) + 1) PROVE Append(Vals, v)[i] = val'[q'[i]]
  <2>1. i \in 1..Len(q) \/ i = Len(q) + 1
    BY <1>1
  <2> QED
    BY <2>1, <1>5, <1>6
<1>8. Append(Vals, v) = [i \in 1..Len(q') |-> val'[q'[i]]]
  BY <1>1, <1>4, <1>7
<1> QED
  BY <1>8 DEF Vals

\* Both at once, in FixEnQueue at fix_size.
LEMMA ValsReplace ==
  ASSUME TypeOK, q # <<>>, NEW n \in Nodes, n \notin Elems(q), NEW v \in Times,
         q' = Append(Tail(q), n), val' = [val EXCEPT ![n] = v]
  PROVE  Vals' = Append(Tail(Vals), v)
<1>1. /\ q \in Seq(Nodes) /\ Len(q) \in Nat \ {0} /\ Tail(q) \in Seq(Nodes)
      /\ Len(Tail(q)) = Len(q) - 1
      /\ \A i \in 1..(Len(q) - 1) : Tail(q)[i] = q[i + 1]
      /\ q \in [1..Len(q) -> Nodes] /\ val \in [Nodes -> Times]
  BY TailFacts, LenProperties DEF TypeOK
<1>2. /\ Len(q') = Len(q) /\ q'[Len(q)] = n
      /\ \A i \in 1..(Len(q) - 1) : q'[i] = q[i + 1]
  <2>1. /\ Len(Append(Tail(q), n)) = Len(Tail(q)) + 1
        /\ \A i \in 1..Len(Tail(q)) : Append(Tail(q), n)[i] = Tail(q)[i]
        /\ Append(Tail(q), n)[Len(Tail(q)) + 1] = n
    BY <1>1, AppendFacts
  <2> QED
    BY <2>1, <1>1
<1>3. Vals \in Seq(Times) /\ Len(Vals) = Len(q) /\ Vals # <<>>
  BY ValsSeq
<1>4. /\ Tail(Vals) \in Seq(Times) /\ Len(Tail(Vals)) = Len(q) - 1
      /\ \A i \in 1..(Len(q) - 1) : Tail(Vals)[i] = Vals[i + 1]
  BY <1>3, TailFacts
<1> DEFINE w == Append(Tail(Vals), v)
<1>5. /\ w \in Seq(Times) /\ Len(w) = Len(q) /\ w[Len(q)] = v
      /\ \A i \in 1..(Len(q) - 1) : w[i] = Vals[i + 1]
  <2>1. /\ w \in Seq(Times) /\ Len(w) = Len(Tail(Vals)) + 1
        /\ \A i \in 1..Len(Tail(Vals)) : w[i] = Tail(Vals)[i]
        /\ w[Len(Tail(Vals)) + 1] = v
    BY <1>4, AppendFacts
  <2> HIDE DEF w
  <2> QED
    BY <2>1, <1>1, <1>4
<1> HIDE DEF w
<1>6. w = [i \in 1..Len(q) |-> w[i]]
  BY <1>5, LenProperties
<1>7. ASSUME NEW i \in 1..Len(q) PROVE w[i] = val'[q'[i]]
  <2>1. CASE i = Len(q)
    BY <2>1, <1>1, <1>2, <1>5
  <2>2. CASE i # Len(q)
    <3>0. Len(q) \in Nat
      BY <1>1
    <3>1. i \in 1..(Len(q) - 1) /\ i + 1 \in 1..Len(q)
      BY <2>2, <3>0
    <3>2. w[i] = val[q[i + 1]]
      BY <3>1, <1>5 DEF Vals
    <3>3. q[i + 1] # n /\ q[i + 1] \in Nodes
      BY <3>1, <1>1 DEF Elems
    <3> QED
      BY <3>1, <3>2, <3>3, <1>1, <1>2
  <2> QED
    BY <2>1, <2>2
<1>8. w = [i \in 1..Len(q') |-> val'[q'[i]]]
  BY <1>2, <1>6, <1>7
<1> QED
  BY <1>8 DEF Vals, w

\* No value is added or taken.
LEMMA ValsSame ==
  ASSUME q' = q, val' = val
  PROVE  Vals' = Vals
  BY DEF Vals

\* Every step is a step of Fifo on the values, or leaves them alone.
LEMMA StepRefines ==
  ASSUME IInv, [Next]_vars
  PROVE  [Abstract!Next]_<<Contents, kind>>
<1>0. Contents = Vals /\ Contents' = Vals'
  <2>1. IInv'
    BY StepInv
  <2>2. (IInv => Contents = Vals)'
    BY ContentsAreVals, PTL
  <2> QED
    BY <2>1, <2>2, ContentsAreVals
<1>1. TypeOK /\ List /\ Own(q, det, heap) /\ q \in Seq(Nodes)
  BY DEF IInv, TypeOK
<1>2. /\ Len(Vals) = Len(q) /\ (Vals = <<>> <=> q = <<>>)
      /\ \A n \in Nodes : n \notin heap => n \notin Elems(q)
  BY <1>1, ValsSeq DEF Own
<1>3. ASSUME NEW t \in Threads, NEW n \in Nodes, NEW v \in Times, EnQueue(t, n, v)
      PROVE  Abstract!Next
  <2>1. /\ n \notin heap /\ kind = "plain" /\ kind' = kind
        /\ q' = Append(q, n) /\ val' = [val EXCEPT ![n] = v]
    BY <1>3 DEF EnQueue, Link
  <2>2. Vals' = Append(Vals, v)
    BY <2>1, <1>1, <1>2, ValsAppend
  <2>3. Abstract!Put(v)
    BY <2>1, <2>2, <1>0 DEF Abstract!Put
  <2> QED
    BY <2>3 DEF Abstract!Next
<1>4. ASSUME NEW t \in Threads, NEW n \in Nodes, NEW v \in Times, FixEnQueue(t, n, v)
      PROVE  Abstract!Next
  <2>1. /\ n \notin heap /\ kind = "fix" /\ kind' = kind
        /\ val' = [val EXCEPT ![n] = v] /\ lock = NULL
        /\ Full => q' = Append(Tail(q), n)
        /\ ~Full => q' = Append(q, n)
    BY <1>4 DEF FixEnQueue, Begin, Link
  <2>2. size = Len(q) /\ (Full <=> Len(Vals) = FixSize)
    BY <2>1, <1>2, Unlocked DEF Full
  <2>3. Vals' = IF Len(Vals) = FixSize THEN Append(Tail(Vals), v) ELSE Append(Vals, v)
    <3>1. CASE Full
      <4>1. q # <<>>
        BY <3>1, <2>2, SizeAssumption DEF Full
      <4> QED
        BY <4>1, <3>1, <2>1, <2>2, <1>1, <1>2, ValsReplace
    <3>2. CASE ~Full
      BY <3>2, <2>1, <2>2, <1>1, <1>2, ValsAppend
    <3> QED
      BY <3>1, <3>2
  <2>4. Abstract!PutFixed(v)
    BY <2>1, <2>3, <1>0 DEF Abstract!PutFixed
  <2> QED
    BY <2>4 DEF Abstract!Next
<1>5. ASSUME NEW t \in Threads, DeQueue(t) \/ CondStep(t)
      PROVE  Abstract!Next
  <2>1. q' = Tail(q) /\ val' = val /\ kind' = kind
    BY <1>5 DEF DeQueue, CondStep
  <2>2. q # <<>>
    <3>1. CASE DeQueue(t)
      BY <3>1, Unlocked DEF DeQueue, Begin
    <3>2. CASE CondStep(t)
      <4>1. pc[t] = "cond" /\ front # NULL
        BY <3>2 DEF CondStep
      <4> QED
        BY <4>1, <1>1, Holder DEF List
    <3> QED
      BY <1>5, <3>1, <3>2
  <2>3. Vals' = Tail(Vals) /\ Vals # <<>>
    BY <2>1, <2>2, <1>1, <1>2, ValsTail
  <2> QED
    BY <2>1, <2>3, <1>0 DEF Abstract!Next, Abstract!Get
<1>6. ASSUME NEW t \in Threads, CutQueue(t) \/ ClearBegin(t)
      PROVE  Abstract!Next
  <2>1. q' = <<>> /\ kind' = kind
    BY <1>6 DEF CutQueue, ClearBegin
  <2>2. Vals' = <<>>
    BY <2>1 DEF Vals
  <2> QED
    BY <2>1, <2>2, <1>0 DEF Abstract!Next, Abstract!Empty
<1>7. ASSUME NEW t \in Threads,
             \/ FreeDropped(t) \/ FreeChain(t)
             \/ \E now \in Times : CondBegin(t, now)
             \/ CondUnlock(t) \/ CondTerminate(t)
             \/ ClearTest(t) \/ ClearStep(t) \/ ClearEnd(t)
      PROVE  UNCHANGED <<Contents, kind>>
  <2>1. q' = q /\ val' = val /\ kind' = kind
    BY <1>7 DEF FreeDropped, FreeChain, CondBegin, CondUnlock, CondTerminate,
       ClearTest, ClearStep, ClearEnd
  <2> QED
    BY <2>1, <1>0, ValsSame
<1>8. CASE UNCHANGED vars
  BY <1>8, <1>0, ValsSame DEF vars
<1> QED
  BY <1>3, <1>4, <1>5, <1>6, <1>7, <1>8 DEF Next

\* The pointer structure implements a first-in first-out list: for any number of
\* threads and nodes every step of queue.c is a step of Fifo on the values that are
\* reached from front, or changes none of them.
THEOREM Refinement == Spec => ImplementsFifo
<1>1. Init => Abstract!Init
  <2> SUFFICES ASSUME Init PROVE Abstract!Init
    OBVIOUS
  <2>1. Contents = Vals
    BY InitInv, ContentsAreVals
  <2>2. Vals = <<>>
    BY DEF Init, Vals
  <2> QED
    BY <2>1, <2>2 DEF Abstract!Init, Init
<1>2. IInv /\ [Next]_vars => [Abstract!Next]_<<Contents, kind>>
  BY StepRefines
<1> QED
  BY <1>1, <1>2, Invariance, PTL DEF Spec, ImplementsFifo, Abstract!Spec
=============================================================================
