---------------------------- MODULE Rings_proofs ----------------------------
(***************************************************************************)
(* The two rings of the program, for every size.                           *)
(*                                                                         *)
(* The frame ring (YuvRing), for every DATA_SIZE below 98 and any number   *)
(* of operator requests: the age and the loop count of a valid slot follow *)
(* from its place (Placed), whence what the reader gets.                   *)
(*                                                                         *)
(* The ring of the websocket output (WsOutput), for any slots and any set  *)
(* of sessions: every tail lies between the oldest tail and the head, and  *)
(* the slots of that part, and no others, have payloads.  Dist counts the  *)
(* places around the ring; once all remainders are distances, a step is    *)
(* arithmetic without remainders.  With this invariant each callback is a  *)
(* step of Broadcast, where the part from the oldest tail to the head is   *)
(* the sequence of messages kept and the distance of a session's tail to   *)
(* the head is what the session has still to get.                          *)
(***************************************************************************)
EXTENDS YuvRing, WsOutput, TLAPS, SequenceTheorems, WellFoundedInduction

----------------------------------------------------------------------------
(* The frame ring.                                                         *)

\* The number of frames written after the one in slot i.
Behind(i) == IF i < i_write THEN i_write - i - 1 ELSE i_write + DataSize - i - 1

\* How far i_wloop has moved since slot i was written: once for each frame from
\* that one on, and once more when the writer has wrapped around since.
Moved(i) == Behind(i) + (IF i < i_write THEN 1 ELSE 2)

\* A slot that is valid carries the age and the loop count its place implies.
Placed == \A i \in Slots : valid[i] =>
            /\ age[i] = Behind(i)
            /\ \/ i_wloop = item_wloop[i] + Moved(i)
               \/ i_wloop = item_wloop[i] + Moved(i) - Rounds

\* While reader and writer are aligned, every unread frame is newer than all that
\* were read.
Ordered == ~overrun => \A i \in Slots : valid[i] => age[i] < newest

IInv == TypeOK /\ Placed /\ Aligned /\ Ordered

\* i_wloop stays below the modulus and wraps at most once per write.
LEMMA NextLoopValue ==
  ASSUME TypeOK
  PROVE  /\ LoopStep \in {1, 2}
         /\ NextLoop \in 0..(Rounds - 1)
         /\ NextLoop = i_wloop + LoopStep \/ NextLoop = i_wloop + LoopStep - Rounds
<1>1. i_wloop \in 0..99 /\ LoopStep \in {1, 2}
  BY DEF TypeOK, LoopStep, Rounds
<1> HIDE DEF LoopStep
<1> QED
  BY <1>1 DEF NextLoop, Rounds

\* Typing is an invariant of every step.
LEMMA TypeStep == TypeOK /\ [Next]_vars => TypeOK'
<1> SUFFICES ASSUME TypeOK, [Next]_vars PROVE TypeOK'
    OBVIOUS
<1> USE SizeAssumption, RequestsAssumption DEF TypeOK, Slots, Ages, Rounds
<1>1. CASE InitList
  BY <1>1 DEF InitList, ring
<1>2. CASE SetItem
  <2>1. NextLoop \in 0..(Rounds - 1)
    BY NextLoopValue
  <2>2. Advance(i_write) \in Slots
    BY DEF Advance
  <2>4. i_wloop' \in 0..(Rounds - 1) /\ i_write' \in Slots /\ i_read' \in Slots
    BY <1>2, <2>1, <2>2 DEF SetItem
  <2>5. item_wloop' \in [Slots -> 0..(Rounds - 1)]
    BY <1>2 DEF SetItem
  <2>6. age' \in [Slots -> Ages] /\ newest' \in Ages
    BY <1>2 DEF SetItem, Older
  <2>7. valid' \in [Slots -> BOOLEAN] /\ alloc' \in BOOLEAN
    BY <1>2 DEF SetItem
  <2>8. overrun' \in BOOLEAN
    BY <1>2 DEF SetItem
  <2>9. requests' \in 0..MaxRequests
    BY <1>2 DEF SetItem
  <2> QED
    BY <2>4, <2>5, <2>6, <2>7, <2>8, <2>9
<1>3. CASE GetItem
  BY <1>3 DEF GetItem, Advance
<1>4. CASE ClearItem
  BY <1>4 DEF ClearItem
<1>5. CASE Close
  <2>1. requests' \in 0..MaxRequests /\ i_read' \in Slots /\ i_write' \in Slots
    BY <1>5 DEF Close
  <2>2. valid' \in [Slots -> BOOLEAN] /\ newest' \in Ages
    BY <1>5 DEF Close
  <2>3. UNCHANGED <<item_wloop, i_wloop, age>> /\ alloc' = FALSE /\ overrun' = FALSE
    BY <1>5 DEF Close
  <2> QED
    BY <2>1, <2>2, <2>3
<1>6. CASE UNCHANGED vars
  BY <1>6 DEF vars
<1> QED
  BY <1>1, <1>2, <1>3, <1>4, <1>5, <1>6 DEF Next

\* A write gives its own slot age 0 and moves every other one back by one.
LEMMA PlacedAfterSet == TypeOK /\ Placed /\ SetItem => Placed'
<1> SUFFICES ASSUME TypeOK, Placed, SetItem,
                    NEW i \in Slots, valid'[i]
             PROVE  /\ age'[i] = Behind(i)'
                    /\ \/ i_wloop' = item_wloop'[i] + Moved(i)'
                       \/ i_wloop' = item_wloop'[i] + Moved(i)' - Rounds
    BY DEF Placed, Slots
<1>1. i_wloop' = i_wloop + LoopStep \/ i_wloop' = i_wloop + LoopStep - Rounds
  BY NextLoopValue DEF SetItem
<1>2. /\ i_write \in Slots /\ i_wloop \in 0..(Rounds - 1)
      /\ item_wloop \in [Slots -> 0..(Rounds - 1)] /\ age \in [Slots -> Ages]
      /\ valid \in [Slots -> BOOLEAN]
  BY DEF TypeOK
<1>3. CASE i = i_write
  <2>1. age'[i] = 0 /\ item_wloop'[i] = i_wloop
    BY <1>2, <1>3 DEF SetItem
  <2>2. Behind(i)' = 0 /\ Moved(i)' = LoopStep
    BY <1>2, <1>3, SizeAssumption DEF SetItem, Behind, Moved, Advance, LoopStep, Slots
  <2> QED
    BY <1>1, <2>1, <2>2
<1>4. CASE i # i_write
  <2>1. valid[i] /\ item_wloop'[i] = item_wloop[i] /\ age'[i] = Older(age[i])
    BY <1>2, <1>4 DEF SetItem
  <2>2. Behind(i)' = Behind(i) + 1 /\ Moved(i)' = Moved(i) + LoopStep
    BY <1>2, <1>4, SizeAssumption DEF SetItem, Behind, Moved, Advance, LoopStep, Slots
  <2>3. Behind(i) \in 0..(DataSize - 2)
    BY <1>2, <1>4, SizeAssumption DEF Behind, Slots
  <2>4. age'[i] = Behind(i)'
    BY <2>1, <2>2, <2>3, SizeAssumption DEF Placed, Older
  <2>5. Moved(i) \in 0..(DataSize + 1)
    BY <1>2, <1>4, SizeAssumption DEF Moved, Behind, Slots
  <2>6. \/ i_wloop = item_wloop[i] + Moved(i)
        \/ i_wloop = item_wloop[i] + Moved(i) - Rounds
    BY <2>1 DEF Placed
  <2>7. item_wloop[i] \in 0..(Rounds - 1) /\ i_wloop' \in 0..(Rounds - 1)
    BY <1>2, TypeStep DEF TypeOK, Next
  <2>8. \/ i_wloop' = item_wloop'[i] + Moved(i)'
        \/ i_wloop' = item_wloop'[i] + Moved(i)' - Rounds
    BY <1>1, <1>2, <2>1, <2>2, <2>5, <2>6, <2>7, NextLoopValue, SizeAssumption
    DEF Rounds
  <2> QED
    BY <2>4, <2>8
<1> QED
  BY <1>3, <1>4

\* Every step keeps each unread frame in its place.
LEMMA PlacedStep == TypeOK /\ Placed /\ [Next]_vars => Placed'
<1> SUFFICES ASSUME TypeOK, Placed, [Next]_vars PROVE Placed'
    OBVIOUS
<1> USE DEF Placed, Behind, Moved
<1>1. CASE InitList
  BY <1>1 DEF InitList, ring, Slots
<1>2. CASE SetItem
  BY <1>2, PlacedAfterSet
<1>3. CASE GetItem
  BY <1>3 DEF GetItem, TypeOK, Slots
<1>4. CASE ClearItem
  BY <1>4 DEF ClearItem, Slots
<1>5. CASE Close
  BY <1>5 DEF Close, Slots
<1>6. CASE UNCHANGED vars
  BY <1>6 DEF vars, Slots
<1> QED
  BY <1>1, <1>2, <1>3, <1>4, <1>5, <1>6 DEF Next

\* The window of unread frames that Aligned speaks of, n frames long.
Window(n) == /\ i_write = IF i_read + n < DataSize THEN i_read + n
                                                   ELSE i_read + n - DataSize
             /\ \A i \in Slots : valid[i] <=>
                  \/ i_read <= i /\ i < i_read + n
                  \/ i_read <= i + DataSize /\ i + DataSize < i_read + n

\* The window grows by one frame with a write that overwrites nothing unread, and
\* shrinks by one with a read.
LEMMA AlignedStep == TypeOK /\ Aligned /\ [Next]_vars => Aligned'
<1> SUFFICES ASSUME TypeOK, Aligned, [Next]_vars, ~overrun'
             PROVE  \E n \in 0..DataSize : Window(n)'
    BY DEF Aligned, Window
<1> USE SizeAssumption
<1>0. ~overrun => \E n \in 0..DataSize : Window(n)
  BY DEF Aligned, Window
<1>1. CASE InitList \/ UNCHANGED vars
  BY <1>0, <1>1 DEF InitList, ring, vars, Window
<1>2. CASE SetItem
  <2>1. ~overrun /\ ~valid[i_write]
    BY <1>2 DEF SetItem
  <2>2. PICK n \in 0..DataSize : Window(n)
    BY <1>0, <2>1
  <2>3. n < DataSize
    BY <2>1, <2>2 DEF Window, TypeOK, Slots
  <2>4. Window(n + 1)'
    <3>1. i_write' = IF i_read' + (n + 1) < DataSize THEN i_read' + (n + 1)
                                             ELSE i_read' + (n + 1) - DataSize
      <4>1. i_read \in 0..(DataSize - 1) /\ i_read' = i_read
        BY <1>2 DEF SetItem, TypeOK, Slots
      <4>2. i_write' = Advance(i_write)
        BY <1>2 DEF SetItem
      <4>3. i_write = IF i_read + n < DataSize THEN i_read + n
                                               ELSE i_read + n - DataSize
        BY <2>2 DEF Window
      <4> QED
        BY <2>3, <4>1, <4>2, <4>3 DEF Advance
    <3>2. ASSUME NEW i \in Slots
          PROVE  valid'[i] <=>
                  \/ i_read' <= i /\ i < i_read' + (n + 1)
                  \/ i_read' <= i + DataSize /\ i + DataSize < i_read' + (n + 1)
      <4>1. CASE i = i_write
        BY <1>2, <2>2, <2>3, <4>1 DEF SetItem, Window, TypeOK, Slots
      <4>2. CASE i # i_write
        <5>1. valid'[i] = valid[i]
          BY <1>2, <4>2 DEF SetItem, TypeOK
        <5> QED
          BY <1>2, <2>2, <2>3, <4>2, <5>1 DEF SetItem, Window, TypeOK, Slots
      <4> QED
        BY <4>1, <4>2
    <3> QED
      BY <3>1, <3>2 DEF Window, Slots
  <2> QED
    BY <2>3, <2>4
<1>3. CASE GetItem
  <2>1. ~overrun /\ valid[i_read]
    BY <1>3 DEF GetItem, Readable
  <2>2. PICK n \in 0..DataSize : Window(n)
    BY <1>0, <2>1
  <2>3. n > 0
    BY <2>1, <2>2 DEF Window, TypeOK, Slots
  <2>4. Window(n - 1)'
    <3>1. i_write' = IF i_read' + (n - 1) < DataSize THEN i_read' + (n - 1)
                                             ELSE i_read' + (n - 1) - DataSize
      BY <1>3, <2>2, <2>3 DEF GetItem, Window, TypeOK, Slots, Advance
    <3>2. ASSUME NEW i \in Slots
          PROVE  valid'[i] <=>
                  \/ i_read' <= i /\ i < i_read' + (n - 1)
                  \/ i_read' <= i + DataSize /\ i + DataSize < i_read' + (n - 1)
      <4>1. CASE i = i_read
        <5>1. ~valid'[i]
          BY <1>3, <4>1 DEF GetItem, TypeOK
        <5> QED
          BY <1>3, <2>2, <2>3, <4>1, <5>1 DEF GetItem, TypeOK, Slots, Advance
      <4>2. CASE i # i_read
        <5>1. valid'[i] = valid[i]
          BY <1>3, <4>2 DEF GetItem, TypeOK
        <5> QED
          BY <1>3, <2>2, <2>3, <4>2, <5>1
          DEF GetItem, Window, TypeOK, Slots, Advance
      <4> QED
        BY <4>1, <4>2
    <3> QED
      BY <3>1, <3>2 DEF Window, Slots
  <2> QED
    BY <2>3, <2>4
<1>4. CASE ClearItem \/ Close
  <2>1. valid' = [i \in Slots |-> FALSE]
    BY <1>4 DEF ClearItem, Close
  <2>2. i_read' = i_write' /\ i_read' \in Slots
    <3>1. CASE ClearItem
      <4>1. i_read = i_write
        BY <3>1, Zenon DEF ClearItem
      <4> QED
        BY <3>1, <4>1 DEF ClearItem, TypeOK
    <3>2. CASE Close
      BY <3>2 DEF Close, Slots
    <3> QED
      BY <1>4, <3>1, <3>2
  <2>3. Window(0)'
    <3>1. i_write' = IF i_read' + 0 < DataSize THEN i_read' + 0
                                               ELSE i_read' + 0 - DataSize
      <4>1. \A r \in Slots : r = IF r + 0 < DataSize THEN r + 0 ELSE r + 0 - DataSize
        BY DEF Slots
      <4> QED
        BY <2>2, <4>1
    <3>2. ASSUME NEW i \in Slots
          PROVE  valid'[i] <=> \/ i_read' <= i /\ i < i_read' + 0
                               \/ i_read' <= i + DataSize /\ i + DataSize < i_read' + 0
      <4>1. \A r \in Slots : ~ \/ r <= i /\ i < r + 0
                               \/ r <= i + DataSize /\ i + DataSize < r + 0
        BY DEF Slots
      <4>2. valid'[i] = FALSE
        BY <2>1
      <4> QED
        BY <2>2, <4>1, <4>2
    <3> QED
      BY <3>1, <3>2 DEF Window, Slots
  <2> QED
    BY <2>3
<1> QED
  BY <1>1, <1>2, <1>3, <1>4 DEF Next

\* The frame at i_read is the oldest of the window, so reading it keeps Ordered.
LEMMA OrderedStep == IInv /\ [Next]_vars => Ordered'
<1> SUFFICES ASSUME IInv, [Next]_vars, ~overrun',
                    NEW i \in Slots, valid'[i]
             PROVE  age'[i] < newest'
    BY DEF Ordered, Slots
<1> USE SizeAssumption
<1>0. /\ age \in [Slots -> Ages] /\ newest \in Ages /\ valid \in [Slots -> BOOLEAN]
      /\ i_read \in Slots /\ i_write \in Slots
  BY DEF IInv, TypeOK
<1>1. ~overrun /\ valid[i] => age[i] < newest /\ age[i] = Behind(i)
  BY DEF IInv, Ordered, Placed
<1>2. CASE InitList \/ UNCHANGED vars
  BY <1>1, <1>2 DEF InitList, ring, vars
<1>3. CASE SetItem
  <2>1. ~overrun
    BY <1>3 DEF SetItem
  <2>2. CASE i = i_write
    <3>1. age'[i] = 0
      BY <1>0, <1>3, <2>2 DEF SetItem
    <3>2. newest' \in 1..DataSize
      BY <1>0, <1>3 DEF SetItem, Older, Ages
    <3> QED
      BY <3>1, <3>2
  <2>3. CASE i # i_write
    <3>1. valid[i] /\ age'[i] = Older(age[i]) /\ newest' = Older(newest)
      BY <1>0, <1>3, <2>3 DEF SetItem
    <3>2. Behind(i) < DataSize - 1
      BY <1>0, <2>3 DEF Behind, Slots
    <3> QED
      BY <1>0, <1>1, <2>1, <3>1, <3>2 DEF Older, Ages
  <2> QED
    BY <2>2, <2>3
<1>4. CASE GetItem
  <2>1. ~overrun /\ valid[i_read]
    BY <1>4 DEF GetItem, Readable
  <2>2. i # i_read /\ valid[i] /\ age' = age
    BY <1>0, <1>4 DEF GetItem
  <2>3. PICK n \in 0..DataSize : Window(n)
    BY <2>1 DEF IInv, Aligned, Window
  <2>4. age[i_read] = Behind(i_read) /\ age[i_read] < newest
    BY <1>0, <2>1 DEF IInv, Placed, Ordered
  <2>5. Behind(i) < Behind(i_read)
    BY <1>0, <2>2, <2>3 DEF Window, Behind, Slots
  <2>6. newest' = age[i_read]
    BY <1>4, <2>4 DEF GetItem
  <2> QED
    BY <1>1, <2>1, <2>2, <2>4, <2>5, <2>6
<1>5. CASE ClearItem \/ Close
  BY <1>5 DEF ClearItem, Close
<1> QED
  BY <1>2, <1>3, <1>4, <1>5 DEF Next

\* The inductive invariant holds in every reachable state.
THEOREM Invariant == Spec => []IInv
<1>1. Init => IInv
  <2> SUFFICES ASSUME Init PROVE IInv
      OBVIOUS
  <2> USE SizeAssumption, RequestsAssumption DEF Init
  <2>1. TypeOK
    <3>1. 0 \in Slots /\ 0 \in 0..(Rounds - 1) /\ DataSize \in Ages /\ 0 \in 0..MaxRequests
      BY DEF Slots, Ages, Rounds
    <3> QED
      BY <3>1 DEF TypeOK
  <2>2. Placed /\ Ordered
    BY DEF Placed, Ordered
  <2>3. Window(0)
    BY DEF Window, Slots
  <2>4. Aligned
    BY <2>3 DEF Aligned, Window
  <2> QED
    BY <2>1, <2>2, <2>4 DEF IInv
<1>2. IInv /\ [Next]_vars => IInv'
  BY TypeStep, PlacedStep, AlignedStep, OrderedStep DEF IInv
<1> QED
  BY <1>1, <1>2, PTL DEF Spec

\* TypeOK, for every DATA_SIZE: the cursors stay inside the arrays that
\* get_yuv_item and set_yuv_item index.
THEOREM TypeCorrect == Spec => []TypeOK
  BY Invariant, PTL DEF IInv

\* Fresh, for every DATA_SIZE: get_yuv_item only ever finds one of the last
\* DATA_SIZE frames.
THEOREM Freshness == Spec => []Fresh
<1>1. IInv => Fresh
  <2> SUFFICES ASSUME IInv, NEW i \in Slots, valid[i] PROVE age[i] < DataSize
      BY DEF Fresh
  <2>1. age[i] = Behind(i)
    BY DEF IInv, Placed
  <2> QED
    BY <2>1, SizeAssumption DEF IInv, TypeOK, Behind, Slots
<1> QED
  BY <1>1, Invariant, PTL

\* LoopGuardIdle, for every DATA_SIZE below 98: the second half of the test in
\* get_yuv_item is always true when the first is.
THEOREM GuardNeverRefuses == Spec => []LoopGuardIdle
<1>1. IInv => LoopGuardIdle
  <2> SUFFICES ASSUME IInv, NEW i \in Slots, valid[i]
               PROVE  item_wloop[i] # i_wloop + 1
      BY DEF LoopGuardIdle, LoopGuard
  <2>1. \/ i_wloop = item_wloop[i] + Moved(i)
        \/ i_wloop = item_wloop[i] + Moved(i) - Rounds
    BY DEF IInv, Placed
  <2>2. Moved(i) \in 1..(DataSize + 1)
    BY SizeAssumption DEF IInv, TypeOK, Moved, Behind, Slots
  <2>3. item_wloop[i] \in 0..(Rounds - 1)
    BY DEF IInv, TypeOK
  <2> QED
    BY <2>1, <2>2, <2>3, SizeAssumption DEF Rounds
<1> QED
  BY <1>1, Invariant, PTL

\* Aligned, for every DATA_SIZE: without overrun the reader sees every frame
\* exactly once.
THEOREM Alignment == Spec => []Aligned
  BY Invariant, PTL DEF IInv

\* InOrderWhileAligned, for every DATA_SIZE: without overrun frames are read in
\* the order they were written.
THEOREM InOrder == Spec => InOrderWhileAligned
<1>1. IInv /\ [Next]_vars => [GetItem /\ ~overrun => age[i_read] < newest]_vars
  BY DEF IInv, Ordered, TypeOK, GetItem, Readable
<1> QED
  BY <1>1, Invariant, PTL DEF Spec, InOrderWhileAligned

----------------------------------------------------------------------------
(* The ring of the websocket output.                                       *)

\* The places from b on to a, around the ring.
Dist(a, b) == IF b <= a THEN a - b ELSE a - b + RingSize

\* What a slot of the ring may have.
Payloads == Messages \union {None}

WsTypes ==
    /\ slot \in [WsSlots -> Payloads]
    /\ head \in WsSlots /\ oldest \in WsSlots
    /\ live \subseteq Sessions
    /\ tail \in [Sessions -> WsSlots]
    /\ asked \subseteq Sessions /\ told \subseteq Sessions
    /\ cancelled \in BOOLEAN /\ cmd_play \in BOOLEAN
    /\ sender \in {"turn", "test", "send"}
    /\ serial \in Messages
    /\ got \in [Sessions -> Payloads]

\* Who is not connected has not been sent anything.
Newcomers == \A s \in Sessions \ live : got[s] = None

WsInv == WsTypes /\ PayloadExact /\ Newcomers

\* The remainders of the ring are differences and sums of places.
LEMMA DistIsRemainder ==
    ASSUME NEW a \in WsSlots, NEW b \in WsSlots
    PROVE  /\ (a - b) % RingSize = Dist(a, b)
           /\ Dist(a, b) \in 0..RingSize - 1
  <1>1. a \in Int /\ b \in Int /\ RingSize \in Nat \ {0}
    BY SizesAssumption DEF WsSlots
  <1>2. /\ 0 <= a - b + (IF b <= a THEN 0 ELSE RingSize)
        /\ a - b + (IF b <= a THEN 0 ELSE RingSize) < RingSize
    BY <1>1 DEF WsSlots
  <1>3. CASE b <= a
    <2>1. PICK d \in 0..RingSize - 1 : d = a - b
      BY <1>1, <1>2, <1>3
    <2>2. d % RingSize = d
      BY <1>1, <2>1
    <2> QED
      BY <1>3, <2>1, <2>2 DEF Dist
  <1>4. CASE ~(b <= a)
    <2>1. PICK d \in 0..RingSize - 1 : a - b = d - RingSize
      BY <1>1, <1>2, <1>4
    <2>2. (d - RingSize) % RingSize = d
      BY <1>1, <2>1
    <2>3. d = a - b + RingSize
      BY <1>1, <2>1
    <2> QED
      BY <1>4, <2>1, <2>2, <2>3 DEF Dist
  <1> QED
    BY <1>3, <1>4

LEMMA SumIsPlace ==
    ASSUME NEW o \in WsSlots, NEW n \in 0..RingSize
    PROVE  /\ (o + n) % RingSize \in WsSlots
           /\ (o + n) % RingSize =
                  IF o + n < RingSize THEN o + n ELSE o + n - RingSize
  <1>1. o \in Nat /\ n \in Nat /\ RingSize \in Nat \ {0} /\ o < RingSize
    BY SizesAssumption DEF WsSlots
  <1>2. CASE o + n < RingSize
    <2>1. PICK k \in 0..RingSize - 1 : k = o + n
      BY <1>1, <1>2
    <2>2. k % RingSize = k
      BY <1>1, <2>1
    <2> QED
      BY <1>1, <1>2, <2>1, <2>2 DEF WsSlots
  <1>3. CASE ~(o + n < RingSize)
    <2>1. PICK k \in 0..RingSize - 1 : o + n = k + RingSize
      BY <1>1, <1>3
    <2>2. (k + RingSize) % RingSize = k
      BY <1>1, <2>1
    <2>3. k = o + n - RingSize
      BY <1>1, <2>1
    <2> QED
      BY <1>1, <1>3, <2>1, <2>2, <2>3 DEF WsSlots
  <1> QED
    BY <1>2, <1>3

\* What lies between a place and the head.
LEMMA WaitingIsDist ==
    ASSUME WsTypes, NEW i \in WsSlots
    PROVE  Waiting(i) = Dist(head, i) /\ Waiting(i) \in 0..RingSize - 1
  BY DistIsRemainder DEF WsTypes, Waiting

\* A set of numbers that is not empty has a least one.
LEMMA LeastNumber ==
    ASSUME NEW T, T \subseteq Nat, T # {}
    PROVE  \E x \in T : \A y \in T : x <= y
  <1>1. PICK x \in T : \A y \in T : ~(<<y, x>> \in OpToRel(<, Nat))
    BY NatLessThanWellFounded, WFMin
  <1>2. \A y \in T : y < x => <<y, x>> \in OpToRel(<, Nat)
    BY DEF OpToRel
  <1>3. ASSUME NEW y \in T PROVE x <= y
    <2>1. ~(y < x)
      BY <1>1, <1>2
    <2>2. x \in Nat /\ y \in Nat
      OBVIOUS
    <2> QED
      BY <2>1, <2>2
  <1> QED
    BY <1>3

\* Among the tails of any number of sessions one has the most messages waiting: it
\* is the one Furthest chooses.
LEMMA FurthestIsFurthest ==
    ASSUME WsTypes, NEW t \in [Sessions -> WsSlots], live # {}
    PROVE  /\ Furthest(t) \in {t[s] : s \in live}
           /\ Furthest(t) \in WsSlots
           /\ \A s \in live : Dist(head, t[s]) <= Dist(head, Furthest(t))
  <1> DEFINE Spare(s) == RingSize - 1 - Dist(head, t[s])
             P(i) == /\ i \in {t[s] : s \in live}
                     /\ \A s \in live : (head - t[s]) % RingSize <= (head - i) % RingSize
  <1>1. head \in WsSlots /\ live \subseteq Sessions /\ RingSize \in Nat
    BY SizesAssumption DEF WsTypes
  <1>2. \A s \in live : /\ t[s] \in WsSlots
                        /\ (head - t[s]) % RingSize = Dist(head, t[s])
                        /\ Dist(head, t[s]) \in 0..RingSize - 1
    BY <1>1, DistIsRemainder
  <1>3. \A s \in live : Spare(s) \in Nat
    BY <1>1, <1>2
  <1>4. PICK x \in {Spare(s) : s \in live} : \A y \in {Spare(s) : s \in live} : x <= y
    <2>1. {Spare(s) : s \in live} \subseteq Nat /\ {Spare(s) : s \in live} # {}
      BY <1>3
    <2> HIDE DEF Spare
    <2> QED
      BY <2>1, LeastNumber
  <1>5. PICK u \in live : x = Spare(u)
    BY <1>4
  <1>6. \A s \in live : Dist(head, t[s]) <= Dist(head, t[u])
    <2> SUFFICES ASSUME NEW s \in live PROVE Dist(head, t[s]) <= Dist(head, t[u])
      OBVIOUS
    <2>1. Spare(u) <= Spare(s)
      BY <1>4, <1>5
    <2>2. PICK m \in 0..RingSize - 1, n \in 0..RingSize - 1 :
              m = Dist(head, t[s]) /\ n = Dist(head, t[u])
      BY <1>2
    <2>3. RingSize - 1 - n <= RingSize - 1 - m
      BY <2>1, <2>2
    <2>4. m <= n
      BY <2>3, <1>1
    <2> QED
      BY <2>2, <2>4
  <1>7. P(t[u])
    BY <1>2, <1>6
  <1>8. Furthest(t) = CHOOSE i : P(i)
    BY DEF Furthest
  <1>9. P(Furthest(t))
    BY <1>7, <1>8
  <1>10. PICK w \in live : Furthest(t) = t[w]
    BY <1>9
  <1> QED
    BY <1>9, <1>10, <1>2

\* A session moves on by one message; the oldest tail moves to the session that has
\* the most waiting, and only the slots that it passes are freed.
LEMMA ConsumeMoves ==
    ASSUME WsTypes, PayloadExact, NEW s \in live, Waiting(tail[s]) > 0, Consume(s)
    PROVE  /\ tail' \in [Sessions -> WsSlots]
           /\ \A u \in Sessions \ {s} : tail'[u] = tail[u]
           /\ Dist(head, tail'[s]) = Dist(head, tail[s]) - 1
           /\ oldest' \in WsSlots
           /\ Dist(head, oldest') <= Dist(head, oldest)
           /\ \A u \in live : Dist(head, tail'[u]) <= Dist(head, oldest')
           /\ slot' = [i \in WsSlots |->
                          IF Dist(i, oldest) < Dist(oldest', oldest)
                          THEN None ELSE slot[i]]
  <1> DEFINE new == [tail EXCEPT ![s] = (tail[s] + 1) % RingSize]
             old == IF tail[s] = oldest THEN Furthest(new) ELSE oldest
  <1>1. /\ head \in WsSlots /\ oldest \in WsSlots /\ s \in Sessions
        /\ live \subseteq Sessions
        /\ tail \in [Sessions -> WsSlots] /\ RingSize \in Nat \ {0, 1}
    BY SizesAssumption DEF WsTypes
  <1>2. /\ tail[s] \in WsSlots /\ 1 \in 0..RingSize
        /\ (tail[s] + 1) % RingSize \in WsSlots
        /\ (tail[s] + 1) % RingSize =
               IF tail[s] + 1 < RingSize THEN tail[s] + 1 ELSE tail[s] + 1 - RingSize
    BY <1>1, SumIsPlace
  <1>3. new \in [Sessions -> WsSlots] /\ new[s] = (tail[s] + 1) % RingSize
    BY <1>1, <1>2
  <1>4. Dist(head, tail[s]) # 0
    BY <1>2, WaitingIsDist
  <1>5. Dist(head, new[s]) = Dist(head, tail[s]) - 1
    BY <1>1, <1>2, <1>3, <1>4 DEF Dist, WsSlots
  <1>6. \A u \in Sessions \ {s} : new[u] = tail[u]
    BY <1>1
  <1>7. tail' = new /\ oldest' = old
        /\ slot' = [i \in WsSlots |-> IF Passed(i, old) THEN None ELSE slot[i]]
    BY DEF Consume
  <1> HIDE DEF new
  <1>8. \A u \in live : Dist(head, tail[u]) <= Dist(head, oldest)
    BY <1>1, WaitingIsDist DEF PayloadExact
  <1>9. \A u \in live : Dist(head, new[u]) <= Dist(head, tail[u])
    BY <1>1, <1>2, <1>5, <1>6, DistIsRemainder
  <1>10. /\ old \in WsSlots /\ Dist(head, old) <= Dist(head, oldest)
         /\ \A u \in live : Dist(head, new[u]) <= Dist(head, old)
    <2>1. CASE tail[s] = oldest
      <3>1. /\ old = Furthest(new) /\ Furthest(new) \in {new[u] : u \in live}
            /\ Furthest(new) \in WsSlots
            /\ \A u \in live : Dist(head, new[u]) <= Dist(head, Furthest(new))
        BY <1>3, <2>1, FurthestIsFurthest
      <3>2. PICK u \in live : old = new[u]
        BY <3>1
      <3>3. Dist(head, new[u]) <= Dist(head, oldest)
        <4>1. /\ new[u] \in WsSlots /\ tail[u] \in WsSlots
              /\ Dist(head, new[u]) <= Dist(head, tail[u])
              /\ Dist(head, tail[u]) <= Dist(head, oldest)
          BY <1>1, <1>3, <1>8, <1>9
        <4>2. /\ Dist(head, new[u]) \in Int /\ Dist(head, tail[u]) \in Int
              /\ Dist(head, oldest) \in Int
          BY <1>1, <4>1, DistIsRemainder
        <4> QED
          BY <4>1, <4>2
      <3> QED
        BY <3>1, <3>2, <3>3
    <2>2. CASE tail[s] # oldest
      <3>1. old = oldest
        BY <2>2
      <3>2. ASSUME NEW u \in live PROVE Dist(head, new[u]) <= Dist(head, oldest)
        <4>1. /\ new[u] \in WsSlots /\ tail[u] \in WsSlots
              /\ Dist(head, new[u]) <= Dist(head, tail[u])
              /\ Dist(head, tail[u]) <= Dist(head, oldest)
          BY <1>1, <1>3, <1>8, <1>9
        <4>2. /\ Dist(head, new[u]) \in Int /\ Dist(head, tail[u]) \in Int
              /\ Dist(head, oldest) \in Int
          BY <1>1, <4>1, DistIsRemainder
        <4> QED
          BY <4>1, <4>2
      <3>3. Dist(head, oldest) \in Int
        BY <1>1, DistIsRemainder
      <3> QED
        BY <1>1, <3>1, <3>2, <3>3
    <2> QED
      BY <2>1, <2>2
  <1> HIDE DEF old
  <1>11. \A i \in WsSlots : Passed(i, old) <=> Dist(i, oldest) < Dist(old, oldest)
    BY <1>1, <1>10, DistIsRemainder DEF Passed
  <1> QED
    BY <1>3, <1>5, <1>6, <1>7, <1>10, <1>11

\* PayloadExact in terms of distances.
Exact ==
    /\ \A i \in WsSlots :
          /\ Dist(i, oldest) < Dist(head, oldest) => slot[i] \in Messages
          /\ ~(Dist(i, oldest) < Dist(head, oldest)) => slot[i] = None
    /\ \A s \in live : Dist(head, tail[s]) <= Dist(head, oldest)
    /\ asked \union told \subseteq live

LEMMA ExactIsExact == WsTypes => (PayloadExact <=> Exact)
  <1> SUFFICES ASSUME WsTypes PROVE PayloadExact <=> Exact
    OBVIOUS
  <1>1. \A i \in WsSlots : (i - oldest) % RingSize = Dist(i, oldest)
    BY DistIsRemainder DEF WsTypes
  <1>2. \A s \in live : Waiting(tail[s]) = Dist(head, tail[s])
    BY WaitingIsDist DEF WsTypes
  <1>3. Waiting(oldest) = Dist(head, oldest)
    BY WaitingIsDist DEF WsTypes
  <1> QED
    BY <1>1, <1>2, <1>3 DEF PayloadExact, Exact

\* A message is put where the head was, and the head moves on: nothing that waits
\* is overtaken.
LEMMA InsertPlaces ==
    ASSUME WsTypes, Exact, Room, Insert
    PROVE  /\ head' \in WsSlots /\ serial' \in Messages
           /\ slot' = [slot EXCEPT ![head] = serial]
           /\ \A i \in WsSlots : Dist(head, i) <= Dist(head, oldest)
                                     => Dist(head', i) = Dist(head, i) + 1
           /\ \A i \in WsSlots \ {head} :
                  Dist(i, oldest) < Dist(head', oldest)
                      <=> Dist(i, oldest) < Dist(head, oldest)
  <1>1. head \in WsSlots /\ oldest \in WsSlots /\ RingSize \in Nat \ {0, 1}
    BY SizesAssumption DEF WsTypes
  <1>2. Dist(head, oldest) < RingSize - 1
    BY <1>1, WaitingIsDist DEF Room
  <1>3. /\ head' = (head + 1) % RingSize /\ 1 \in 0..RingSize
        /\ slot' = [slot EXCEPT ![head] = serial]
        /\ serial' = (serial + 1) % Serials
    BY <1>1 DEF Insert
  <1>4. /\ head' \in WsSlots
        /\ head' = IF head + 1 < RingSize THEN head + 1 ELSE head + 1 - RingSize
    BY <1>1, <1>3, SumIsPlace
  <1>5. serial' \in Messages
    <2>1. serial + 1 \in Int /\ Serials \in Nat \ {0}
      BY SizesAssumption DEF WsTypes, Messages
    <2> QED
      BY <1>3, <2>1 DEF Messages
  <1>6. ASSUME NEW i \in WsSlots, Dist(head, i) <= Dist(head, oldest)
        PROVE  Dist(head', i) = Dist(head, i) + 1
    BY <1>1, <1>2, <1>4, <1>6 DEF Dist, WsSlots
  <1>7. ASSUME NEW i \in WsSlots \ {head}
        PROVE  Dist(i, oldest) < Dist(head', oldest)
                   <=> Dist(i, oldest) < Dist(head, oldest)
    BY <1>1, <1>2, <1>4 DEF Dist, WsSlots
  <1> QED
    BY <1>3, <1>4, <1>5, <1>6, <1>7

\* The ring is as exact after an insertion as before.
LEMMA InsertHolds ==
    ASSUME WsTypes, Exact, Room, Insert, UNCHANGED <<oldest, live, tail, asked>>
    PROVE  Exact' /\ slot' \in [WsSlots -> Payloads]
  <1>1. /\ head \in WsSlots /\ oldest \in WsSlots /\ live \subseteq Sessions
        /\ tail \in [Sessions -> WsSlots]
        /\ slot \in [WsSlots -> Payloads] /\ serial \in Messages
    BY DEF WsTypes
  <1>2. /\ head' \in WsSlots
        /\ slot' = [slot EXCEPT ![head] = serial]
        /\ \A i \in WsSlots : Dist(head, i) <= Dist(head, oldest)
                                     => Dist(head', i) = Dist(head, i) + 1
        /\ \A i \in WsSlots \ {head} :
                  Dist(i, oldest) < Dist(head', oldest)
                      <=> Dist(i, oldest) < Dist(head, oldest)
    BY InsertPlaces
  <1>3. /\ \A i \in WsSlots : Dist(head, i) \in Int
        /\ Dist(head', oldest) = Dist(head, oldest) + 1
    BY <1>1, <1>2, DistIsRemainder
  <1>4. Dist(head, oldest) < Dist(head', oldest)
    BY <1>1, <1>3
  <1>5. ASSUME NEW i \in WsSlots
        PROVE  /\ Dist(i, oldest) < Dist(head', oldest) => slot'[i] \in Messages
               /\ ~(Dist(i, oldest) < Dist(head', oldest)) => slot'[i] = None
    <2>1. CASE i = head
      BY <2>1, <1>1, <1>2, <1>4
    <2>2. CASE i # head
      <3>1. slot'[i] = slot[i]
        BY <2>2, <1>1, <1>2
      <3> QED
        BY <2>2, <3>1, <1>2 DEF Exact
    <2> QED
      BY <2>1, <2>2
  <1>6. ASSUME NEW s \in live PROVE Dist(head', tail[s]) <= Dist(head', oldest)
    <2>1. tail[s] \in WsSlots /\ Dist(head, tail[s]) <= Dist(head, oldest)
      BY <1>1 DEF Exact
    <2>2. Dist(head', tail[s]) = Dist(head, tail[s]) + 1
      BY <2>1, <1>2
    <2> QED
      BY <2>1, <2>2, <1>1, <1>3
  <1>7. asked' \union told' \subseteq live
    BY DEF Exact, Insert
  <1>8. oldest' = oldest /\ live' = live /\ tail' = tail
    OBVIOUS
  <1>9. Exact'
    <2>1. \A i \in WsSlots :
          /\ Dist(i, oldest') < Dist(head', oldest') => slot'[i] \in Messages
          /\ ~(Dist(i, oldest') < Dist(head', oldest')) => slot'[i] = None
      BY <1>5, <1>8
    <2>2. \A s \in live' : Dist(head', tail'[s]) <= Dist(head', oldest')
      BY <1>6, <1>8
    <2> QED
      BY <1>7, <1>8, <2>1, <2>2 DEF Exact, Dist
  <1> QED
    BY <1>1, <1>2, <1>9 DEF Payloads

LEMMA WsInitInv == WsInit => WsInv
  <1> SUFFICES ASSUME WsInit PROVE WsInv
    OBVIOUS
  <1>1. RingSize \in Nat \ {0, 1} /\ Serials \in Nat \ {0}
    BY SizesAssumption
  <1>2. 0 \in WsSlots /\ 0 \in Messages
    BY <1>1 DEF WsSlots, Messages
  <1>3. WsTypes
    BY <1>2 DEF WsInit, WsTypes, Payloads
  <1>4. Exact
    <2>1. \A i \in WsSlots : ~(Dist(i, 0) < Dist(0, 0))
      BY <1>1 DEF Dist, WsSlots
    <2> QED
      BY <2>1 DEF WsInit, Exact
  <1>5. Newcomers
    BY DEF WsInit, Newcomers
  <1> QED
    BY <1>3, <1>4, <1>5, ExactIsExact DEF WsInv

\* When the oldest tail moves from o to n, what lies before the head from n on is what
\* lay before it from o on, less what was passed.
LEMMA PartLeft ==
    ASSUME NEW i \in WsSlots, NEW h \in WsSlots, NEW o \in WsSlots, NEW n \in WsSlots,
           Dist(h, n) <= Dist(h, o)
    PROVE  Dist(i, n) < Dist(h, n)
               <=> Dist(i, o) < Dist(h, o) /\ ~(Dist(i, o) < Dist(n, o))
  <1>1. RingSize \in Nat \ {0, 1}
    BY SizesAssumption
  <1> QED
    BY <1>1 DEF Dist, WsSlots

\* A session that is written to, or has nothing to be written.
LEMMA WriteHolds ==
    ASSUME WsTypes, PayloadExact, Newcomers, NEW s \in live, Write(s)
    PROVE  WsTypes' /\ Exact' /\ Newcomers'
  <1>1. /\ Waiting(tail[s]) > 0 /\ Consume(s)
        /\ got' = [got EXCEPT ![s] = slot[tail[s]]]
        /\ asked' \in {asked, asked \ {s}}
        /\ UNCHANGED <<head, serial, live, cancelled, cmd_play, sender, told>>
    BY DEF Write
  <1>2. /\ tail' \in [Sessions -> WsSlots]
        /\ oldest' \in WsSlots
        /\ Dist(head, oldest') <= Dist(head, oldest)
        /\ \A u \in live : Dist(head, tail'[u]) <= Dist(head, oldest')
        /\ slot' = [i \in WsSlots |->
                       IF Dist(i, oldest) < Dist(oldest', oldest)
                       THEN None ELSE slot[i]]
    BY <1>1, ConsumeMoves
  <1>3. /\ head \in WsSlots /\ oldest \in WsSlots /\ RingSize \in Nat \ {0, 1}
        /\ s \in Sessions /\ tail[s] \in WsSlots
        /\ slot \in [WsSlots -> Payloads]
        /\ got \in [Sessions -> Payloads]
    BY SizesAssumption DEF WsTypes
  <1>4. WsTypes'
    <2>1. slot' \in [WsSlots -> Payloads]
      BY <1>2, <1>3 DEF Payloads
    <2>2. got' \in [Sessions -> Payloads]
      BY <1>1, <1>3
    <2> QED
      BY <1>1, <1>2, <2>1, <2>2 DEF WsTypes
  <1>5. ASSUME NEW i \in WsSlots
        PROVE  /\ Dist(i, oldest') < Dist(head, oldest') => slot'[i] \in Messages
               /\ ~(Dist(i, oldest') < Dist(head, oldest')) => slot'[i] = None
    <2>1. /\ Dist(i, oldest) < Dist(head, oldest) => slot[i] \in Messages
          /\ ~(Dist(i, oldest) < Dist(head, oldest)) => slot[i] = None
      BY ExactIsExact DEF Exact
    <2>2. slot'[i] = IF Dist(i, oldest) < Dist(oldest', oldest) THEN None ELSE slot[i]
      BY <1>2
    <2>3. Dist(i, oldest') < Dist(head, oldest')
              <=> /\ Dist(i, oldest) < Dist(head, oldest)
                  /\ ~(Dist(i, oldest) < Dist(oldest', oldest))
      BY <1>2, <1>3, PartLeft
    <2> QED
      BY <2>1, <2>2, <2>3
  <1>6. Exact'
    <2>1. asked' \union told' \subseteq live'
      BY <1>1 DEF PayloadExact
    <2> QED
      BY <1>1, <1>2, <1>5, <2>1 DEF Exact, Dist
  <1>7. Newcomers'
    BY <1>1 DEF Newcomers
  <1> QED
    BY <1>4, <1>6, <1>7

\* A session comes or goes.
LEMMA SessionHolds ==
    ASSUME WsTypes, Exact, Newcomers, NEW s \in Sessions, Established(s) \/ Closed(s)
    PROVE  WsTypes' /\ Exact' /\ Newcomers'
  <1>1. /\ head \in WsSlots /\ oldest \in WsSlots /\ RingSize \in Nat \ {0, 1}
        /\ tail \in [Sessions -> WsSlots] /\ live \subseteq Sessions
        /\ Dist(head, oldest) \in Int /\ 0 \in WsSlots
    BY SizesAssumption, DistIsRemainder DEF WsTypes, WsSlots
  <1>2. UNCHANGED <<slot, head, serial, oldest, cancelled, cmd_play, sender>>
    BY DEF Established, Closed, ringVars
  <1>3. \A u \in live' : Dist(head, tail'[u]) <= Dist(head, oldest)
    <2>1. CASE Established(s)
      <3>1. tail'[s] = oldest /\ \A u \in live' \ {s} : u \in live /\ tail'[u] = tail[u]
        BY <1>1, <2>1 DEF Established
      <3> QED
        BY <1>1, <3>1 DEF Exact
    <2>2. CASE Closed(s)
      <3>1. \A u \in live' : u \in live /\ tail'[u] = tail[u]
        BY <1>1, <2>2 DEF Closed
      <3> QED
        BY <3>1 DEF Exact
    <2> QED
      BY <2>1, <2>2
  <1>4. Exact'
    <2>1. asked' \union told' \subseteq live'
      BY DEF Exact, Established, Closed
    <2> QED
      BY <1>2, <1>3, <2>1 DEF Exact, Dist
  <1>5. WsTypes'
    BY <1>1, <1>2 DEF WsTypes, Payloads, Established, Closed
  <1>6. Newcomers'
    BY DEF WsTypes, Newcomers, Established, Closed
  <1> QED
    BY <1>4, <1>5, <1>6

\* A message for the ring.
LEMMA SendMsgHolds ==
    ASSUME WsTypes, Exact, SendMsg, UNCHANGED <<oldest, live, tail, asked, got>>,
           cmd_play' \in BOOLEAN, sender' \in {"turn", "test", "send"}
    PROVE  WsTypes' /\ Exact'
  <1>1. CASE Room /\ Insert
    <2>1. Exact' /\ slot' \in [WsSlots -> Payloads]
      BY <1>1, InsertHolds
    <2>2. head' \in WsSlots /\ serial' \in Messages
      BY <1>1, InsertPlaces
    <2>3. cancelled' = TRUE /\ told' \subseteq Sessions
      BY <1>1 DEF Insert, WsTypes
    <2> QED
      BY <2>1, <2>2, <2>3 DEF WsTypes
  <1>2. CASE UNCHANGED <<ringVars, cancelled, told>>
    BY <1>2 DEF WsTypes, Exact, Dist, ringVars
  <1> QED
    BY <1>1, <1>2 DEF SendMsg

LEMMA WsStepInv == WsInv /\ [WsNext]_wsVars => WsInv'
  <1> SUFFICES ASSUME WsInv, [WsNext]_wsVars PROVE WsTypes' /\ Exact' /\ Newcomers'
    <2>1. (WsTypes => (PayloadExact <=> Exact))'
      BY ExactIsExact, PTL
    <2> QED
      BY <2>1 DEF WsInv
  <1>1. WsTypes /\ PayloadExact /\ Exact /\ Newcomers
    BY ExactIsExact DEF WsInv
  <1>2. ASSUME NEW s \in Sessions, Established(s) \/ Closed(s)
        PROVE  WsTypes' /\ Exact' /\ Newcomers'
    BY <1>1, <1>2, SessionHolds
  <1>3. ASSUME NEW s \in Sessions, Writeable(s)
        PROVE  WsTypes' /\ Exact' /\ Newcomers'
    <2>1. CASE Write(s)
      BY <1>1, <1>3, <2>1, WriteHolds DEF Writeable
    <2>2. CASE NothingToWrite(s)
      BY <1>1, <2>2 DEF NothingToWrite, ringVars, WsTypes, Exact, Newcomers, Dist
    <2> QED
      BY <1>3, <2>1, <2>2 DEF Writeable
  <1>4. ASSUME NEW s \in Sessions, Receive(s)
        PROVE  WsTypes' /\ Exact' /\ Newcomers'
    <2>1. cmd_play' \in BOOLEAN /\ sender' \in {"turn", "test", "send"}
      BY <1>1, <1>4 DEF Receive, WsTypes
    <2>2. SendMsg /\ UNCHANGED <<oldest, live, tail, asked, got>>
      BY <1>4 DEF Receive
    <2>3. Newcomers'
      BY <1>1, <2>2 DEF Newcomers
    <2> QED
      BY <1>1, <2>1, <2>2, <2>3, SendMsgHolds
  <1>5. CASE Send
    <2>1. cmd_play' \in BOOLEAN /\ sender' \in {"turn", "test", "send"}
      BY <1>1, <1>5 DEF Send, WsTypes
    <2>2. SendMsg /\ UNCHANGED <<oldest, live, tail, asked, got>>
      BY <1>5 DEF Send
    <2>3. Newcomers'
      BY <1>1, <2>2 DEF Newcomers
    <2> QED
      BY <1>1, <2>1, <2>2, <2>3, SendMsgHolds
  <1>6. CASE WaitCancelled \/ Turn \/ Test \/ UNCHANGED wsVars
    <2>1. /\ UNCHANGED <<slot, head, serial, oldest, live, tail, got, told, cmd_play>>
          /\ asked' \in {asked, live} /\ cancelled' \in {cancelled, FALSE}
          /\ sender' \in {sender, "turn", "test", "send"}
      BY <1>6 DEF WaitCancelled, Turn, Test, wsVars, ringVars
    <2> QED
      BY <1>1, <2>1 DEF WsTypes, Exact, Newcomers, Dist
  <1> QED
    BY <1>2, <1>3, <1>4, <1>5, <1>6 DEF WsNext

\* A slot of the websocket's ring holds a payload exactly while some session may still
\* be sent it, and every session has its tail in that part: for a ring of any size
\* and any sessions, whoever comes, goes, or is written to.
THEOREM RingPayloads == WsSpec => []PayloadExact
  <1>1. WsInv => PayloadExact
    BY DEF WsInv
  <1> QED
    BY <1>1, WsInitInv, WsStepInv, PTL DEF WsSpec

----------------------------------------------------------------------------
(* The ring implements the stream.                                         *)

\* What a ring r keeps from place o to place h, and what each session has left.
KeptOf(r, o, h) == [n \in 1..Dist(h, o) |-> r[(o + n - 1) % RingSize]]
Left == [s \in Sessions |-> IF s \in live THEN Waiting(tail[s]) ELSE 0]
LeftOf(l, t, h) == [s \in Sessions |-> IF s \in l THEN Dist(h, t[s]) ELSE 0]


\* The place k behind o.
Place(o, k) == (o + k) % RingSize

LEMMA Mapped ==
    WsTypes => Kept = KeptOf(slot, oldest, head) /\ Left = LeftOf(live, tail, head)
  <1> SUFFICES ASSUME WsTypes
               PROVE  Kept = KeptOf(slot, oldest, head) /\ Left = LeftOf(live, tail, head)
    OBVIOUS
  <1>1. Waiting(oldest) = Dist(head, oldest)
    BY WaitingIsDist DEF WsTypes
  <1>2. \A s \in live : Waiting(tail[s]) = Dist(head, tail[s])
    BY WaitingIsDist DEF WsTypes
  <1> QED
    BY <1>1, <1>2 DEF Kept, KeptOf, Left, LeftOf

\* The part of a ring from o to h is a sequence as long as that part; its n-th element
\* is in the slot n - 1 places from o.
LEMMA KeptIsSequence ==
    ASSUME NEW r \in [WsSlots -> Payloads], NEW o \in WsSlots, NEW h \in WsSlots
    PROVE  /\ KeptOf(r, o, h) \in Seq(Payloads)
           /\ Len(KeptOf(r, o, h)) = Dist(h, o)
           /\ \A n \in 1..Dist(h, o) :
                /\ KeptOf(r, o, h)[n] = r[Place(o, n - 1)]
                /\ Place(o, n - 1) \in WsSlots
  <1>1. RingSize \in Nat \ {0, 1} /\ o \in Nat
    BY SizesAssumption DEF WsSlots
  <1>2. Dist(h, o) \in 0..RingSize - 1 /\ Dist(h, o) \in Nat
    BY <1>1, DistIsRemainder
  <1>3. ASSUME NEW n \in 1..Dist(h, o)
        PROVE  Place(o, n - 1) = (o + n - 1) % RingSize /\ Place(o, n - 1) \in WsSlots
    <2>1. n - 1 \in 0..RingSize /\ o + n - 1 = o + (n - 1)
      BY <1>1, <1>2
    <2> QED
      BY <2>1, SumIsPlace DEF Place
  <1>4. ASSUME NEW n \in 1..Dist(h, o)
        PROVE  /\ KeptOf(r, o, h)[n] = r[Place(o, n - 1)]
               /\ r[Place(o, n - 1)] \in Payloads
    BY <1>3 DEF KeptOf
  <1>5. KeptOf(r, o, h) \in [1..Dist(h, o) -> Payloads]
    BY <1>4 DEF KeptOf
  <1> HIDE DEF KeptOf
  <1>6. KeptOf(r, o, h) \in Seq(Payloads) /\ Len(KeptOf(r, o, h)) = Dist(h, o)
    <2> DEFINE k == KeptOf(r, o, h)
               d == Dist(h, o)
    <2>1. k \in [1..d -> Payloads] /\ d \in Nat
      BY <1>2, <1>5
    <2> HIDE DEF k, d
    <2>2. k \in Seq(Payloads) /\ Len(k) = d
      BY <2>1
    <2> QED
      BY <2>2 DEF k, d
  <1> QED
    BY <1>3, <1>4, <1>6

\* A message at place h comes last.
LEMMA KeptAppends ==
    ASSUME NEW r \in [WsSlots -> Payloads], NEW o \in WsSlots, NEW h \in WsSlots,
           NEW g \in WsSlots, NEW m \in Payloads, Dist(g, o) = Dist(h, o) + 1
    PROVE  KeptOf([r EXCEPT ![h] = m], o, g) = Append(KeptOf(r, o, h), m)
  <1> DEFINE d == Dist(h, o)
             new == [r EXCEPT ![h] = m]
             a == Append(KeptOf(r, o, h), m)
             k == KeptOf(new, o, g)
  <1>1. RingSize \in Nat \ {0, 1} /\ d \in 0..RingSize - 1 /\ d + 1 \in 0..RingSize - 1
    BY SizesAssumption, DistIsRemainder
  <1>2. new \in [WsSlots -> Payloads]
    OBVIOUS
  <1>3. /\ k \in Seq(Payloads) /\ Len(k) = d + 1
        /\ \A n \in 1..d + 1 : k[n] = new[Place(o, n - 1)]
    <2> HIDE DEF new
    <2>1. /\ k \in Seq(Payloads) /\ Len(k) = Dist(g, o)
      BY <1>2, KeptIsSequence
    <2>2. \A n \in 1..Dist(g, o) : KeptOf(new, o, g)[n] = new[Place(o, n - 1)]
      <3> HIDE DEF k
      <3> QED
        BY <1>2, KeptIsSequence
    <2> QED
      BY <2>1, <2>2
  <1>4. /\ a \in Seq(Payloads) /\ Len(a) = d + 1
        /\ a[d + 1] = m
        /\ \A n \in 1..d : a[n] = r[Place(o, n - 1)]
    <2>1. /\ KeptOf(r, o, h) \in Seq(Payloads) /\ Len(KeptOf(r, o, h)) = d
          /\ \A n \in 1..d : KeptOf(r, o, h)[n] = r[Place(o, n - 1)]
      BY KeptIsSequence
    <2> QED
      BY <2>1, AppendProperties
  <1> HIDE DEF a, k, new
  <1>5. ASSUME NEW n \in 1..d + 1 PROVE k[n] = a[n]
    <2>1. /\ n - 1 \in 0..RingSize
          /\ Place(o, n - 1) \in WsSlots
          /\ Place(o, n - 1) =
                 IF o + (n - 1) < RingSize THEN o + (n - 1) ELSE o + (n - 1) - RingSize
      <3>1. n - 1 \in 0..RingSize
        BY <1>1
      <3> QED
        BY <3>1, SumIsPlace DEF Place
    <2>2. Place(o, n - 1) = h <=> n = d + 1
      <3>1. o \in Nat /\ h \in Nat /\ o < RingSize /\ h < RingSize
        BY <1>1 DEF WsSlots
      <3>2. d = IF o <= h THEN h - o ELSE h - o + RingSize
        BY DEF Dist
      <3> HIDE DEF d
      <3>3. PICK p \in Int : p = Place(o, n - 1)
        BY <2>1 DEF WsSlots
      <3> QED
        BY <1>1, <2>1, <3>1, <3>2, <3>3
    <2>3. CASE n = d + 1
      <3>1. k[n] = new[h]
        BY <1>3, <2>2, <2>3
      <3>2. new[h] = m
        BY DEF new
      <3> QED
        BY <1>4, <2>3, <3>1, <3>2
    <2>4. CASE n # d + 1
      <3>1. n \in 1..d
        BY <1>1, <2>4
      <3>2. k[n] = r[Place(o, n - 1)]
        BY <1>3, <2>1, <2>2, <2>4 DEF new
      <3> QED
        BY <1>4, <3>1, <3>2
    <2> QED
      BY <2>3, <2>4
  <1>6. k = a
    BY <1>3, <1>4, <1>5, SeqEqual
  <1> QED
    BY <1>6 DEF k, a, new

\* When the oldest tail moves from o to n, the first messages go.
LEMMA KeptLoses ==
    ASSUME NEW r \in [WsSlots -> Payloads], NEW q \in [WsSlots -> Payloads],
           NEW o \in WsSlots, NEW n \in WsSlots, NEW h \in WsSlots,
           Dist(h, n) <= Dist(h, o),
           \A i \in WsSlots : ~(Dist(i, o) < Dist(n, o)) => q[i] = r[i]
    PROVE  KeptOf(q, n, h) =
               SubSeq(KeptOf(r, o, h), Dist(h, o) - Dist(h, n) + 1, Dist(h, o))
  <1> DEFINE d == Dist(h, o)
             e == Dist(h, n)
             k == KeptOf(q, n, h)
             old == KeptOf(r, o, h)
             b == SubSeq(old, d - e + 1, d)
  <1>1. /\ RingSize \in Nat \ {0, 1} /\ d \in 0..RingSize - 1 /\ e \in 0..RingSize - 1
        /\ e <= d
    BY SizesAssumption, DistIsRemainder
  <1>2. /\ k \in Seq(Payloads) /\ Len(k) = e
        /\ \A j \in 1..e : k[j] = q[Place(n, j - 1)]
    <2> HIDE DEF d, old, b
    <2>1. k \in Seq(Payloads) /\ Len(k) = e
      BY KeptIsSequence
    <2>2. \A j \in 1..e : k[j] = q[Place(n, j - 1)]
      BY KeptIsSequence
    <2> QED
      BY <2>1, <2>2
  <1>3. /\ old \in Seq(Payloads) /\ Len(old) = d
        /\ \A j \in 1..d : old[j] = r[Place(o, j - 1)]
    <2> HIDE DEF e, k, b
    <2>1. old \in Seq(Payloads) /\ Len(old) = d
      BY KeptIsSequence
    <2>2. \A j \in 1..d : old[j] = r[Place(o, j - 1)]
      BY KeptIsSequence
    <2> QED
      BY <2>1, <2>2
  <1> HIDE DEF old, k
  <1>4. /\ b \in Seq(Payloads) /\ Len(b) = e
        /\ \A j \in 1..e : b[j] = old[d - e + j]
    <2> HIDE DEF d, e
    <2>1. /\ d - e + 1 \in Nat \ {0} /\ d \in Nat
          /\ \A i \in (d - e + 1)..d : i \in 1..Len(old)
      BY <1>1, <1>3
    <2>2. b \in Seq(Payloads)
      BY <1>1, <1>3, <2>1, SubSeqProperties
    <2>3. Len(b) = e
      BY <1>1, <1>3, <2>1, SubSeqProperties
    <2>4. ASSUME NEW j \in 1..e PROVE b[j] = old[d - e + j]
      <3>1. j \in 1..Len(b) /\ d - e + 1 + j - 1 = d - e + j
        BY <1>1, <2>3
      <3> QED
        BY <1>1, <1>3, <2>1, <2>3, <3>1, SubSeqProperties
    <2> QED
      BY <2>2, <2>3, <2>4
  <1>5. ASSUME NEW j \in 1..e PROVE k[j] = b[j]
    <2> DEFINE i == d - e + j
    <2>1. /\ i \in 1..d /\ j - 1 \in 0..RingSize /\ i - 1 \in 0..RingSize
          /\ i \in Int
      <3> HIDE DEF d, e
      <3> QED
        BY <1>1
    <2>2. /\ Place(n, j - 1) \in WsSlots
          /\ Place(n, j - 1) =
                 IF n + (j - 1) < RingSize THEN n + (j - 1) ELSE n + (j - 1) - RingSize
          /\ Place(o, i - 1) \in WsSlots
          /\ Place(o, i - 1) =
                 IF o + (i - 1) < RingSize THEN o + (i - 1) ELSE o + (i - 1) - RingSize
      BY <2>1, SumIsPlace DEF Place
    <2>3. /\ Place(n, j - 1) = Place(o, i - 1)
          /\ ~(Dist(Place(n, j - 1), o) < Dist(n, o))
      <3>1. PICK p \in WsSlots : p = Place(n, j - 1)
        BY <2>2
      <3>2. PICK f \in WsSlots : f = Place(o, i - 1)
        BY <2>2
      <3>3. /\ d = IF o <= h THEN h - o ELSE h - o + RingSize
            /\ e = IF n <= h THEN h - n ELSE h - n + RingSize
            /\ Dist(n, o) = IF o <= n THEN n - o ELSE n - o + RingSize
            /\ Dist(p, o) = IF o <= p THEN p - o ELSE p - o + RingSize
        BY DEF Dist
      <3>4. /\ o \in Nat /\ h \in Nat /\ n \in Nat /\ p \in Nat /\ f \in Nat
            /\ o < RingSize /\ h < RingSize /\ n < RingSize /\ p < RingSize
        BY <1>1 DEF WsSlots
      <3> HIDE DEF d, e
      <3>5. p = f
        BY <1>1, <2>2, <3>1, <3>2, <3>3, <3>4
      <3>6. ~(Dist(p, o) < Dist(n, o))
        BY <1>1, <2>2, <3>1, <3>3, <3>4
      <3> QED
        BY <3>1, <3>2, <3>5, <3>6
    <2>4. k[j] = q[Place(n, j - 1)]
      BY <1>2
    <2>5. b[j] = r[Place(o, i - 1)]
      BY <1>3, <1>4, <2>1
    <2> QED
      BY <2>2, <2>3, <2>4, <2>5
  <1> HIDE DEF b, e
  <1>6. k = b
    BY <1>2, <1>4, <1>5, SeqEqual
  <1> QED
    BY <1>6 DEF k, b, old, e

\* The steps of a session that comes, goes, or is written to, and of an insertion.
LEMMA JoinRefines ==
    ASSUME WsTypes, Newcomers, NEW s \in Sessions, Established(s),
           Kept = KeptOf(slot, oldest, head), Kept' = KeptOf(slot', oldest', head'),
           Left = LeftOf(live, tail, head), Left' = LeftOf(live', tail', head')
    PROVE  Stream!Join(s)
  <1>1. /\ s \notin live /\ live' = live \union {s}
        /\ tail' = [tail EXCEPT ![s] = oldest]
        /\ UNCHANGED <<slot, head, oldest, got>>
    BY DEF Established, ringVars
  <1>2. /\ tail \in [Sessions -> WsSlots] /\ slot \in [WsSlots -> Payloads]
        /\ head \in WsSlots /\ oldest \in WsSlots /\ live \subseteq Sessions
        /\ got \in [Sessions -> Payloads]
    BY DEF WsTypes, Payloads
  <1>3. Kept' = Kept /\ Len(Kept) = Dist(head, oldest)
    <2>1. Len(KeptOf(slot, oldest, head)) = Dist(head, oldest)
      BY <1>2, KeptIsSequence
    <2> QED
      BY <1>1, <2>1
  <1>4. Left' = [Left EXCEPT ![s] = Dist(head, oldest)]
    BY <1>1, <1>2 DEF LeftOf
  <1>5. got' = [got EXCEPT ![s] = None]
    BY <1>1, <1>2 DEF Newcomers
  <1> QED
    BY <1>1, <1>3, <1>4, <1>5 DEF Stream!Join, Left

LEMMA LeaveRefines ==
    ASSUME WsTypes, NEW s \in Sessions, Closed(s),
           Kept = KeptOf(slot, oldest, head), Kept' = KeptOf(slot', oldest', head'),
           Left = LeftOf(live, tail, head), Left' = LeftOf(live', tail', head')
    PROVE  Stream!Leave(s)
  <1>1. /\ s \in live /\ live' = live \ {s}
        /\ tail' = [tail EXCEPT ![s] = 0] /\ got' = [got EXCEPT ![s] = None]
        /\ UNCHANGED <<slot, head, oldest>>
    BY DEF Closed, ringVars
  <1>2. tail \in [Sessions -> WsSlots] /\ live \subseteq Sessions
    BY DEF WsTypes
  <1>3. Left' = [Left EXCEPT ![s] = 0]
    BY <1>1, <1>2 DEF LeftOf
  <1> QED
    BY <1>1, <1>3 DEF Stream!Leave, Left

LEMMA PublishRefines ==
    ASSUME WsTypes, Exact, Room, Insert, UNCHANGED <<oldest, live, tail, got>>,
           Kept = KeptOf(slot, oldest, head), Kept' = KeptOf(slot', oldest', head'),
           Left = LeftOf(live, tail, head), Left' = LeftOf(live', tail', head')
    PROVE  \E m \in Messages : Stream!Publish(m)
  <1>1. /\ tail \in [Sessions -> WsSlots] /\ slot \in [WsSlots -> Payloads]
        /\ head \in WsSlots /\ oldest \in WsSlots /\ live \subseteq Sessions
        /\ serial \in Messages /\ serial \in Payloads
    BY DEF WsTypes, Payloads
  <1>2. /\ head' \in WsSlots /\ slot' = [slot EXCEPT ![head] = serial]
        /\ \A i \in WsSlots : Dist(head, i) <= Dist(head, oldest)
                                  => Dist(head', i) = Dist(head, i) + 1
    BY InsertPlaces
  <1>3. /\ Dist(head, oldest) \in Int /\ Dist(head, oldest) < RingSize - 1
        /\ Dist(head', oldest) = Dist(head, oldest) + 1
    BY <1>1, <1>2, DistIsRemainder, WaitingIsDist DEF Room
  <1>4. Kept' = Append(Kept, serial)
    <2>1. KeptOf([slot EXCEPT ![head] = serial], oldest, head')
              = Append(KeptOf(slot, oldest, head), serial)
      <3>1. PICK r \in [WsSlots -> Payloads], o \in WsSlots, h \in WsSlots,
                 g \in WsSlots, m \in Payloads :
              /\ r = slot /\ o = oldest /\ h = head /\ g = head' /\ m = serial
        BY <1>1, <1>2, Zenon
      <3>2. Dist(g, o) = Dist(h, o) + 1
        BY <1>3, <3>1, Zenon
      <3>3. KeptOf([r EXCEPT ![h] = m], o, g) = Append(KeptOf(r, o, h), m)
        BY <3>2, KeptAppends, ZenonT(30)
      <3> QED
        BY <3>1, <3>3, Zenon
    <2> QED
      BY <1>2, <2>1
  <1>5. Len(Kept) < RingSize - 1
    <2>1. Len(KeptOf(slot, oldest, head)) = Dist(head, oldest)
      BY <1>1, KeptIsSequence
    <2> QED
      BY <1>3, <2>1
  <1>6. Left' = [u \in Sessions |-> IF u \in live THEN Left[u] + 1 ELSE 0]
    <2>1. ASSUME NEW u \in live PROVE Dist(head', tail[u]) = Left[u] + 1
      <3>1. u \in Sessions /\ tail[u] \in WsSlots
        BY <1>1
      <3>2. Dist(head', tail[u]) = Dist(head, tail[u]) + 1
        BY <3>1, <1>2 DEF Exact
      <3> QED
        BY <3>1, <3>2 DEF LeftOf
    <2> QED
      BY <2>1 DEF LeftOf
  <1>7. PICK m \in Messages : m = serial
    BY <1>1
  <1>8. Stream!Publish(m)
    BY <1>4, <1>5, <1>6, <1>7 DEF Stream!Publish, Left
  <1> QED
    BY <1>8

LEMMA ServeRefines ==
    ASSUME WsTypes, PayloadExact, NEW s \in live, Write(s),
           Kept = KeptOf(slot, oldest, head), Kept' = KeptOf(slot', oldest', head'),
           Left = LeftOf(live, tail, head), Left' = LeftOf(live', tail', head')
    PROVE  Stream!Serve(s)
  <1> DEFINE d == Dist(head, oldest)
             e == Dist(head, oldest')
             w == Dist(head, tail[s])
  <1>1. /\ tail \in [Sessions -> WsSlots] /\ slot \in [WsSlots -> Payloads]
        /\ head \in WsSlots /\ oldest \in WsSlots /\ live \subseteq Sessions
        /\ s \in Sessions /\ tail[s] \in WsSlots /\ RingSize \in Nat \ {0, 1}
    BY SizesAssumption DEF WsTypes, Payloads
  <1>2. /\ Waiting(tail[s]) > 0 /\ Consume(s)
        /\ got' = [got EXCEPT ![s] = slot[tail[s]]]
        /\ head' = head /\ live' = live
    BY DEF Write
  <1>3. /\ tail' \in [Sessions -> WsSlots]
        /\ \A u \in Sessions \ {s} : tail'[u] = tail[u]
        /\ Dist(head, tail'[s]) = w - 1
        /\ oldest' \in WsSlots
        /\ e <= d
        /\ \A u \in live : Dist(head, tail'[u]) <= e
        /\ slot' = [i \in WsSlots |->
                       IF Dist(i, oldest) < Dist(oldest', oldest)
                       THEN None ELSE slot[i]]
    BY <1>2, ConsumeMoves
  <1>4. /\ d \in 0..RingSize - 1 /\ e \in 0..RingSize - 1 /\ w \in 1..d
    <2>1. w > 0 /\ w <= d
      BY <1>1, <1>2, WaitingIsDist DEF PayloadExact
    <2>2. d \in 0..RingSize - 1 /\ e \in 0..RingSize - 1 /\ w \in 0..RingSize - 1
      BY <1>1, <1>3, DistIsRemainder
    <2> HIDE DEF d, e, w
    <2> QED
      BY <1>1, <2>1, <2>2
  <1>5. /\ Len(Kept) = d
        /\ \A n \in 1..d : Kept[n] = slot[Place(oldest, n - 1)]
    <2>1. Len(KeptOf(slot, oldest, head)) = d
      BY <1>1, KeptIsSequence
    <2>2. \A n \in 1..d : KeptOf(slot, oldest, head)[n] = slot[Place(oldest, n - 1)]
      <3>1. PICK r \in [WsSlots -> Payloads], o \in WsSlots, h \in WsSlots :
                r = slot /\ o = oldest /\ h = head
        BY <1>1
      <3>2. \A n \in 1..Dist(h, o) : KeptOf(r, o, h)[n] = r[Place(o, n - 1)]
        BY KeptIsSequence
      <3> QED
        BY <3>1, <3>2
    <2> QED
      BY <2>1, <2>2
  <1>6. Left[s] = w
    BY <1>1 DEF LeftOf
  <1>7. got' = [got EXCEPT ![s] = Kept[Len(Kept) - Left[s] + 1]]
    <2>1. d - w + 1 \in 1..d /\ d - w + 1 - 1 = d - w /\ d - w \in 0..RingSize
      <3> HIDE DEF d, w
      <3> QED
        BY <1>1, <1>4
    <2>2. Place(oldest, d - w) = tail[s]
      <3>1. Place(oldest, d - w) =
                IF oldest + (d - w) < RingSize
                THEN oldest + (d - w) ELSE oldest + (d - w) - RingSize
        BY <1>1, <2>1, SumIsPlace DEF Place
      <3>2. /\ d = IF oldest <= head THEN head - oldest ELSE head - oldest + RingSize
            /\ w = IF tail[s] <= head THEN head - tail[s]
                                      ELSE head - tail[s] + RingSize
        BY DEF Dist
      <3>3. /\ oldest \in Nat /\ head \in Nat /\ tail[s] \in Nat
            /\ oldest < RingSize /\ head < RingSize /\ tail[s] < RingSize
        BY <1>1 DEF WsSlots
      <3> HIDE DEF d, w
      <3> QED
        BY <1>1, <1>4, <3>1, <3>2, <3>3
    <2>3. Kept[d - w + 1] = slot[tail[s]]
      <3> HIDE DEF d, w
      <3> QED
        BY <1>5, <2>1, <2>2
    <2> QED
      BY <1>2, <1>5, <1>6, <2>3
  <1>8. Left' = [Left EXCEPT ![s] = Left[s] - 1]
    <2>1. ASSUME NEW u \in Sessions
          PROVE  (IF u \in live THEN Dist(head, tail'[u]) ELSE 0)
                     = [Left EXCEPT ![s] = Left[s] - 1][u]
      BY <1>1, <1>3, <1>6 DEF LeftOf
    <2>2. Left' = [u \in Sessions |-> IF u \in live THEN Dist(head, tail'[u]) ELSE 0]
      BY <1>2 DEF LeftOf
    <2>3. Left = [u \in Sessions |-> Left[u]]
      BY DEF LeftOf
    <2> QED
      BY <1>1, <2>1, <2>2, <2>3
  <1>9. Kept' = SubSeq(Kept, d - e + 1, d)
    <2>1. slot' \in [WsSlots -> Payloads]
      BY <1>1, <1>3 DEF Payloads
    <2>2. \A i \in WsSlots : ~(Dist(i, oldest) < Dist(oldest', oldest))
                                 => slot'[i] = slot[i]
      BY <1>3
    <2>3. PICK r \in [WsSlots -> Payloads], q \in [WsSlots -> Payloads],
               o \in WsSlots, n \in WsSlots, h \in WsSlots :
              r = slot /\ q = slot' /\ o = oldest /\ n = oldest' /\ h = head
      BY <1>1, <1>3, <2>1
    <2>4. /\ Dist(h, n) <= Dist(h, o)
          /\ \A i \in WsSlots : ~(Dist(i, o) < Dist(n, o)) => q[i] = r[i]
      BY <1>3, <2>2, <2>3
    <2>5. KeptOf(q, n, h) = SubSeq(KeptOf(r, o, h),
                                   Dist(h, o) - Dist(h, n) + 1, Dist(h, o))
      BY <2>4, KeptLoses
    <2> QED
      BY <1>2, <2>3, <2>5
  <1>10. /\ d - e \in 0..Len(Kept)
         /\ \A t \in live : Left'[t] <= Len(Kept) - (d - e)
         /\ Kept' = SubSeq(Kept, (d - e) + 1, Len(Kept))
    <2>1. d - e \in 0..d /\ d - (d - e) = e
      <3> HIDE DEF d, e
      <3> QED
        BY <1>3, <1>4, <1>1
    <2>2. \A t \in live : Left'[t] = Dist(head, tail'[t])
      BY <1>1, <1>2 DEF LeftOf
    <2> QED
      BY <1>3, <1>5, <1>9, <2>1, <2>2
  <1>11. Left[s] \in 1..Len(Kept)
    BY <1>4, <1>5, <1>6
  <1> HIDE DEF d, e, w
  <1>12. PICK n : n = d - e
    OBVIOUS
  <1> QED
    BY <1>2, <1>7, <1>8, <1>10, <1>11, <1>12 DEF Stream!Serve, Left

\* Every step of the code is a step of the stream, or one it does not see.
LEMMA StreamStep ==
    ASSUME WsInv, WsInv', [WsNext]_wsVars
    PROVE  [Stream!Next]_(Stream!vars)
  <1>1. /\ WsTypes /\ PayloadExact /\ Exact /\ Newcomers
        /\ Kept = KeptOf(slot, oldest, head) /\ Left = LeftOf(live, tail, head)
    BY ExactIsExact, Mapped DEF WsInv
  <1>2. Kept' = KeptOf(slot', oldest', head') /\ Left' = LeftOf(live', tail', head')
    <2>1. (WsTypes => Kept = KeptOf(slot, oldest, head)
                      /\ Left = LeftOf(live, tail, head))'
      BY Mapped, PTL
    <2> QED
      BY <2>1 DEF WsInv, KeptOf, LeftOf, Dist
  <1>3. ASSUME NEW s \in Sessions, Established(s) PROVE Stream!Next
    BY <1>1, <1>2, <1>3, JoinRefines DEF Stream!Next
  <1>4. ASSUME NEW s \in Sessions, Closed(s) PROVE Stream!Next
    BY <1>1, <1>2, <1>4, LeaveRefines DEF Stream!Next
  <1>5. ASSUME NEW s \in Sessions, s \in live, Write(s) PROVE Stream!Next
    BY <1>1, <1>2, <1>5, ServeRefines DEF Stream!Next
  <1>6. ASSUME UNCHANGED <<slot, head, oldest, live, tail, got>>
        PROVE  UNCHANGED Stream!vars
    BY <1>1, <1>2, <1>6 DEF Stream!vars, Left, KeptOf, LeftOf, Dist
  <1>7. ASSUME SendMsg, UNCHANGED <<oldest, live, tail, got>>
        PROVE  [Stream!Next]_(Stream!vars)
    <2>1. CASE Room /\ Insert
      BY <1>1, <1>2, <1>7, <2>1, PublishRefines DEF Stream!Next
    <2>2. CASE UNCHANGED <<ringVars, cancelled, told>>
      BY <1>6, <1>7, <2>2 DEF ringVars
    <2> QED
      BY <1>7, <2>1, <2>2 DEF SendMsg
  <1>8. ASSUME NEW s \in Sessions, Writeable(s) PROVE [Stream!Next]_(Stream!vars)
    <2>1. CASE NothingToWrite(s)
      BY <1>6, <2>1 DEF NothingToWrite, ringVars
    <2> QED
      BY <1>5, <1>8, <2>1 DEF Writeable
  <1>9. ASSUME NEW s \in Sessions, Receive(s) PROVE [Stream!Next]_(Stream!vars)
    BY <1>7, <1>9 DEF Receive
  <1>10. CASE Send
    BY <1>7, <1>10 DEF Send
  <1>11. CASE WaitCancelled \/ Turn \/ Test \/ UNCHANGED wsVars
    BY <1>6, <1>11 DEF WaitCancelled, Turn, Test, wsVars, ringVars
  <1> QED
    BY <1>3, <1>4, <1>8, <1>9, <1>10, <1>11 DEF WsNext

\* For a ring of any size and any sessions, the ring with its tails implements one
\* ordered stream: no session misses a message, gets one twice or out of order, and
\* none is freed that a session has still to get.
THEOREM StreamImplemented == WsSpec => ImplementsBroadcast
  <1>1. WsInit => Stream!Init
    <2> SUFFICES ASSUME WsInit PROVE Stream!Init
      OBVIOUS
    <2>1. WsTypes
      BY WsInitInv DEF WsInv
    <2>2. Dist(head, oldest) = 0
      BY DEF WsInit, Dist
    <2>3. Kept = <<>>
      <3>1. Kept = KeptOf(slot, oldest, head)
        BY <2>1, Mapped
      <3>2. /\ KeptOf(slot, oldest, head) \in Seq(Payloads)
            /\ Len(KeptOf(slot, oldest, head)) = 0
        BY <2>1, <2>2, KeptIsSequence DEF WsTypes
      <3> QED
        BY <3>1, <3>2, EmptySeq
    <2> QED
      BY <2>3 DEF WsInit, Stream!Init
  <1>2. WsInv /\ WsInv' /\ [WsNext]_wsVars => [Stream!Next]_(Stream!vars)
    BY StreamStep
  <1>3. WsSpec => []WsInv
    BY WsInitInv, WsStepInv, PTL DEF WsSpec
  <1> QED
    BY <1>1, <1>2, <1>3, PTL DEF WsSpec, ImplementsBroadcast, Stream!Spec

----------------------------------------------------------------------------
(* No wake-up is lost.                                                     *)

\* A session for which a message was inserted and that has something waiting has
\* asked to be called, or the loop is about to make it ask: the safety behind
\* Delivered.
Woken == \A s \in told : Waiting(tail[s]) > 0 => s \in asked \/ cancelled

LEMMA WokenStep == ASSUME WsInv, Woken, [WsNext]_wsVars PROVE Woken'
  <1>1. told \subseteq live /\ tail \in [Sessions -> WsSlots] /\ live \subseteq Sessions
    BY DEF WsInv, WsTypes, PayloadExact
  <1>2. ASSUME NEW s \in Sessions, Established(s) PROVE Woken'
    BY <1>1, <1>2 DEF Established, ringVars, Woken, Waiting
  <1>3. ASSUME NEW s \in Sessions, Closed(s) PROVE Woken'
    BY <1>1, <1>3 DEF Closed, ringVars, Woken, Waiting
  <1>4. ASSUME NEW s \in Sessions, Writeable(s) PROVE Woken'
    <2>1. CASE Write(s)
      <3>1. /\ tail' = [tail EXCEPT ![s] = (tail[s] + 1) % RingSize]
            /\ asked' = IF Waiting((tail[s] + 1) % RingSize) > 0
                        THEN asked ELSE asked \ {s}
            /\ UNCHANGED <<head, cancelled, told>> /\ s \in asked
        BY <1>4, <2>1 DEF Writeable, Write, Consume, More
      <3>2. ASSUME NEW u \in told', Waiting(tail[u])' > 0 PROVE u \in asked' \/ cancelled'
        <4>1. CASE u = s
          <5>1. tail'[u] = (tail[s] + 1) % RingSize
            BY <1>1, <3>1, <4>1
          <5>2. Waiting((tail[s] + 1) % RingSize) > 0
            BY <3>1, <3>2, <5>1 DEF Waiting
          <5> QED
            BY <3>1, <4>1, <5>2
        <4>2. CASE u # s
          <5>1. tail'[u] = tail[u] /\ u \in told
            BY <1>1, <3>1, <4>2
          <5>2. Waiting(tail[u]) > 0
            BY <3>1, <3>2, <5>1 DEF Waiting
          <5>3. u \in asked \/ cancelled
            BY <5>1, <5>2 DEF Woken
          <5> QED
            BY <3>1, <4>2, <5>3
        <4> QED
          BY <4>1, <4>2
      <3> QED
        BY <3>2 DEF Woken
    <2>2. CASE NothingToWrite(s)
      BY <2>2 DEF NothingToWrite, ringVars, Woken, Waiting
    <2> QED
      BY <1>4, <2>1, <2>2 DEF Writeable
  <1>5. ASSUME SendMsg, UNCHANGED <<tail, asked>> PROVE Woken'
    <2>1. CASE Insert
      BY <2>1 DEF Insert, Woken
    <2>2. CASE UNCHANGED <<ringVars, cancelled, told>>
      BY <1>5, <2>2 DEF ringVars, Woken, Waiting
    <2> QED
      BY <1>5, <2>1, <2>2 DEF SendMsg
  <1>6. ASSUME NEW s \in Sessions, Receive(s) PROVE Woken'
    BY <1>5, <1>6 DEF Receive
  <1>7. CASE Send
    BY <1>5, <1>7 DEF Send
  <1>8. CASE WaitCancelled
    BY <1>1, <1>8 DEF WaitCancelled, Woken
  <1>9. CASE Turn \/ Test \/ UNCHANGED wsVars
    BY <1>9 DEF Turn, Test, wsVars, ringVars, Woken, Waiting
  <1> QED
    BY <1>2, <1>3, <1>4, <1>6, <1>7, <1>8, <1>9 DEF WsNext

\* For any ring and any sessions, no wake-up is lost between the sending thread, the
\* cancelled wait and the sockets: whoever has a message waiting is going to be called.
THEOREM NoWakeupLost == WsSpec => []Woken
  <1>1. WsInit => WsInv /\ Woken
    BY WsInitInv DEF WsInit, Woken
  <1>2. WsInv /\ Woken /\ [WsNext]_wsVars => (WsInv /\ Woken)'
    BY WsStepInv, WokenStep
  <1> QED
    BY <1>1, <1>2, PTL DEF WsSpec
=============================================================================
