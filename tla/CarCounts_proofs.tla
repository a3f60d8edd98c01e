--------------------------- MODULE CarCounts_proofs ---------------------------
(***************************************************************************)
(* For any ring and any number of cars: what goes out is counted exactly   *)
(* where a lock or a single thread guards the count (StatisExact,          *)
(* JieruiExact), no car is uploaded twice                                  *)
(* (UploadedOnce), the ring keeps what it was given (RingExact), and of a  *)
(* lane HAIXIN is told in order (EntriesAlternate).                        *)
(*                                                                         *)
(* ICount is what the lock of the statistics gives: while the timer has    *)
(* copied and not yet cleared, the lane still holds what was copied.       *)
(* IUpload follows one flag through test, send and clear.  The protocol's  *)
(* own timers are idle in the others (IProtocol), so there no flag is      *)
(* cleared before it was counted.  IAlternate follows entries and exits    *)
(* from the coil through the ring to the last one told.                    *)
(***************************************************************************)
EXTENDS CarCounts, TLAPS, SequenceTheorems

IProtocol ==
    /\ pro_type # "NANJING" => outcar = "idle" /\ hist.cleared = 0
    /\ pro_type = "JIERUI" => alg.pc # "write"

ILock ==
    /\ statis.pc = "idle" <=> rt_lock = "free"
    /\ statis.pc = "clear" => statis.row = rt_lane

IUpload ==
    hist.uploads + (IF outcar = "send" \/ (outcar = "idle" /\ coil.out) THEN 1 ELSE 0)
        <= hist.passed

IInv ==
    /\ TypeOK /\ IProtocol /\ ILock /\ IUpload
    /\ MissingWereCleared /\ JieruiExact /\ RingExact

----------------------------------------------------------------------------
\* A sum of two places of the ring, brought back into it.
LEMMA Wrap ==
    ASSUME NEW a \in Nat, a < LIST_IN_OUT_MAX + LIST_IN_OUT_MAX
    PROVE  a % LIST_IN_OUT_MAX =
               IF a < LIST_IN_OUT_MAX THEN a ELSE a - LIST_IN_OUT_MAX
  <1>1. LIST_IN_OUT_MAX \in Nat \ {0}
    BY RingAssumption
  <1>2. CASE a < LIST_IN_OUT_MAX
    BY <1>1, <1>2
  <1>3. CASE a >= LIST_IN_OUT_MAX
    BY <1>1, <1>3
  <1> QED
    BY <1>1, <1>2, <1>3

\* An index moves by one and starts again at the end.
LEMMA AfterIndex ==
    ASSUME NEW index \in Slots
    PROVE  /\ After(index) \in Slots
           /\ After(index) = IF index + 1 = LIST_IN_OUT_MAX THEN 0 ELSE index + 1
  BY RingAssumption, Wrap DEF After, Slots

\* The places of a ring that starts at g: the i-th from there.
LEMMA Places ==
    ASSUME NEW g \in Slots, NEW i \in 0..LIST_IN_OUT_MAX
    PROVE  (g + i) % LIST_IN_OUT_MAX =
               IF g + i < LIST_IN_OUT_MAX THEN g + i ELSE g + i - LIST_IN_OUT_MAX
  <1>1. PICK a \in Nat : a = g + i
    BY RingAssumption DEF Slots
  <1>2. a < LIST_IN_OUT_MAX + LIST_IN_OUT_MAX
    BY <1>1, RingAssumption DEF Slots
  <1>3. a % LIST_IN_OUT_MAX = IF a < LIST_IN_OUT_MAX THEN a ELSE a - LIST_IN_OUT_MAX
    BY <1>2, Wrap
  <1> QED
    BY <1>1, <1>3, RingAssumption DEF Slots

\* Two places less than a round apart are different.
LEMMA Apart ==
    ASSUME NEW g \in Slots, NEW i \in Nat, NEW j \in Nat, i < j, j < LIST_IN_OUT_MAX
    PROVE  /\ (g + i) % LIST_IN_OUT_MAX # (g + j) % LIST_IN_OUT_MAX
           /\ (g + i) % LIST_IN_OUT_MAX \in Slots
  <1>1. i \in 0..LIST_IN_OUT_MAX /\ j \in 0..LIST_IN_OUT_MAX
    BY RingAssumption
  <1>2. (g + i) % LIST_IN_OUT_MAX =
            IF g + i < LIST_IN_OUT_MAX THEN g + i ELSE g + i - LIST_IN_OUT_MAX
    BY <1>1, Places
  <1>3. (g + j) % LIST_IN_OUT_MAX =
            IF g + j < LIST_IN_OUT_MAX THEN g + j ELSE g + j - LIST_IN_OUT_MAX
    BY <1>1, Places
  <1> QED
    BY <1>2, <1>3, RingAssumption DEF Slots

\* The place after the i-th is the next one.
LEMMA Onward ==
    ASSUME NEW g \in Slots, NEW i \in Nat, i < LIST_IN_OUT_MAX
    PROVE  After((g + i) % LIST_IN_OUT_MAX) = (g + (i + 1)) % LIST_IN_OUT_MAX
  <1>1. i \in 0..LIST_IN_OUT_MAX /\ i + 1 \in 0..LIST_IN_OUT_MAX
    BY RingAssumption
  <1>2. PICK p \in Slots : p = (g + i) % LIST_IN_OUT_MAX
    BY <1>1, Places, RingAssumption DEF Slots
  <1>3. p = IF g + i < LIST_IN_OUT_MAX THEN g + i ELSE g + i - LIST_IN_OUT_MAX
    BY <1>1, <1>2, Places
  <1>4. (g + (i + 1)) % LIST_IN_OUT_MAX =
            IF g + (i + 1) < LIST_IN_OUT_MAX THEN g + (i + 1)
            ELSE g + (i + 1) - LIST_IN_OUT_MAX
    BY <1>1, Places
  <1>5. After(p) = IF p + 1 = LIST_IN_OUT_MAX THEN 0 ELSE p + 1
    BY AfterIndex
  <1>6. After(p) = (g + (i + 1)) % LIST_IN_OUT_MAX
    BY <1>3, <1>4, <1>5, RingAssumption DEF Slots
  <1> QED
    BY <1>2, <1>6

\* Counting from the next place is counting one less.
LEMMA Shift ==
    ASSUME NEW g \in Slots, NEW i \in Nat, i < LIST_IN_OUT_MAX
    PROVE  (After(g) + i) % LIST_IN_OUT_MAX = (g + (i + 1)) % LIST_IN_OUT_MAX
  <1>1. i \in 0..LIST_IN_OUT_MAX /\ i + 1 \in 0..LIST_IN_OUT_MAX
    BY RingAssumption
  <1>2. PICK h \in Slots : h = After(g)
    BY AfterIndex
  <1>3. h = IF g + 1 = LIST_IN_OUT_MAX THEN 0 ELSE g + 1
    BY <1>2, AfterIndex
  <1>4. (h + i) % LIST_IN_OUT_MAX =
            IF h + i < LIST_IN_OUT_MAX THEN h + i ELSE h + i - LIST_IN_OUT_MAX
    BY <1>1, Places
  <1>5. (g + (i + 1)) % LIST_IN_OUT_MAX =
            IF g + (i + 1) < LIST_IN_OUT_MAX THEN g + (i + 1)
            ELSE g + (i + 1) - LIST_IN_OUT_MAX
    BY <1>1, Places
  <1>6. (h + i) % LIST_IN_OUT_MAX = (g + (i + 1)) % LIST_IN_OUT_MAX
    BY <1>3, <1>4, <1>5, RingAssumption DEF Slots
  <1> QED
    BY <1>2, <1>6

----------------------------------------------------------------------------
LEMMA InitInv == Init => IInv
  <1> SUFFICES ASSUME Init PROVE IInv
    OBVIOUS
  <1> USE DEF Init
  <1>1. TypeOK
    <2>1. hist \in Hist /\ alg \in AlgState
      BY CarsAssumption DEF Hist, AlgState, Item, NoCar
    <2>2. ring \in Ring
      BY RingAssumption DEF Ring, Item, NoCar, Slots
    <2> QED
      BY <2>1, <2>2 DEF TypeOK, Coil, Sums, Flags, Protocols
  <1>2. IProtocol /\ ILock /\ IUpload
    BY DEF IProtocol, ILock, IUpload
  <1>3. MissingWereCleared /\ JieruiExact
    BY DEF MissingWereCleared, JieruiExact, Pending
  <1>4. RingExact
    BY RingAssumption, Places DEF RingExact, Slots
  <1> QED
    BY <1>1, <1>2, <1>3, <1>4 DEF IInv

----------------------------------------------------------------------------
(* The types.                                                              *)

\* A ring that is not full has room.
LEMMA Room == IInv /\ ~Full => ring.count + 1 \in 0..LIST_IN_OUT_MAX
  <1> SUFFICES ASSUME IInv, ~Full PROVE ring.count + 1 \in 0..LIST_IN_OUT_MAX
    OBVIOUS
  <1>1. ring.count \in 0..LIST_IN_OUT_MAX /\ ring.g \in Slots
    BY DEF IInv, TypeOK, Ring
  <1>2. ring.s = (ring.g + ring.count) % LIST_IN_OUT_MAX
    BY DEF IInv, RingExact
  <1>3. ring.count # LIST_IN_OUT_MAX
    <2> SUFFICES ASSUME ring.count = LIST_IN_OUT_MAX PROVE FALSE
      OBVIOUS
    <2>1. ring.s = ring.g
      BY <1>1, <1>2, Places, RingAssumption DEF Slots
    <2> QED
      BY <2>1, RingAssumption DEF Full
  <1> QED
    BY <1>1, <1>3, RingAssumption

\* The ring after one item more, and after one less.
LEMMA RingPut ==
    ASSUME IInv, ~Full, AddInOut
    PROVE  ring' \in Ring
  <1>1. ring \in Ring /\ alg.item \in Item
    BY DEF IInv, TypeOK, AlgState
  <1>2. After(ring.s) \in Slots /\ ring.count + 1 \in 0..LIST_IN_OUT_MAX
    BY <1>1, AfterIndex, Room DEF Ring
  <1>3. [ring.slots EXCEPT ![ring.s] = alg.item] \in [Slots -> Item]
    BY <1>1 DEF Ring
  <1> QED
    BY <1>1, <1>2, <1>3 DEF Ring, AddInOut

LEMMA RingTake ==
    ASSUME IInv, TakeInOut
    PROVE  ring' \in Ring
  <1>1. ring \in Ring
    BY DEF IInv, TypeOK, Ring
  <1>2. After(ring.g) \in Slots /\ ring.count - 1 \in 0..LIST_IN_OUT_MAX
    BY <1>1, AfterIndex, RingAssumption DEF Ring, TakeInOut
  <1> QED
    BY <1>1, <1>2 DEF Ring, TakeInOut

LEMMA TypeStep == IInv /\ [Next]_vars => TypeOK'
  <1> SUFFICES ASSUME IInv, [Next]_vars PROVE TypeOK'
    OBVIOUS
  <1>1. TypeOK
    BY DEF IInv
  <1> USE <1>1 DEF TypeOK, timers
  <1>2. ASSUME NEW flag \in Flags, Detect(flag) PROVE TypeOK'
    <2>1. coil' \in Coil
      BY <1>2 DEF Detect, In, Out, Coil
    <2>2. hist' \in Hist
      <3> DEFINE came == hist.entered + (IF In(flag) THEN 1 ELSE 0)
                 gone == hist.passed + (IF Out(flag) THEN 1 ELSE 0)
      <3>1. came \in 0..MaxCars /\ gone \in 0..MaxCars
        BY <1>2, CarsAssumption, SMTT(30) DEF Detect, Hist
      <3>2. hist' = [hist EXCEPT !.passed = gone, !.entered = came]
        BY <1>2 DEF Detect
      <3> HIDE DEF came, gone
      <3> QED
        BY <3>1, <3>2 DEF Hist
    <2>3. alg' \in AlgState
      BY <1>2 DEF Detect, AlgAt, AlgState
    <2> QED
      BY <1>2, <2>1, <2>2, <2>3 DEF Detect
  <1>3. CASE Copy
    <2>1. alg' \in AlgState
      BY <1>3 DEF Copy, AlgState, Item, Coil
    <2> QED
      BY <1>3, <2>1 DEF Copy
  <1>4. CASE CountStatis
    <2>1. alg' \in AlgState
      BY <1>4 DEF CountStatis, AlgAt, AlgState
    <2> QED
      BY <1>4, <2>1 DEF CountStatis
  <1>5. CASE Count60s
    <2>1. alg' \in AlgState
      BY <1>5 DEF Count60s, AlgAt, AlgState
    <2>2. jierui' \in Sums
      BY <1>5 DEF Count60s, Sums
    <2> QED
      BY <1>5, <2>1, <2>2 DEF Count60s
  <1>6. CASE Write60s
    <2>1. alg' \in AlgState /\ d60' \in Nat
      <3>1. alg.read + 1 \in Nat
        BY DEF AlgState
      <3> QED
        BY <1>6, <3>1 DEF Write60s, AlgState
    <2> QED
      BY <1>6, <2>1 DEF Write60s
  <1>7. CASE AddJierui
    <2>1. alg' \in AlgState
      BY <1>7 DEF AddJierui, AlgAt, AlgState
    <2>2. jierui' \in Sums
      BY <1>7 DEF AddJierui, Sums
    <2> QED
      BY <1>7, <2>1, <2>2 DEF AddJierui
  <1>8. CASE AddInOut
    <2>1. alg' \in AlgState
      BY <1>8 DEF AddInOut, AlgState, Item, NoCar
    <2>2. hist' \in Hist
      <3>1. Append(hist.pending, alg.item) \in Seq(Item)
        BY DEF Hist, AlgState
      <3>2. \/ hist' = [hist EXCEPT !.lost = TRUE]
            \/ hist' = [hist EXCEPT !.pending = Append(hist.pending, alg.item)]
        BY <1>8 DEF AddInOut
      <3> QED
        BY <3>1, <3>2, ZenonT(30) DEF Hist
    <2>3. ring' \in Ring
      BY <1>8, RingPut DEF AddInOut
    <2> QED
      BY <1>8, <2>1, <2>2, <2>3 DEF AddInOut
  <1>9. CASE StatisCopy
    BY <1>9 DEF StatisCopy
  <1>10. CASE StatisClear
    <2>1. hist' \in Hist
      <3>1. hist.written + statis.row \in Nat
        BY DEF Hist
      <3>2. hist' = [hist EXCEPT !.written = hist.written + statis.row]
        BY <1>10 DEF StatisClear
      <3> QED
        BY <3>1, <3>2 DEF Hist
    <2> QED
      BY <1>10, <2>1 DEF StatisClear
  <1>11. CASE FlowRead
    BY <1>11 DEF FlowRead
  <1>12. CASE FlowZero
    <2>1. hist' \in Hist
      <3>1. hist.reported + flow.sum \in Nat
        BY DEF Hist
      <3>2. hist' = [hist EXCEPT !.reported = hist.reported + flow.sum]
        BY <1>12 DEF FlowZero
      <3> QED
        BY <3>1, <3>2 DEF Hist
    <2> QED
      BY <1>12, <2>1 DEF FlowZero
  <1>13. CASE OutcarTest
    BY <1>13 DEF OutcarTest
  <1>14. CASE OutcarSend
    <2>1. hist' \in Hist
      <3>1. PICK connected \in BOOLEAN :
                hist' = [hist EXCEPT !.uploads =
                             hist.uploads + (IF connected THEN 1 ELSE 0)]
        BY <1>14 DEF OutcarSend
      <3>2. hist.uploads + (IF connected THEN 1 ELSE 0) \in Nat
        BY DEF Hist
      <3> QED
        BY <3>1, <3>2 DEF Hist
    <2> QED
      BY <1>14, <2>1 DEF OutcarSend
  <1>15. CASE OutcarClear
    <2>1. coil' \in Coil
      BY <1>15 DEF OutcarClear, Coil
    <2>2. hist' \in Hist
      <3>1. hist.cleared + (IF coil.out THEN 1 ELSE 0) \in Nat
        BY DEF Hist
      <3>2. hist' = [hist EXCEPT !.cleared =
                         hist.cleared + (IF coil.out THEN 1 ELSE 0)]
        BY <1>15 DEF OutcarClear
      <3> QED
        BY <3>1, <3>2 DEF Hist
    <2> QED
      BY <1>15, <2>1, <2>2 DEF OutcarClear
  <1>16. CASE TakeJierui
    <2>1. jierui' \in Sums
      BY <1>16 DEF TakeJierui, Sums
    <2>2. hist' \in Hist
      <3>1. hist.taken + jierui.buf \in Nat
        BY DEF Hist, Sums
      <3>2. hist' = [hist EXCEPT !.taken = hist.taken + jierui.buf]
        BY <1>16 DEF TakeJierui
      <3> QED
        BY <3>1, <3>2 DEF Hist
    <2> QED
      BY <1>16, <2>1, <2>2 DEF TakeJierui
  <1>17. CASE TakeInOut
    <2>1. hist.pending # << >> /\ hist.pending \in Seq(Item)
      BY <1>17 DEF TakeInOut, IInv, RingExact, Hist
    <2>2. Tail(hist.pending) \in Seq(Item)
      BY <2>1
    <2>3. hist' \in Hist
      BY <1>17, <2>2, ZenonT(30) DEF TakeInOut, Affair, Hist
    <2>4. ring' \in Ring
      BY <1>17, RingTake
    <2>5. in_out' \in 0..2
      BY <1>17 DEF TakeInOut
    <2> QED
      BY <1>17, <2>3, <2>4, <2>5 DEF TakeInOut
  <1>18. CASE UNCHANGED vars
    BY <1>18 DEF vars
  <1> QED
    BY <1>2, <1>3, <1>4, <1>5, <1>6, <1>7, <1>8, <1>9, <1>10, <1>11, <1>12,
       <1>13, <1>14, <1>15, <1>16, <1>17, <1>18
       DEF Next, Alg, Statis, Protocol

LEMMA ProtocolStep == IInv /\ [Next]_vars => (IProtocol)'
  <1> SUFFICES ASSUME IInv, [Next]_vars PROVE (IProtocol)'
    OBVIOUS
  <1>1. TypeOK /\ IProtocol
    BY DEF IInv
  <1>2. hist \in Hist /\ alg \in AlgState /\ jierui \in Sums /\ coil \in Coil
        /\ rt_lane \in Nat
    BY <1>1 DEF TypeOK
  <1> USE <1>1, <1>2 DEF IProtocol, timers, AlgState, Hist
  <1>3. ASSUME NEW flag \in Flags, Detect(flag) PROVE (IProtocol)'
    BY <1>3 DEF Detect, AlgAt
  <1>4. CASE Copy
    BY <1>4 DEF Copy
  <1>5. CASE CountStatis
    BY <1>5 DEF CountStatis, AlgAt
  <1>6. CASE Count60s
    BY <1>6 DEF Count60s, AlgAt
  <1>7. CASE Write60s
    BY <1>7 DEF Write60s
  <1>8. CASE AddJierui
    BY <1>8 DEF AddJierui, AlgAt
  <1>9. CASE AddInOut
    BY <1>9 DEF AddInOut
  <1>10. CASE StatisCopy
    BY <1>10 DEF StatisCopy
  <1>11. CASE StatisClear
    BY <1>11 DEF StatisClear
  <1>12. CASE FlowRead
    BY <1>12 DEF FlowRead
  <1>13. CASE FlowZero
    BY <1>13 DEF FlowZero
  <1>14. CASE OutcarTest
    BY <1>14 DEF OutcarTest
  <1>15. CASE OutcarSend
    BY <1>15 DEF OutcarSend
  <1>16. CASE OutcarClear
    BY <1>16 DEF OutcarClear
  <1>17. CASE TakeJierui
    BY <1>17 DEF TakeJierui
  <1>18. CASE TakeInOut
    BY <1>18 DEF TakeInOut
  <1>19. CASE UNCHANGED vars
    BY <1>19 DEF vars
  <1> QED
    BY <1>3, <1>4, <1>5, <1>6, <1>7, <1>8, <1>9, <1>10, <1>11, <1>12, <1>13, <1>14, <1>15, <1>16, <1>17, <1>18, <1>19
       DEF Next, Alg, Statis, Protocol

LEMMA LockStep == IInv /\ [Next]_vars => (ILock)'
  <1> SUFFICES ASSUME IInv, [Next]_vars PROVE (ILock)'
    OBVIOUS
  <1>1. TypeOK /\ ILock
    BY DEF IInv
  <1>2. hist \in Hist /\ alg \in AlgState /\ jierui \in Sums /\ coil \in Coil
        /\ rt_lane \in Nat
    BY <1>1 DEF TypeOK
  <1> USE <1>1, <1>2 DEF ILock, timers
  <1>3. ASSUME NEW flag \in Flags, Detect(flag) PROVE (ILock)'
    BY <1>3 DEF Detect, AlgAt
  <1>4. CASE Copy
    BY <1>4 DEF Copy
  <1>5. CASE CountStatis
    BY <1>5 DEF CountStatis, AlgAt
  <1>6. CASE Count60s
    BY <1>6 DEF Count60s, AlgAt
  <1>7. CASE Write60s
    BY <1>7 DEF Write60s
  <1>8. CASE AddJierui
    BY <1>8 DEF AddJierui, AlgAt
  <1>9. CASE AddInOut
    BY <1>9 DEF AddInOut
  <1>10. CASE StatisCopy
    BY <1>10 DEF StatisCopy
  <1>11. CASE StatisClear
    BY <1>11 DEF StatisClear
  <1>12. CASE FlowRead
    BY <1>12 DEF FlowRead
  <1>13. CASE FlowZero
    BY <1>13 DEF FlowZero
  <1>14. CASE OutcarTest
    BY <1>14 DEF OutcarTest
  <1>15. CASE OutcarSend
    BY <1>15 DEF OutcarSend
  <1>16. CASE OutcarClear
    BY <1>16 DEF OutcarClear
  <1>17. CASE TakeJierui
    BY <1>17 DEF TakeJierui
  <1>18. CASE TakeInOut
    BY <1>18 DEF TakeInOut
  <1>19. CASE UNCHANGED vars
    BY <1>19 DEF vars
  <1> QED
    BY <1>3, <1>4, <1>5, <1>6, <1>7, <1>8, <1>9, <1>10, <1>11, <1>12, <1>13, <1>14, <1>15, <1>16, <1>17, <1>18, <1>19
       DEF Next, Alg, Statis, Protocol

LEMMA UploadStep == IInv /\ [Next]_vars => (IUpload)'
  <1> SUFFICES ASSUME IInv, [Next]_vars PROVE (IUpload)'
    OBVIOUS
  <1>1. TypeOK /\ IUpload
    BY DEF IInv
  <1>2. hist \in Hist /\ alg \in AlgState /\ jierui \in Sums /\ coil \in Coil
        /\ rt_lane \in Nat
    BY <1>1 DEF TypeOK
  <1> USE <1>1, <1>2 DEF IUpload, timers, Hist
  <1>3. ASSUME NEW flag \in Flags, Detect(flag) PROVE (IUpload)'
    BY <1>3 DEF Detect, AlgAt
  <1>4. CASE Copy
    BY <1>4 DEF Copy
  <1>5. CASE CountStatis
    BY <1>5 DEF CountStatis, AlgAt
  <1>6. CASE Count60s
    BY <1>6 DEF Count60s, AlgAt
  <1>7. CASE Write60s
    BY <1>7 DEF Write60s
  <1>8. CASE AddJierui
    BY <1>8 DEF AddJierui, AlgAt
  <1>9. CASE AddInOut
    BY <1>9 DEF AddInOut
  <1>10. CASE StatisCopy
    BY <1>10 DEF StatisCopy
  <1>11. CASE StatisClear
    BY <1>11 DEF StatisClear
  <1>12. CASE FlowRead
    BY <1>12 DEF FlowRead
  <1>13. CASE FlowZero
    BY <1>13 DEF FlowZero
  <1>14. CASE OutcarTest
    BY <1>14 DEF OutcarTest, MutexFree
  <1>15. CASE OutcarSend
    BY <1>15 DEF OutcarSend
  <1>16. CASE OutcarClear
    BY <1>16 DEF OutcarClear
  <1>17. CASE TakeJierui
    BY <1>17 DEF TakeJierui
  <1>18. CASE TakeInOut
    BY <1>18 DEF TakeInOut
  <1>19. CASE UNCHANGED vars
    BY <1>19 DEF vars
  <1> QED
    BY <1>3, <1>4, <1>5, <1>6, <1>7, <1>8, <1>9, <1>10, <1>11, <1>12, <1>13, <1>14, <1>15, <1>16, <1>17, <1>18, <1>19
       DEF Next, Alg, Statis, Protocol

LEMMA CountStep == IInv /\ [Next]_vars => (MissingWereCleared)'
  <1> SUFFICES ASSUME IInv, [Next]_vars PROVE (MissingWereCleared)'
    OBVIOUS
  <1>1. TypeOK /\ MissingWereCleared /\ ILock
    BY DEF IInv
  <1>2. hist \in Hist /\ alg \in AlgState /\ jierui \in Sums /\ coil \in Coil
        /\ rt_lane \in Nat
    BY <1>1 DEF TypeOK
  <1> USE <1>1, <1>2 DEF MissingWereCleared, Pending, ILock, timers, Hist, AlgState, Coil
  <1>3. ASSUME NEW flag \in Flags, Detect(flag) PROVE (MissingWereCleared)'
    BY <1>3 DEF Detect, AlgAt
  <1>4. CASE Copy
    BY <1>4 DEF Copy
  <1>5. CASE CountStatis
    BY <1>5, SMTT(30) DEF CountStatis, AlgAt
  <1>6. CASE Count60s
    BY <1>6 DEF Count60s, AlgAt
  <1>7. CASE Write60s
    BY <1>7 DEF Write60s
  <1>8. CASE AddJierui
    BY <1>8 DEF AddJierui, AlgAt
  <1>9. CASE AddInOut
    BY <1>9 DEF AddInOut
  <1>10. CASE StatisCopy
    BY <1>10 DEF StatisCopy
  <1>11. CASE StatisClear
    BY <1>11 DEF StatisClear
  <1>12. CASE FlowRead
    BY <1>12 DEF FlowRead
  <1>13. CASE FlowZero
    BY <1>13 DEF FlowZero
  <1>14. CASE OutcarTest
    BY <1>14 DEF OutcarTest
  <1>15. CASE OutcarSend
    BY <1>15 DEF OutcarSend
  <1>16. CASE OutcarClear
    BY <1>16, SMTT(30) DEF OutcarClear
  <1>17. CASE TakeJierui
    BY <1>17 DEF TakeJierui
  <1>18. CASE TakeInOut
    BY <1>18 DEF TakeInOut
  <1>19. CASE UNCHANGED vars
    BY <1>19 DEF vars
  <1> QED
    BY <1>3, <1>4, <1>5, <1>6, <1>7, <1>8, <1>9, <1>10, <1>11, <1>12, <1>13, <1>14, <1>15, <1>16, <1>17, <1>18, <1>19
       DEF Next, Alg, Statis, Protocol

LEMMA JieruiStep == IInv /\ [Next]_vars => (JieruiExact)'
  <1> SUFFICES ASSUME IInv, [Next]_vars PROVE (JieruiExact)'
    OBVIOUS
  <1>1. TypeOK /\ JieruiExact /\ IProtocol
    BY DEF IInv
  <1>2. hist \in Hist /\ alg \in AlgState /\ jierui \in Sums /\ coil \in Coil
        /\ rt_lane \in Nat
    BY <1>1 DEF TypeOK
  <1> USE <1>1, <1>2 DEF JieruiExact, Pending, IProtocol, timers, Hist, AlgState, Coil, Sums
  <1>3. ASSUME NEW flag \in Flags, Detect(flag) PROVE (JieruiExact)'
    BY <1>3 DEF Detect, AlgAt
  <1>4. CASE Copy
    BY <1>4 DEF Copy
  <1>5. CASE CountStatis
    BY <1>5 DEF CountStatis, AlgAt
  <1>6. CASE Count60s
    <2>1. CASE ~coil.out
      BY <1>6, <2>1 DEF Count60s, AlgAt
    <2>2. CASE coil.out /\ pro_type = "JIERUI"
      <3>1. alg.pc = "d60" /\ alg'.pc = "jierui" /\ jierui'.d60 = jierui.d60 + 1
            /\ jierui'.buf = jierui.buf /\ UNCHANGED <<hist, coil>>
        BY <1>6, <2>2 DEF Count60s, AlgAt
      <3> QED
        BY <2>2, <3>1
    <2>3. CASE pro_type # "JIERUI"
      BY <1>6, <2>3 DEF Count60s
    <2> QED
      BY <2>1, <2>2, <2>3
  <1>7. CASE Write60s
    BY <1>7 DEF Write60s
  <1>8. CASE AddJierui
    BY <1>8 DEF AddJierui, AlgAt
  <1>9. CASE AddInOut
    BY <1>9 DEF AddInOut
  <1>10. CASE StatisCopy
    BY <1>10 DEF StatisCopy
  <1>11. CASE StatisClear
    BY <1>11 DEF StatisClear
  <1>12. CASE FlowRead
    BY <1>12 DEF FlowRead
  <1>13. CASE FlowZero
    BY <1>13 DEF FlowZero
  <1>14. CASE OutcarTest
    BY <1>14 DEF OutcarTest
  <1>15. CASE OutcarSend
    BY <1>15 DEF OutcarSend
  <1>16. CASE OutcarClear
    BY <1>16 DEF OutcarClear
  <1>17. CASE TakeJierui
    BY <1>17 DEF TakeJierui
  <1>18. CASE TakeInOut
    BY <1>18 DEF TakeInOut
  <1>19. CASE UNCHANGED vars
    BY <1>19 DEF vars
  <1> QED
    BY <1>3, <1>4, <1>5, <1>6, <1>7, <1>8, <1>9, <1>10, <1>11, <1>12, <1>13, <1>14, <1>15, <1>16, <1>17, <1>18, <1>19
       DEF Next, Alg, Statis, Protocol

----------------------------------------------------------------------------
(* The ring: a step on from each index, the others stay where they are.    *)

LEMMA PutExact == IInv /\ AddInOut /\ ~Full => RingExact'
  <1> SUFFICES ASSUME IInv, AddInOut, ~Full PROVE RingExact'
    OBVIOUS
  <1>1. /\ ring \in Ring /\ hist \in Hist /\ alg.item \in Item
        /\ RingExact /\ ring.count + 1 \in 0..LIST_IN_OUT_MAX
    BY Room DEF IInv, TypeOK, AlgState
  <1> DEFINE g == ring.g
             c == ring.count
             old == hist.pending
  <1>2. g \in Slots /\ ring.s \in Slots /\ c \in Nat /\ c + 1 <= LIST_IN_OUT_MAX
        /\ old \in Seq(Item) /\ Len(old) = c
    BY <1>1, RingAssumption DEF Ring, Hist, RingExact
  <1>3. /\ ring'.g = g /\ ring'.count = c + 1 /\ ring'.s = After(ring.s)
        /\ ring'.slots = [ring.slots EXCEPT ![ring.s] = alg.item]
        /\ hist'.pending = Append(old, alg.item)
    BY <1>1 DEF AddInOut, Ring, Hist
  <1>4. ring.s = (g + c) % LIST_IN_OUT_MAX
    BY <1>1 DEF RingExact
  <1>5. ring'.s = (ring'.g + ring'.count) % LIST_IN_OUT_MAX
    <2>1. c < LIST_IN_OUT_MAX
      BY <1>2, RingAssumption
    <2>2. After((g + c) % LIST_IN_OUT_MAX) = (g + (c + 1)) % LIST_IN_OUT_MAX
      BY <1>2, <2>1, Onward
    <2> QED
      BY <1>3, <1>4, <2>2
  <1>6. ASSUME NEW i \in 1..(c + 1)
        PROVE  ring'.slots[(g + i - 1) % LIST_IN_OUT_MAX] = Append(old, alg.item)[i]
    <2>1. CASE i = c + 1
      <3>1. g + i - 1 = g + c
        BY <1>2, <2>1 DEF Slots
      <3> QED
        BY <1>1, <1>2, <1>3, <1>4, <2>1, <3>1 DEF Ring
    <2>2. CASE i <= c
      <3>1. ring.slots[(g + i - 1) % LIST_IN_OUT_MAX] = old[i]
        BY <1>1, <1>2, <2>2 DEF RingExact
      <3>2. i - 1 \in Nat /\ i - 1 < c /\ c < LIST_IN_OUT_MAX
            /\ g + i - 1 = g + (i - 1)
        BY <1>2, <2>2, RingAssumption DEF Slots
      <3>3. /\ (g + (i - 1)) % LIST_IN_OUT_MAX # (g + c) % LIST_IN_OUT_MAX
            /\ (g + (i - 1)) % LIST_IN_OUT_MAX \in Slots
        BY <1>2, <3>2, Apart
      <3>4. (g + i - 1) % LIST_IN_OUT_MAX # ring.s
            /\ (g + i - 1) % LIST_IN_OUT_MAX \in Slots
        BY <1>4, <3>2, <3>3
      <3>5. Append(old, alg.item)[i] = old[i]
        BY <1>1, <1>2, <2>2
      <3> QED
        BY <1>1, <1>3, <3>1, <3>4, <3>5 DEF Ring
    <2> QED
      BY <1>2, <2>1, <2>2
  <1>7. Len(hist'.pending) = c + 1
    BY <1>1, <1>2, <1>3
  <1> QED
    BY <1>3, <1>5, <1>6, <1>7 DEF RingExact

LEMMA TakeExact == IInv /\ TakeInOut => RingExact'
  <1> SUFFICES ASSUME IInv, TakeInOut PROVE RingExact'
    OBVIOUS
  <1>1. ring \in Ring /\ hist \in Hist /\ RingExact
    BY DEF IInv, TypeOK
  <1> DEFINE g == ring.g
             c == ring.count
             old == hist.pending
  <1>2. g \in Slots /\ c \in 1..LIST_IN_OUT_MAX /\ old \in Seq(Item) /\ Len(old) = c
    BY <1>1, RingAssumption DEF Ring, Hist, RingExact, TakeInOut
  <1>3. /\ ring'.g = After(g) /\ ring'.count = c - 1 /\ ring'.s = ring.s
        /\ ring'.slots = ring.slots
        /\ hist'.pending = Tail(old)
    BY <1>1 DEF TakeInOut, Ring, Hist
  <1>4. After(g) \in Slots
        /\ After(g) = IF g + 1 = LIST_IN_OUT_MAX THEN 0 ELSE g + 1
    BY <1>2, AfterIndex
  <1>5. ASSUME NEW i \in 0..(LIST_IN_OUT_MAX - 1)
        PROVE  (After(g) + i) % LIST_IN_OUT_MAX = (g + (i + 1)) % LIST_IN_OUT_MAX
    BY <1>2, Shift, RingAssumption
  <1>6. ring'.s = (ring'.g + ring'.count) % LIST_IN_OUT_MAX
    <2>1. c - 1 \in 0..(LIST_IN_OUT_MAX - 1) /\ (c - 1) + 1 = c
      BY <1>2, RingAssumption
    <2>2. (After(g) + (c - 1)) % LIST_IN_OUT_MAX = (g + c) % LIST_IN_OUT_MAX
      BY <1>5, <2>1
    <2> QED
      BY <1>1, <1>3, <2>2 DEF RingExact
  <1>7. Len(Tail(old)) = c - 1
    BY <1>2
  <1>8. ASSUME NEW i \in 1..(c - 1)
        PROVE  ring.slots[(After(g) + i - 1) % LIST_IN_OUT_MAX] = Tail(old)[i]
    <2>1. i - 1 \in 0..(LIST_IN_OUT_MAX - 1) /\ (i - 1) + 1 = i /\ i + 1 \in 1..c
          /\ After(g) + i - 1 = After(g) + (i - 1) /\ g + i = g + (i + 1) - 1
      BY <1>2, <1>4, RingAssumption DEF Slots
    <2>2. (After(g) + (i - 1)) % LIST_IN_OUT_MAX = (g + i) % LIST_IN_OUT_MAX
      BY <1>5, <2>1
    <2>3. ring.slots[(g + (i + 1) - 1) % LIST_IN_OUT_MAX] = old[i + 1]
      BY <1>1, <1>2, <2>1 DEF RingExact
    <2>4. Tail(old)[i] = old[i + 1]
      BY <1>2, <2>1
    <2> QED
      BY <2>1, <2>2, <2>3, <2>4
  <1> QED
    BY <1>3, <1>6, <1>7, <1>8 DEF RingExact

LEMMA RingStep == IInv /\ [Next]_vars => RingExact'
  <1> SUFFICES ASSUME IInv, [Next]_vars PROVE RingExact'
    OBVIOUS
  <1>1. hist \in Hist /\ RingExact
    BY DEF IInv, TypeOK
  <1>2. CASE AddInOut
    <2>1. CASE Full
      <3>1. UNCHANGED <<ring, hist.pending>>
        BY <1>1, <1>2, <2>1 DEF AddInOut, Hist
      <3> QED
        BY <1>1, <3>1 DEF RingExact
    <2> QED
      BY <1>2, <2>1, PutExact
  <1>3. CASE TakeInOut
    BY <1>3, TakeExact
  <1>4. CASE ~AddInOut /\ ~TakeInOut
    <2>1. UNCHANGED ring
      BY <1>4 DEF Next, Alg, Statis, Protocol, Detect, Copy, CountStatis, Count60s,
                  Write60s, AddJierui, StatisCopy, StatisClear, FlowRead, FlowZero,
                  OutcarTest, OutcarSend, OutcarClear, TakeJierui, vars
    <2>2. UNCHANGED hist.pending
      BY <1>1, <1>4
         DEF Next, Alg, Statis, Protocol, Detect, Copy, CountStatis, Count60s,
             Write60s, AddJierui, StatisCopy, StatisClear, FlowRead, FlowZero,
             OutcarTest, OutcarSend, OutcarClear, TakeJierui, vars, Hist
    <2> QED
      BY <1>1, <2>1, <2>2 DEF RingExact
  <1> QED
    BY <1>2, <1>3, <1>4

----------------------------------------------------------------------------
LEMMA Inductive == Spec => []IInv
  <1>1. IInv /\ [Next]_vars => IInv'
    <2> SUFFICES ASSUME IInv, [Next]_vars PROVE IInv'
      OBVIOUS
    <2> QED
      BY TypeStep, ProtocolStep, LockStep, UploadStep, CountStep, JieruiStep, RingStep
         DEF IInv
  <1> QED
    BY <1>1, InitInv, PTL DEF Spec

\* Every variable keeps its type; in particular the indices and the count of the
\* ring stay within it.
THEOREM Types == Spec => []TypeOK
  BY Inductive, PTL DEF IInv

\* Rows of the database: exact outside protocol NANJING, because no upload clears
\* a flag there; in NANJING short by no more than the upload cleared.
THEOREM StatisCounts == Spec => []StatisExact
  <1>1. IInv => StatisExact
    <2> SUFFICES ASSUME IInv PROVE StatisExact
      OBVIOUS
    <2>1. MissingWereCleared
      BY DEF IInv
    <2>2. hist \in Hist /\ rt_lane \in Nat
      BY DEF IInv, TypeOK
    <2>3. ASSUME pro_type # "NANJING"
          PROVE  hist.passed = hist.written + rt_lane + Pending({"copy", "statis"})
      <3>1. hist.cleared = 0
        BY <2>3 DEF IInv, IProtocol
      <3> QED
        BY <2>1, <2>2, <3>1 DEF MissingWereCleared, Pending, Hist
    <2> QED
      BY <2>1, <2>3 DEF StatisExact
  <1> QED
    BY <1>1, Inductive, PTL

\* No car is uploaded twice, however the upload and the frames interleave.
THEOREM Uploads == Spec => []UploadedOnce
  <1>1. IInv => UploadedOnce
    <2> SUFFICES ASSUME IInv PROVE UploadedOnce
      OBVIOUS
    <2>1. hist \in Hist /\ IUpload
      BY DEF IInv, TypeOK
    <2> QED
      BY <2>1 DEF IUpload, UploadedOnce, Hist
  <1> QED
    BY <1>1, Inductive, PTL

\* The sums of JIERUI arrive whole.
THEOREM JieruiCounts == Spec => []JieruiExact
  BY Inductive, PTL DEF IInv

\* The ring gives back what it was given, first in first out, for any size.
THEOREM RingKeeps == Spec => []RingExact
  BY Inductive, PTL DEF IInv
----------------------------------------------------------------------------
(* Entries and exits in HAIXIN, where no upload clears a flag.  An item is an *)
(* entry, an exit or neither; on the way from the coil to the signal machine *)
(* there is an exit between any two entries.                                 *)

\* The item of the frame that is not in the ring yet.
InHand == CASE alg.pc = "copy" -> [in |-> coil.in, out |-> coil.out]
            [] alg.pc = "frame" -> NoCar
            [] OTHER -> alg.item

\* There is an exit in the ring from this place on.
ExitFrom(i) == \E k \in i..Len(hist.pending) : hist.pending[k].out

\* Every entry that was told or waits in the ring has its exit behind it there.
Left == /\ hist.last = "in" => ExitFrom(1)
        /\ \A i \in 1..Len(hist.pending) : hist.pending[i].in => ExitFrom(i + 1)

\* No entry and exit in one item; an exit before every entry but the first, and before
\* the next car comes; the timer knows when it told of an entry last.
Alternate ==
    /\ \A i \in 1..Len(hist.pending) : ~(hist.pending[i].in /\ hist.pending[i].out)
    /\ \A j \in 1..Len(hist.pending) : hist.pending[j].in =>
         /\ hist.last = "in" => \E k \in 1..(j - 1) : hist.pending[k].out
         /\ \A i \in 1..(j - 1) : hist.pending[i].in =>
              \E k \in (i + 1)..(j - 1) : hist.pending[k].out
    /\ ~(InHand.in /\ InHand.out)
    /\ InHand.in => Left /\ coil.exist = 1
    /\ coil.exist # 1 => Left \/ InHand.out
    /\ in_out = 1 => hist.last = "in"

IAlternate ==
    /\ pro_type # "HAIXIN" => ~hist.twice
    /\ pro_type = "HAIXIN" /\ ~hist.lost => ~hist.twice /\ Alternate

\* What a step other than those below leaves to the signal machine.
LEMMA AlternateSame ==
    ASSUME hist \in Hist, Alternate, InHand' = InHand, coil'.exist = coil.exist,
           in_out' = in_out, hist'.pending = hist.pending, hist'.last = hist.last
    PROVE  Alternate'
  <1>1. Left' <=> Left
    BY DEF Left, ExitFrom
  <1> QED
    BY <1>1 DEF Alternate

\* A step keeps the order of entries and exits.
LEMMA AlternateStep == IInv /\ IAlternate /\ [Next]_vars => IAlternate'
  <1> SUFFICES ASSUME IInv, IAlternate, [Next]_vars PROVE IAlternate'
    OBVIOUS
  <1>1. /\ hist \in Hist /\ coil \in Coil /\ alg \in AlgState /\ IProtocol /\ RingExact
        /\ hist.pending \in Seq(Item) /\ ring \in Ring
    BY DEF IInv, TypeOK, Hist
  <1>2. pro_type' = pro_type
    BY DEF Next, Alg, Statis, Protocol, Detect, Copy, CountStatis, Count60s, Write60s,
           AddJierui, AddInOut, StatisCopy, StatisClear, FlowRead, FlowZero, OutcarTest,
           OutcarSend, OutcarClear, TakeJierui, TakeInOut, vars
  <1>3. CASE ~TakeInOut /\ ~AddInOut /\ ~Copy /\ ~(\E flag \in Flags : Detect(flag))
    <2>1. /\ hist'.pending = hist.pending /\ hist'.last = hist.last
          /\ hist'.twice = hist.twice /\ hist'.lost = hist.lost
          /\ in_out' = in_out
      BY <1>1, <1>3
         DEF Next, Alg, Statis, Protocol, CountStatis, Count60s, Write60s, AddJierui,
             StatisCopy, StatisClear, FlowRead, FlowZero, OutcarTest, OutcarSend,
             OutcarClear, TakeJierui, vars, Hist
    <2>2. ASSUME pro_type = "HAIXIN" PROVE InHand' = InHand /\ coil' = coil
      <3>1. ~OutcarClear
        BY <1>1, <2>2 DEF IProtocol, OutcarClear
      <3>2. coil' = coil
        BY <1>3, <3>1
           DEF Next, Alg, Statis, Protocol, CountStatis, Count60s, Write60s, AddJierui,
               StatisCopy, StatisClear, FlowRead, FlowZero, OutcarTest, OutcarSend,
               TakeJierui, vars
      <3>3. /\ alg'.item = alg.item
            /\ \/ alg' = alg
               \/ /\ alg.pc \in {"statis", "d60", "write", "jierui"}
                  /\ alg'.pc \in {"d60", "write", "jierui", "ring"}
        <4>1. CASE CountStatis
          BY <1>1, <4>1 DEF CountStatis, AlgAt, AlgState
        <4>2. CASE Count60s
          BY <1>1, <4>2 DEF Count60s, AlgAt, AlgState
        <4>3. CASE Write60s
          BY <1>1, <4>3 DEF Write60s, AlgState
        <4>4. CASE AddJierui
          BY <1>1, <4>4 DEF AddJierui, AlgAt, AlgState
        <4>5. CASE ~CountStatis /\ ~Count60s /\ ~Write60s /\ ~AddJierui
          BY <1>3, <3>1, <4>5
             DEF Next, Alg, Statis, Protocol, StatisCopy, StatisClear, FlowRead, FlowZero,
                 OutcarTest, OutcarSend, TakeJierui, vars
        <4> QED
          BY <4>1, <4>2, <4>3, <4>4, <4>5
      <3>4. alg.pc \in {"statis", "d60", "write", "jierui"} =>
              alg.pc # "copy" /\ alg.pc # "frame"
        OBVIOUS
      <3>5. InHand' = InHand
        BY <3>2, <3>3, <3>4 DEF InHand
      <3> QED
        BY <3>2, <3>5
    <2> QED
      BY <1>1, <1>2, <2>1, <2>2, AlternateSame DEF IAlternate
  <1>4. ASSUME NEW flag \in Flags, Detect(flag) PROVE IAlternate'
    <2>1. /\ hist'.pending = hist.pending /\ hist'.last = hist.last
          /\ hist'.twice = hist.twice /\ hist'.lost = hist.lost
          /\ in_out' = in_out /\ alg.pc = "frame" /\ alg'.pc = "copy"
          /\ coil' = [exist |-> flag, in |-> In(flag), out |-> Out(flag)]
      BY <1>1, <1>4 DEF Detect, Hist, AlgAt, AlgState
    <2>2. /\ InHand'.in = In(flag) /\ InHand'.out = Out(flag) /\ coil'.exist = flag
          /\ ~InHand.out
      BY <2>1 DEF InHand, NoCar
    <2>3. Left' <=> Left
      BY <2>1 DEF Left, ExitFrom
    <2>4. ASSUME Alternate PROVE Alternate'
      <3>1. coil.exist # 1 => Left
        BY <2>2, <2>4 DEF Alternate
      <3>2. In(flag) => flag = 1 /\ coil.exist # 1
        BY DEF In
      <3>3. flag # 1 => Out(flag) \/ coil.exist # 1
        BY DEF Out, Flags
      <3>4. Out(flag) => flag # 1
        BY DEF Out
      <3> QED
        BY <2>1, <2>2, <2>3, <2>4, <3>1, <3>2, <3>3, <3>4 DEF Alternate
    <2> QED
      BY <1>2, <2>1, <2>4 DEF IAlternate
  <1>5. CASE Copy
    <2>1. /\ hist' = hist /\ in_out' = in_out /\ coil' = coil
          /\ InHand' = InHand
      BY <1>1, <1>5 DEF Copy, InHand, AlgState
    <2> QED
      BY <1>1, <1>2, <2>1, AlternateSame DEF IAlternate
  <1>6. CASE AddInOut
    <2>1. /\ alg.pc = "ring" /\ alg'.pc = "frame" /\ in_out' = in_out /\ coil' = coil
          /\ InHand = alg.item /\ InHand' = NoCar /\ alg.item \in Item
          /\ hist'.twice = hist.twice /\ hist'.last = hist.last
          /\ Full => hist'.lost
          /\ ~Full => /\ hist'.lost = hist.lost
                      /\ hist'.pending = Append(hist.pending, alg.item)
      BY <1>1, <1>6 DEF AddInOut, InHand, AlgState, Hist
    <2>2. ASSUME Alternate, ~Full PROVE Alternate'
      <3> DEFINE n == Len(hist.pending)
      <3>1. PICK old, new, item :
              /\ old = hist.pending /\ new = hist'.pending /\ item = alg.item
        OBVIOUS
      <3>2. /\ Len(old) \in Nat /\ Len(new) = Len(old) + 1
            /\ \A i \in 1..Len(old) : new[i] = old[i]
            /\ new[Len(old) + 1] = item
            /\ \A i \in 1..Len(new) : i \in 1..Len(old) \/ i = Len(old) + 1
            /\ \A i \in 1..Len(old) : i \in 1..Len(new)
            /\ Len(new) \in 1..Len(new)
        BY <1>1, <2>1, <2>2, <3>1, AppendProperties, LenProperties
      <3>3. /\ ~(item.in /\ item.out) /\ (item.in => Left /\ coil.exist = 1)
            /\ (coil.exist # 1 => Left \/ item.out)
        BY <2>1, <2>2, <3>1 DEF Alternate
      <3>4. \A i \in 1..Len(new) : ~(new[i].in /\ new[i].out)
        BY <2>2, <3>1, <3>2, <3>3 DEF Alternate
      <3>5. ASSUME NEW j \in 1..Len(new), new[j].in
            PROVE  /\ hist.last = "in" => \E k \in 1..(j - 1) : new[k].out
                   /\ \A i \in 1..(j - 1) : new[i].in =>
                        \E k \in (i + 1)..(j - 1) : new[k].out
        <4>1. CASE j \in 1..Len(old)
          <5>1. \A k \in 1..(j - 1) : k \in 1..Len(old) /\ new[k] = old[k]
            BY <3>2, <4>1
          <5>2. old[j].in
            BY <3>2, <3>5, <4>1
          <5>3. /\ hist.last = "in" => \E k \in 1..(j - 1) : old[k].out
                /\ \A i \in 1..(j - 1) : old[i].in =>
                     \E k \in (i + 1)..(j - 1) : old[k].out
            BY <2>2, <3>1, <4>1, <5>2 DEF Alternate
          <5>4. \A i \in 1..(j - 1) : \A k \in (i + 1)..(j - 1) : k \in 1..(j - 1)
            BY <4>1
          <5> QED
            BY <5>1, <5>3, <5>4
        <4>2. CASE j = Len(old) + 1
          <5>1. Left /\ j - 1 = Len(old)
            BY <3>2, <3>3, <3>5, <4>2
          <5>2. /\ hist.last = "in" => \E k \in 1..Len(old) : old[k].out
                /\ \A i \in 1..Len(old) : old[i].in =>
                     \E k \in (i + 1)..Len(old) : old[k].out
            BY <3>1, <5>1 DEF Left, ExitFrom
          <5>3. \A i \in 1..Len(old) : \A k \in (i + 1)..Len(old) : k \in 1..Len(old)
            BY <3>2
          <5> QED
            BY <3>2, <5>1, <5>2, <5>3
        <4> QED
          BY <3>2, <4>1, <4>2
      <3>6. ASSUME coil.exist # 1 PROVE Left'
        <4>1. ~item.in
          BY <3>3, <3>6
        <4>2. \A i \in 1..(Len(old) + 1) : \A k \in i..Len(old) : k \in i..Len(new)
          BY <3>2
        <4>3. CASE Left
          <5>1. /\ hist.last = "in" => \E k \in 1..Len(old) : old[k].out
                /\ \A i \in 1..Len(old) : old[i].in =>
                     \E k \in (i + 1)..Len(old) : old[k].out
            BY <3>1, <4>3 DEF Left, ExitFrom
          <5>2. \A i \in 1..Len(old) : /\ i + 1 \in 1..(Len(old) + 1)
                                       /\ \A k \in (i + 1)..Len(old) : k \in 1..Len(old)
            BY <3>2
          <5>3. \A i \in 1..Len(old) : new[i].in => \E k \in (i + 1)..Len(new) : new[k].out
            BY <3>2, <4>2, <5>1, <5>2
          <5>4. hist.last = "in" => \E k \in 1..Len(new) : new[k].out
            BY <3>2, <5>1
          <5> QED
            BY <2>1, <3>1, <3>2, <4>1, <5>3, <5>4 DEF Left, ExitFrom
        <4>4. CASE item.out
          <5>1. new[Len(new)].out
            BY <3>2, <4>4
          <5>2. \A i \in 1..Len(old) : Len(new) \in (i + 1)..Len(new)
            BY <3>2
          <5> QED
            BY <2>1, <3>1, <3>2, <4>1, <5>1, <5>2 DEF Left, ExitFrom
        <4> QED
          BY <3>3, <3>6, <4>3, <4>4
      <3> QED
        BY <2>1, <2>2, <3>1, <3>4, <3>5, <3>6 DEF Alternate, NoCar
    <2> QED
      BY <1>2, <2>1, <2>2 DEF IAlternate
  <1>7. CASE TakeInOut
    <2>1. PICK old, item : old = hist.pending /\ item = ring.slots[ring.g]
      OBVIOUS
    <2>2. /\ Len(old) \in Nat /\ Len(old) > 0 /\ old # <<>> /\ old \in Seq(Item)
          /\ item = old[1] /\ item \in Item
      <3>1. Len(old) \in Nat /\ Len(old) > 0
        BY <1>1, <1>7, <2>1, LenProperties DEF TakeInOut, RingExact
      <3>2. 1 \in 1..Len(old) /\ ring.g + 1 - 1 = ring.g /\ ring.g % LIST_IN_OUT_MAX = ring.g
        <4>1. ring.g + 0 < LIST_IN_OUT_MAX /\ 0 \in 0..LIST_IN_OUT_MAX /\ ring.g \in Slots
              /\ ring.g + 0 = ring.g
          BY <1>1, RingAssumption DEF Ring, Slots
        <4>2. ring.g % LIST_IN_OUT_MAX = ring.g
          BY <4>1, Places
        <4> QED
          BY <1>1, <3>1, <4>2 DEF Ring, Slots
      <3>3. item = old[1]
        BY <1>1, <2>1, <3>2 DEF RingExact
      <3>4. item \in Item
        BY <1>1, <2>1 DEF Ring
      <3> QED
        BY <1>1, <2>1, <3>1, <3>3, <3>4
    <2>3. PICK connected \in BOOLEAN :
            hist' = [hist EXCEPT
                !.pending = Tail(@),
                !.lost = @ \/ (~Silent(item) /\ ~connected),
                !.twice = @ \/ (~Silent(item) /\ connected
                                /\ item.in /\ hist.last = "in"),
                !.last = IF Silent(item) \/ ~connected THEN @ ELSE Affair(item)]
      BY <1>7, <2>1 DEF TakeInOut
    <2>4. /\ hist'.pending = Tail(old)
          /\ hist'.lost = (hist.lost \/ (~Silent(item) /\ ~connected))
          /\ hist'.twice = (hist.twice \/ (~Silent(item) /\ connected
                                           /\ item.in /\ hist.last = "in"))
          /\ hist'.last = IF Silent(item) \/ ~connected THEN hist.last ELSE Affair(item)
      BY <1>1, <2>1, <2>3 DEF Hist
    <2>5. /\ pro_type = "HAIXIN" /\ coil' = coil /\ alg' = alg /\ InHand' = InHand
          /\ in_out' = IF item.in THEN 1 ELSE IF item.out THEN 2 ELSE 0
      BY <1>7, <2>1 DEF TakeInOut, InHand
    <2>6. PICK new : new = hist'.pending
      OBVIOUS
    <2>7. /\ Len(new) = Len(old) - 1
          /\ \A i \in 1..Len(new) : new[i] = old[i + 1] /\ i + 1 \in 1..Len(old)
          /\ \A i \in 2..Len(old) : i - 1 \in 1..Len(new) /\ new[i - 1] = old[i]
      <3>1. /\ Len(Tail(old)) = Len(old) - 1
            /\ \A i \in 1..Len(Tail(old)) : Tail(old)[i] = old[i + 1]
        BY <2>2, HeadTailProperties
      <3>2. /\ \A i \in 1..(Len(old) - 1) : i + 1 \in 1..Len(old)
            /\ \A i \in 2..Len(old) : i - 1 \in 1..(Len(old) - 1) /\ (i - 1) + 1 = i
        BY <2>2
      <3> QED
        BY <2>4, <2>6, <3>1, <3>2
    <2>8. ASSUME ~hist'.lost PROVE ~hist'.twice /\ Alternate'
      <3>1. ~hist.lost /\ ~hist.twice /\ Alternate /\ (Silent(item) \/ connected)
        BY <2>4, <2>5, <2>8 DEF IAlternate
      <3>2. ~(item.in /\ item.out) /\ (item.in => hist.last # "in")
        BY <2>1, <2>2, <3>1 DEF Alternate
      <3>3. /\ item.in => ~Silent(item) /\ hist'.last = "in"
            /\ ~item.in /\ item.out => hist'.last = "out"
            /\ ~item.in /\ ~item.out => hist'.last = hist.last
        BY <2>4, <3>1, <3>2 DEF Silent, Affair, Alternate
      <3>4. ~hist'.twice
        BY <2>4, <3>1, <3>2
      <3>5. \A i \in 1..Len(new) : ~(new[i].in /\ new[i].out)
        BY <2>1, <2>7, <3>1 DEF Alternate
      <3>6. ASSUME NEW j \in 1..Len(new), new[j].in
            PROVE  /\ hist'.last = "in" => \E k \in 1..(j - 1) : new[k].out
                   /\ \A i \in 1..(j - 1) : new[i].in =>
                        \E k \in (i + 1)..(j - 1) : new[k].out
        <4>1. j + 1 \in 1..Len(old) /\ old[j + 1].in /\ (j + 1) - 1 = j
          BY <2>7, <3>6
        <4>2. /\ hist.last = "in" => \E k \in 1..j : old[k].out
              /\ \A i \in 1..j : old[i].in => \E k \in (i + 1)..j : old[k].out
          BY <2>1, <3>1, <4>1 DEF Alternate
        <4>3. \A i \in 1..j : \A k \in (i + 1)..j :
                 k - 1 \in i..(j - 1) /\ k \in 2..Len(old) /\ k - 1 \in 1..(j - 1)
          BY <2>2, <2>7
        <4>4. ASSUME NEW i \in 1..j, old[i].in PROVE \E k \in i..(j - 1) : new[k].out
          <5>1. PICK k \in (i + 1)..j : old[k].out
            BY <4>2, <4>4
          <5> QED
            BY <2>7, <4>3, <5>1
        <4>5. ASSUME hist'.last = "in" PROVE \E k \in 1..(j - 1) : new[k].out
          <5>1. CASE item.in
            <6>1. 1 \in 1..j /\ old[1].in
              BY <2>2, <5>1
            <6> QED
              BY <4>4, <6>1
          <5>2. CASE ~item.in
            <6>1. hist.last = "in" /\ ~item.out
              BY <3>3, <4>5, <5>2
            <6>2. PICK k \in 1..j : old[k].out
              BY <4>2, <6>1
            <6>3. k # 1
              BY <2>2, <6>1, <6>2
            <6>4. k \in (1 + 1)..j
              BY <6>3
            <6>5. k - 1 \in 1..(j - 1) /\ k \in 2..Len(old)
              BY <4>3, <6>4
            <6> QED
              BY <2>7, <6>2, <6>5
          <5> QED
            BY <5>1, <5>2
        <4>6. ASSUME NEW i \in 1..(j - 1), new[i].in
              PROVE  \E k \in (i + 1)..(j - 1) : new[k].out
          <5>1. i + 1 \in 1..j /\ i \in 1..Len(new)
            BY <2>2, <2>7
          <5>2. old[i + 1].in
            BY <2>7, <4>6, <5>1
          <5> QED
            BY <4>4, <5>1, <5>2
        <4> QED
          BY <4>5, <4>6
      <3>7. ASSUME Left PROVE Left'
        <4>1. /\ hist.last = "in" => \E k \in 1..Len(old) : old[k].out
              /\ \A i \in 1..Len(old) : old[i].in => \E k \in (i + 1)..Len(old) : old[k].out
          BY <2>1, <3>7 DEF Left, ExitFrom
        <4>2. ASSUME NEW i \in 1..Len(old), old[i].in
              PROVE  \E k \in i..Len(new) : new[k].out
          <5>1. PICK k \in (i + 1)..Len(old) : old[k].out
            BY <4>1, <4>2
          <5>2. k \in 2..Len(old) /\ k - 1 \in i..Len(new)
            BY <2>2, <2>7
          <5> QED
            BY <2>7, <5>1, <5>2
        <4>3. ASSUME hist'.last = "in" PROVE \E k \in 1..Len(new) : new[k].out
          <5>1. CASE item.in
            BY <2>2, <4>2, <5>1
          <5>2. CASE ~item.in
            <6>1. hist.last = "in" /\ ~item.out
              BY <3>3, <4>3, <5>2
            <6>2. PICK k \in 1..Len(old) : old[k].out
              BY <4>1, <6>1
            <6>3. k # 1
              BY <2>2, <6>1, <6>2
            <6>4. k \in 2..Len(old)
              BY <6>3
            <6> QED
              BY <2>7, <6>2, <6>4
          <5> QED
            BY <5>1, <5>2
        <4>4. ASSUME NEW i \in 1..Len(new), new[i].in
              PROVE  \E k \in (i + 1)..Len(new) : new[k].out
          <5>1. i + 1 \in 1..Len(old) /\ old[i + 1].in
            BY <2>7, <4>4
          <5> QED
            BY <4>2, <5>1
        <4> QED
          BY <2>6, <4>3, <4>4 DEF Left, ExitFrom
      <3>8. in_out' = 1 => hist'.last = "in"
        BY <2>5, <3>3
      <3> QED
        BY <2>5, <2>6, <3>1, <3>4, <3>5, <3>6, <3>7, <3>8 DEF Alternate
    <2> QED
      BY <1>2, <2>5, <2>8 DEF IAlternate
  <1> QED
    BY <1>3, <1>4, <1>5, <1>6, <1>7

\* HAIXIN is told of every car that goes before it is told of the next that comes, in
\* whatever order the frames and the timer run, as long as nothing is dropped.
THEOREM EntriesInOrder == Spec => []EntriesAlternate
  <1>1. Init => IAlternate
    <2>1. Init => hist.pending = <<>> /\ hist.last = "none" /\ ~hist.twice
                  /\ in_out = 0 /\ InHand = NoCar
      BY DEF Init, InHand
    <2>2. Init => Left /\ Alternate
      BY <2>1 DEF Left, Alternate, NoCar
    <2> QED
      BY <2>1, <2>2 DEF IAlternate
  <1>2. IAlternate => EntriesAlternate
    BY DEF IAlternate, EntriesAlternate
  <1> QED
    BY <1>1, <1>2, AlternateStep, Inductive, PTL DEF Spec
=============================================================================
