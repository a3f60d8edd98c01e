------------------------ MODULE DetectorReport_proofs ------------------------
(***************************************************************************)
(* For any cameras: reports and counter together have every car, modulo    *)
(* the size of the counter, that did not come while a report was being     *)
(* cleared.  Without such a car, what an algorithm thread has read is      *)
(* still the counter when it writes, and the row copied is still the       *)
(* counter when the timer clears it.  And the camera of rank r is sent at  *)
(* least every 2^r polls, because the polls count the statuses down.       *)
(***************************************************************************)
EXTENDS DetectorReport, TLAPS, FiniteSetTheorems, FunctionTheorems,
        WellFoundedInduction

ReadHolds ==
    \A c \in Cameras : ~overlap[c] /\ alg[c].pc = "write" => alg[c].read = flow[c]

RowHolds ==
    timer.pc = "clear" /\ ~overlap[timer.next] => timer.row = flow[timer.next]

IInv == FlowTypes /\ FlowExact /\ ReadHolds /\ RowHolds

----------------------------------------------------------------------------
\* One car more, on the counter and on what is owed.
LEMMA OneMore ==
    /\ \A n \in Flow : More(n) = (n + 1) % FlowSize /\ More(n) \in Flow
    /\ \A n \in Flow : (n - n) % FlowSize = 0
    /\ \A m, n \in Flow : (m - n) % FlowSize \in Flow
  <1>1. \A k \in Int : k % 4 \in 0..3
    OBVIOUS
  <1>2. \A n \in 0..3 : n + 1 \in Int /\ n - n = 0
    OBVIOUS
  <1>3. \A m, n \in 0..3 : m - n \in Int
    OBVIOUS
  <1>4. Flow = 0..3 /\ FlowSize = 4
    BY DEF Flow, FlowSize
  <1>5. \A n \in Flow : More(n) = (n + 1) % FlowSize /\ More(n) \in Flow
    BY <1>1, <1>2, <1>4 DEF More
  <1>6. \A n \in Flow : (n - n) % FlowSize = 0
    BY <1>4
  <1>7. \A m, n \in Flow : (m - n) % FlowSize \in Flow
    BY <1>1, <1>3, <1>4
  <1> QED
    BY <1>5, <1>6, <1>7

LEMMA InitHolds == Init => IInv
  BY DEF Init, IInv, FlowTypes, FlowExact, ReadHolds, RowHolds, Flow, FlowSize

\* A car is counted.
LEMMA EnterHolds ==
    ASSUME IInv, NEW c \in Cameras, EnterRead(c) \/ EnterWrite(c)
    PROVE  IInv'
  <1>1. CASE EnterRead(c)
    <2>1. FlowTypes'
      BY <1>1 DEF IInv, FlowTypes, EnterRead, history
    <2>2. ReadHolds'
      BY <1>1 DEF IInv, FlowTypes, ReadHolds, EnterRead, history
    <2> QED
      BY <1>1, <2>1, <2>2 DEF IInv, FlowExact, RowHolds, EnterRead, history
  <1>2. CASE EnterWrite(c)
    <2> DEFINE n == alg[c].read
               over == overlap[c] \/ (timer.pc = "clear" /\ timer.next = c)
    <2>1. /\ n \in Flow /\ owed[c] \in Flow /\ over \in BOOLEAN
          /\ More(n) \in Flow /\ (owed[c] + 1) % FlowSize \in Flow
          /\ ~over => More(n) = (owed[c] + 1) % FlowSize
      BY <1>2, OneMore
         DEF IInv, FlowTypes, FlowExact, ReadHolds, EnterWrite, More
    <2>2. /\ flow' = [flow EXCEPT ![c] = More(n)]
          /\ owed' = [owed EXCEPT ![c] = (owed[c] + 1) % FlowSize]
          /\ overlap' = [overlap EXCEPT ![c] = over]
          /\ alg' = [alg EXCEPT ![c] = [pc |-> "idle", read |-> 0]]
          /\ timer' = timer
      BY <1>2 DEF EnterWrite
    <2>3. 0 \in Flow
      BY DEF Flow, FlowSize
    <2> HIDE DEF n
    <2>4. FlowTypes'
      BY <2>1, <2>2, <2>3 DEF IInv, FlowTypes
    <2>5. FlowExact'
      BY <2>1, <2>2 DEF IInv, FlowTypes, FlowExact
    <2>6. ReadHolds'
      BY <2>2 DEF IInv, FlowTypes, ReadHolds
    <2>7. RowHolds'
      BY <2>2 DEF IInv, FlowTypes, RowHolds
    <2> QED
      BY <2>4, <2>5, <2>6, <2>7 DEF IInv
  <1> QED
    BY <1>1, <1>2

\* The timer clears a counter.
LEMMA ClearHolds == ASSUME IInv, Clear PROVE IInv'
  <1> DEFINE c == timer.next
             over == overlap[c] \/ alg[c].pc = "write"
  <1>1. /\ c \in Cameras /\ owed[c] \in Flow /\ timer.row \in Flow /\ over \in BOOLEAN
        /\ ~over => timer.row = owed[c]
    BY DEF IInv, FlowTypes, FlowExact, RowHolds, Clear
  <1>2. /\ flow' = [flow EXCEPT ![c] = 0]
        /\ owed' = [owed EXCEPT ![c] = (owed[c] - timer.row) % FlowSize]
        /\ overlap' = [overlap EXCEPT ![c] = over]
        /\ alg' = alg /\ timer'.pc = "idle"
        /\ timer' = [timer EXCEPT !.pc = "idle", !.next = 0, !.seen = 0, !.row = 0]
    BY DEF Clear, Cleared, IInv, FlowTypes
  <1>3. 0 \in Flow
    BY DEF Flow, FlowSize
  <1>4. /\ (owed[c] - timer.row) % FlowSize \in Flow
        /\ ~over => (owed[c] - timer.row) % FlowSize = 0
    BY <1>1, OneMore
  <1> HIDE DEF c
  <1>5. FlowTypes'
    BY <1>1, <1>2, <1>3, <1>4 DEF IInv, FlowTypes
  <1>6. FlowExact'
    BY <1>1, <1>2, <1>4 DEF IInv, FlowTypes, FlowExact
  <1>7. ReadHolds'
    BY <1>1, <1>2 DEF IInv, FlowTypes, ReadHolds
  <1>8. RowHolds'
    BY <1>2 DEF RowHolds
  <1> QED
    BY <1>5, <1>6, <1>7, <1>8 DEF IInv

\* The other steps of the timer.
LEMMA ScanHolds ==
    ASSUME IInv,
           Poll \/ (\E c \in Cameras : FirstSample(c) \/ SecondSample(c)) \/ Copy
           \/ NothingSent
    PROVE  IInv'
  <1>1. UNCHANGED <<flow, alg, owed, overlap>>
    BY DEF Poll, FirstSample, SecondSample, Copy, NothingSent, history
  <1>2. FlowTypes' /\ RowHolds'
    <2>1. CASE Poll
      BY <1>1, <2>1 DEF IInv, FlowTypes, RowHolds, Poll
    <2>2. ASSUME NEW c \in Cameras, FirstSample(c) PROVE FlowTypes' /\ RowHolds'
      <3>1. c + 1 \in Nat /\ timer.seen + 1 \in Nat
        BY CamerasAssumption DEF IInv, FlowTypes
      <3>2. /\ timer' = [timer EXCEPT !.next = c + 1, !.seen = timer.seen + 1]
            /\ timer.pc = "scan"
        BY <2>2 DEF FirstSample, At
      <3>3. timer' \in [pc : {"idle", "scan", "copy", "clear"}, next : Nat, seen : Nat,
                        row : Flow]
            /\ timer'.pc = "scan"
        BY <3>1, <3>2 DEF IInv, FlowTypes
      <3> QED
        BY <1>1, <3>3 DEF IInv, FlowTypes, RowHolds
    <2>3. ASSUME NEW c \in Cameras, SecondSample(c) PROVE FlowTypes' /\ RowHolds'
      <3>1. c \in Nat
        BY CamerasAssumption
      <3> QED
        BY <1>1, <2>3, <3>1 DEF IInv, FlowTypes, RowHolds, SecondSample
    <2>4. CASE Copy
      <3>1. timer.next \in Cameras /\ flow[timer.next] \in Flow
        BY <2>4 DEF IInv, FlowTypes, Copy
      <3> QED
        BY <1>1, <2>4, <3>1 DEF IInv, FlowTypes, RowHolds, Copy
    <2>5. CASE NothingSent
      BY <1>1, <2>5 DEF IInv, FlowTypes, RowHolds, NothingSent
    <2> QED
      BY <2>1, <2>2, <2>3, <2>4, <2>5
  <1> QED
    BY <1>1, <1>2 DEF IInv, FlowExact, ReadHolds

LEMMA StepHolds == IInv /\ [Next]_vars => IInv'
  <1> SUFFICES ASSUME IInv, [Next]_vars PROVE IInv'
    OBVIOUS
  <1>1. ASSUME NEW c \in Entering, EnterRead(c) \/ EnterWrite(c) PROVE IInv'
    BY <1>1, EnteringAssumption, EnterHolds
  <1>2. CASE TimerStep
    BY <1>2, ClearHolds, ScanHolds DEF TimerStep
  <1>3. CASE UNCHANGED <<flow, alg, timer, owed, overlap>>
    BY <1>3 DEF IInv, FlowTypes, FlowExact, ReadHolds, RowHolds
  <1> QED
    BY <1>1, <1>2, <1>3 DEF Next, Link, Change, vars, history

\* What the scan keeps of the cameras.
LEMMA PollTypesStep == TypeOK /\ [Next]_vars => PollTypes'
  <1> SUFFICES ASSUME TypeOK, [Next]_vars PROVE PollTypes'
    OBVIOUS
  <1> USE DEF TypeOK, PollTypes
  <1>1. ASSUME NEW c \in Entering, EnterRead(c) \/ EnterWrite(c) PROVE PollTypes'
    BY <1>1 DEF EnterRead, EnterWrite, history
  <1>2. CASE Poll
    BY <1>2 DEF Poll
  <1>3. ASSUME NEW c \in Cameras, FirstSample(c) \/ SecondSample(c) PROVE PollTypes'
    BY <1>3 DEF FirstSample, SecondSample, history
  <1>4. CASE Copy
    BY <1>4 DEF Copy, history
  <1>5. ASSUME NEW camera \in Cameras \union {None}, Polled(camera)
        PROVE  sent' \in Cameras \union {None} /\ since' \in [Cameras -> Nat]
    BY <1>5 DEF Polled
  <1>6. CASE Clear
    <2>1. timer.next \in Cameras
      BY <1>6 DEF Clear, FlowTypes
    <2>2. /\ Polled(timer.next) /\ up' \in {up, FALSE} /\ UNCHANGED <<exist, changes>>
          /\ status' = [status EXCEPT ![timer.next] = 0]
      BY <1>6 DEF Clear, Restart
    <2>3. sent' \in Cameras \union {None} /\ since' \in [Cameras -> Nat]
      BY <1>5, <2>1, <2>2
    <2>4. status' \in [Cameras -> 0..2]
      <3>1. status \in [Cameras -> 0..2] /\ 0 \in 0..2
        OBVIOUS
      <3> HIDE DEF TypeOK, PollTypes
      <3> QED
        BY <2>1, <2>2, <3>1, Zenon
    <2> QED
      BY <2>2, <2>3, <2>4
  <1>7. CASE NothingSent
    BY <1>5, <1>7 DEF NothingSent
  <1>8. CASE Link
    BY <1>8 DEF Link, history
  <1>9. ASSUME NEW c \in Cameras, Change(c) PROVE PollTypes'
    BY <1>9 DEF Change
  <1>10. CASE UNCHANGED vars
    BY <1>10 DEF vars, history
  <1> QED
    BY <1>1, <1>2, <1>3, <1>4, <1>6, <1>7, <1>8, <1>9, <1>10 DEF Next, TimerStep

\* Every variable keeps its type; in particular a camera that is being reported is one.
THEOREM Types == Spec => []TypeOK
  <1>1. Init => PollTypes
    <2> SUFFICES ASSUME Init PROVE PollTypes
      OBVIOUS
    <2>1. exist \subseteq Cameras /\ up \in BOOLEAN /\ sent = None /\ changes \in Nat
      BY DEF Init
    <2>2. status \in [Cameras -> 0..2] /\ since \in [Cameras -> Nat]
      BY DEF Init
    <2> QED
      BY <2>1, <2>2 DEF PollTypes
  <1>2. IInv => FlowTypes
    BY DEF IInv
  <1>3. IInv /\ PollTypes /\ [Next]_vars => PollTypes'
    BY <1>2, PollTypesStep DEF TypeOK
  <1> QED
    BY <1>1, <1>2, <1>3, InitHolds, StepHolds, PTL DEF Spec, TypeOK

\* Whatever the cameras, the only cars reported twice or not at all are those that
\* came while a report was being cleared.
THEOREM FlowReported == Spec => []FlowExact
  <1>1. IInv => FlowExact
    BY DEF IInv
  <1> QED
    BY <1>1, InitHolds, StepHolds, PTL DEF Spec
----------------------------------------------------------------------------
\* A set with one element more has twice as many subsets.
LEMMA SubsetsDouble ==
    ASSUME NEW S, IsFiniteSet(S), NEW x, x \notin S
    PROVE  Cardinality(SUBSET (S \union {x})) = 2 * Cardinality(SUBSET S)
  <1> DEFINE A == SUBSET S
             B == {X \union {x} : X \in A}
             f == [X \in A |-> X \union {x}]
  <1>1. IsFiniteSet(A) /\ Cardinality(A) \in Nat
    BY FS_SUBSET, FS_CardinalityType
  <1>2. f \in Bijection(A, B)
    <2>1. \A X \in A : X = (X \union {x}) \ {x}
      OBVIOUS
    <2>2. \A X, Y \in A : f[X] = f[Y] => X = Y
      BY <2>1
    <2>3. \A Z \in B : \E X \in A : f[X] = Z
      OBVIOUS
    <2>4. f \in [A -> B]
      OBVIOUS
    <2> QED
      BY <2>2, <2>3, <2>4, Fun_IsBij
  <1>3. IsFiniteSet(B) /\ Cardinality(B) = Cardinality(A)
    BY <1>1, <1>2, FS_Bijection DEF ExistsBijection
  <1>4. A \cap B = {}
    OBVIOUS
  <1>5. SUBSET (S \union {x}) = A \union B
    <2>1. ASSUME NEW X \in SUBSET (S \union {x}) PROVE X \in A \union B
      <3>1. CASE x \in X
        <4>1. X \ {x} \in A /\ X = (X \ {x}) \union {x}
          BY <3>1
        <4> QED
          BY <4>1
      <3>2. CASE x \notin X
        BY <3>2
      <3> QED
        BY <3>1, <3>2
    <2>2. A \union B \subseteq SUBSET (S \union {x})
      OBVIOUS
    <2> QED
      BY <2>1, <2>2
  <1> HIDE DEF A, B
  <1>6. Cardinality(A \union B) = Cardinality(A) + Cardinality(B) - 0
    BY <1>1, <1>3, <1>4, FS_Union, FS_EmptySet
  <1>7. Cardinality(A \union B) = 2 * Cardinality(A)
    BY <1>1, <1>3, <1>6
  <1> QED
    BY <1>5, <1>7, Zenon DEF A

\* The powers of two.
LEMMA Powers ==
    /\ 2^0 = 1
    /\ \A n \in Nat : 2^n \in Nat \ {0} /\ 2^(n + 1) = 2 * 2^n
  <1>1. ASSUME NEW n \in Nat
        PROVE  /\ IsFiniteSet(1..n) /\ Cardinality(1..n) = n
               /\ Cardinality(SUBSET (1..n)) = 2^n
    <2>1. IsFiniteSet(1..n) /\ Cardinality(1..n) = n
      BY FS_Interval
    <2> QED
      BY <2>1, FS_SUBSET
  <1>2. 2^0 = 1
    <2>1. 1..0 = {} /\ SUBSET {} = {{}}
      OBVIOUS
    <2>2. Cardinality({{}}) = 1
      BY FS_Singleton
    <2> QED
      BY <1>1, <2>1, <2>2
  <1>3. ASSUME NEW n \in Nat PROVE 2^n \in Nat \ {0} /\ 2^(n + 1) = 2 * 2^n
    <2>1. 1..(n + 1) = (1..n) \union {n + 1} /\ n + 1 \notin 1..n
      OBVIOUS
    <2>2. 2^(n + 1) = 2 * 2^n
      <3>1. Cardinality(SUBSET ((1..n) \union {n + 1})) = 2 * Cardinality(SUBSET (1..n))
        BY <1>1, <2>1, SubsetsDouble
      <3>2. n + 1 \in Nat
        OBVIOUS
      <3>3. Cardinality(SUBSET (1..(n + 1))) = 2^(n + 1)
        BY <1>1, <3>2
      <3> QED
        BY <1>1, <2>1, <3>1, <3>3, Zenon
    <2>3. Cardinality(SUBSET (1..n)) \in Nat
      BY <1>1, FS_SUBSET, FS_CardinalityType
    <2>4. Cardinality(SUBSET (1..n)) # 0
      BY <1>1, FS_SUBSET, FS_EmptySet, ZenonT(30)
    <2> QED
      BY <1>1, <2>2, <2>3, <2>4
  <1> QED
    BY <1>2, <1>3

----------------------------------------------------------------------------
(* How often a camera is sent.  A poll goes on from a camera without a sample *)
(* to the next one, and ends at one with a sample: the statuses, lowest camera *)
(* first, are the digits of a number that every poll counts down by one.     *)

\* A camera is reached by every poll that finds no sample below it: once in Turn(c).
Turn(c) == 2^(Rank(c) - 1)

First(c) == \A d \in exist : c <= d
Follows(p, c) == p < c /\ \A d \in exist : d <= p \/ c <= d

\* What the status was when the present poll began.
Before(c) == IF timer.pc # "idle" /\ c < timer.next THEN 0
             ELSE IF timer.pc \in {"copy", "clear"} /\ c = timer.next THEN 1
             ELSE status[c]

\* w[c] is the poll that reaches c, counted from the present one: a camera with a
\* sample keeps the cameras above it waiting for one more turn.
Waits(w) ==
    /\ w \in [exist -> Nat \ {0}]
    /\ \A c \in exist :
         /\ First(c) => w[c] = 1
         /\ \A p \in exist : Follows(p, c) =>
              w[c] = IF Before(p) = 1 THEN w[p] + Turn(p) ELSE w[p]

\* The first time it is reached a camera is sent if it has a sample, otherwise a turn later.
Due(w) == \A c \in exist :
    since[c] + w[c] + (IF Before(c) = 0 THEN Turn(c) ELSE 0) <= 2 * Turn(c)

\* How far the present poll is.
ScanOK ==
    /\ \A c \in exist :
         IF timer.pc # "idle" /\ c < timer.next THEN status[c] = 1
         ELSE IF timer.pc \in {"copy", "clear"} /\ c = timer.next THEN status[c] = 2
         ELSE status[c] \in 0..1
    /\ timer.pc = "scan" => timer.seen = Cardinality({d \in exist : d < timer.next})
    /\ timer.pc \in {"copy", "clear"} => timer.next \in exist

ICadence == changes = 0 => ScanOK /\ \E w : Waits(w) /\ Due(w)

\* A set of numbers has a least one.
LEMMA LeastOf ==
    ASSUME NEW T, T \subseteq Nat, T # {}
    PROVE  \E x \in T : \A y \in T : x <= y
  <1>1. \E x \in T : \A y \in T : ~(<<y, x>> \in OpToRel(<, Nat))
    BY NatLessThanWellFounded, WFMin
  <1>2. \A x, y \in T : y < x => <<y, x>> \in OpToRel(<, Nat)
    BY DEF OpToRel
  <1>3. PICK x \in T : \A y \in T : ~(<<y, x>> \in OpToRel(<, Nat))
    BY <1>1
  <1>4. ASSUME NEW y \in T PROVE x <= y
    <2>1. ~(y < x)
      BY <1>2, <1>3
    <2>2. x \in Nat /\ y \in Nat
      OBVIOUS
    <2> QED
      BY <2>1, <2>2
  <1> QED
    BY <1>4

\* A camera that is not the first follows another.
LEMMA Preceded ==
    ASSUME exist \subseteq Cameras, NEW c \in exist, ~First(c)
    PROVE  \E p \in exist : Follows(p, c)
  <1> DEFINE T == {c - d : d \in {e \in exist : e < c}}
  <1>1. \A d \in exist : d \in Nat
    BY CamerasAssumption
  <1>2. T \subseteq Nat
    BY <1>1
  <1>3. T # {}
    <2>1. PICK d \in exist : ~(c <= d)
      BY DEF First
    <2>2. d < c
      BY <1>1, <2>1
    <2> QED
      BY <2>2
  <1>4. PICK x \in T : \A y \in T : x <= y
    <2> HIDE DEF T
    <2> QED
      BY <1>2, <1>3, LeastOf
  <1>5. PICK p \in exist : p < c /\ x = c - p
    BY <1>4
  <1>6. ASSUME NEW d \in exist PROVE d <= p \/ c <= d
    <2>1. CASE d < c
      <3>1. c - d \in T
        BY <2>1
      <3>2. c - p <= c - d
        BY <3>1, <1>4, <1>5
      <3> QED
        BY <3>2, <1>1
    <2>2. CASE ~(d < c)
      BY <2>2, <1>1
    <2> QED
      BY <2>1, <2>2
  <1> QED
    BY <1>5, <1>6 DEF Follows

\* Every camera has twice the turn of the one it follows.
LEMMA Turns ==
    ASSUME exist \subseteq Cameras, NEW c \in exist
    PROVE  /\ Turn(c) \in Nat \ {0} /\ 2^Rank(c) = 2 * Turn(c)
           /\ First(c) => Turn(c) = 1
           /\ \A p \in exist : Follows(p, c) => Turn(c) = 2 * Turn(p)
  <1>1. \A d \in exist : d \in Nat
    BY CamerasAssumption
  <1>2. IsFiniteSet(exist)
    BY CamerasAssumption, FS_Subset
  <1>3. ASSUME NEW d \in exist
        PROVE  /\ IsFiniteSet({e \in exist : e <= d}) /\ Rank(d) \in Nat \ {0}
               /\ Turn(d) \in Nat \ {0} /\ 2^Rank(d) = 2 * Turn(d)
    <2>1. IsFiniteSet({e \in exist : e <= d})
      BY <1>2, FS_Subset
    <2>2. Rank(d) \in Nat
      BY <2>1, FS_CardinalityType DEF Rank
    <2>3. d \in {e \in exist : e <= d}
      BY <1>1
    <2>4. Rank(d) # 0
      BY <2>1, <2>3, FS_EmptySet DEF Rank
    <2>5. PICK n \in Nat : n = Rank(d) - 1 /\ n + 1 = Rank(d)
      BY <2>2, <2>4
    <2>6. 2^n \in Nat \ {0} /\ 2^(n + 1) = 2 * 2^n
      BY Powers
    <2> QED
      BY <2>1, <2>2, <2>4, <2>5, <2>6 DEF Turn
  <1>4. ASSUME First(c) PROVE Turn(c) = 1
    <2>1. {d \in exist : d <= c} = {c}
      BY <1>1, <1>4 DEF First
    <2>2. Rank(c) = 1
      BY <2>1, FS_Singleton DEF Rank
    <2>3. Rank(c) - 1 = 0
      BY <2>2
    <2> QED
      BY <2>3, Powers, Zenon DEF Turn
  <1>5. ASSUME NEW p \in exist, Follows(p, c) PROVE Turn(c) = 2 * Turn(p)
    <2>1. {d \in exist : d <= c} = {d \in exist : d <= p} \union {c}
      BY <1>1, <1>5 DEF Follows
    <2>2. c \notin {d \in exist : d <= p}
      BY <1>1, <1>5 DEF Follows
    <2>3. Rank(c) = Rank(p) + 1
      BY <1>3, <2>1, <2>2, FS_AddElement DEF Rank
    <2>4. Rank(c) - 1 = Rank(p)
      <3>1. Rank(p) \in Nat
        BY <1>3
      <3> QED
        BY <2>3, <3>1
    <2>5. Turn(c) = 2^Rank(p)
      BY <2>4, Zenon DEF Turn
    <2> QED
      BY <1>3, <2>5
  <1> QED
    BY <1>3, <1>4, <1>5

\* If no camera below k has a sample, this poll reaches k and all below it.
LEMMA Reached ==
    ASSUME exist \subseteq Cameras, NEW w, Waits(w), NEW k \in exist,
           \A c \in exist : c < k => Before(c) = 0
    PROVE  \A c \in exist : c <= k => w[c] = 1
  <1> DEFINE T == {c \in exist : c <= k /\ w[c] # 1}
  <1>1. \A d \in exist : d \in Nat
    BY CamerasAssumption
  <1> SUFFICES ASSUME T # {} PROVE FALSE
    OBVIOUS
  <1>2. T \subseteq Nat
    BY <1>1
  <1>3. PICK x \in T : \A y \in T : x <= y
    <2> HIDE DEF T
    <2> QED
      BY <1>2, LeastOf
  <1>4. x \in exist /\ x <= k /\ w[x] # 1
    OBVIOUS
  <1>5. ~First(x)
    BY <1>4 DEF Waits
  <1>6. PICK p \in exist : Follows(p, x)
    BY <1>4, <1>5, Preceded
  <1>7. p < x /\ p < k
    BY <1>1, <1>4, <1>6 DEF Follows
  <1>8. w[p] = 1
    BY <1>1, <1>3, <1>7
  <1>9. Before(p) = 0
    BY <1>7
  <1> QED
    BY <1>4, <1>6, <1>8, <1>9 DEF Waits

\* A camera with a sample keeps those above it waiting.
LEMMA Delayed ==
    ASSUME exist \subseteq Cameras, NEW w, Waits(w), NEW k \in exist, Before(k) = 1
    PROVE  \A c \in exist : k < c => w[c] > 1
  <1> DEFINE T == {c \in exist : k < c /\ ~(w[c] > 1)}
  <1>1. \A d \in exist : d \in Nat /\ w[d] \in Nat \ {0} /\ Turn(d) \in Nat \ {0}
    BY CamerasAssumption, Turns DEF Waits
  <1> SUFFICES ASSUME T # {} PROVE FALSE
    OBVIOUS
  <1>2. T \subseteq Nat
    BY <1>1
  <1>3. PICK x \in T : \A y \in T : x <= y
    <2> HIDE DEF T
    <2> QED
      BY <1>2, LeastOf
  <1>4. x \in exist /\ k < x /\ ~(w[x] > 1)
    OBVIOUS
  <1>5. ~First(x)
    BY <1>1, <1>4 DEF First
  <1>6. PICK p \in exist : Follows(p, x)
    BY <1>4, <1>5, Preceded
  <1>7. p < x /\ k <= p
    BY <1>1, <1>4, <1>6 DEF Follows
  <1>8. w[x] = IF Before(p) = 1 THEN w[p] + Turn(p) ELSE w[p]
    BY <1>4, <1>6 DEF Waits
  <1>9. CASE p = k
    BY <1>1, <1>4, <1>8, <1>9
  <1>10. CASE p # k
    <2>1. p \notin T
      BY <1>1, <1>3, <1>7
    <2>2. w[p] > 1
      BY <1>1, <1>7, <1>10, <2>1
    <2> QED
      BY <1>1, <1>4, <1>8, <2>2
  <1> QED
    BY <1>9, <1>10

\* Between the polls' ends nothing of this changes.
LEMMA SamePoll ==
    ASSUME UNCHANGED <<exist, since>>, \A c \in exist : Before(c)' = Before(c),
           \E w : Waits(w) /\ Due(w)
    PROVE  (\E w : Waits(w) /\ Due(w))'
  <1>1. PICK w : Waits(w) /\ Due(w)
    OBVIOUS
  <1>2. \A c \in exist : Turn(c)' = Turn(c) /\ (First(c)' <=> First(c))
    BY DEF Turn, Rank, First
  <1>3. \A c, p \in exist : Follows(p, c)' <=> Follows(p, c)
    BY DEF Follows
  <1>4. Waits(w)'
    BY <1>1, <1>2, <1>3 DEF Waits
  <1>5. Due(w)'
    BY <1>1, <1>2 DEF Due
  <1> QED
    BY <1>4, <1>5

\* At the end of a poll those it reached have or lose a sample, and wait for a turn; the
\* others have one poll less to wait.
LEMMA PollEnds ==
    ASSUME TypeOK, NEW w, Waits(w), Due(w), UNCHANGED exist, timer'.pc = "idle",
           NEW R, R \subseteq exist,
           \A c \in R : \A d \in exist : d <= c => d \in R,
           NEW camera,
           \A c \in R : w[c] = 1
           /\ IF c = camera THEN Before(c) = 1 /\ status'[c] = 0
                             ELSE Before(c) = 0 /\ status'[c] = 1,
           \A c \in exist \ R : camera \in R /\ w[c] > 1 /\ status'[c] = Before(c),
           \A c \in R : c <= camera \/ exist = R,
           Polled(camera)
    PROVE  (\E u : Waits(u) /\ Due(u))'
  <1> DEFINE v == [c \in exist |-> IF c \in R THEN Turn(c) ELSE w[c] - 1]
  <1>1. \A d \in exist : /\ d \in Nat /\ w[d] \in Nat \ {0} /\ Turn(d) \in Nat \ {0}
                         /\ since[d] \in Nat
    BY CamerasAssumption, Turns DEF Waits, TypeOK, PollTypes
  <1>2. \A c \in exist : Turn(c)' = Turn(c) /\ (First(c)' <=> First(c))
    BY DEF Turn, Rank, First
  <1>3. \A c, p \in exist : Follows(p, c)' <=> Follows(p, c)
    BY DEF Follows
  <1>4. \A c \in exist : Before(c)' = status'[c]
    BY DEF Before
  <1>5. v \in [exist -> Nat \ {0}]
    <2>1. \A c \in exist \ R : w[c] - 1 \in Nat \ {0}
      BY <1>1
    <2> QED
      BY <1>1, <2>1
  <1>6. ASSUME NEW c \in exist, First(c) PROVE v[c] = 1
    <2>1. c \in R
      BY <1>6 DEF Waits
    <2> QED
      BY <1>6, <2>1, Turns DEF TypeOK, PollTypes
  <1>7. ASSUME NEW c \in exist, NEW p \in exist, Follows(p, c)
        PROVE  v[c] = IF status'[p] = 1 THEN v[p] + Turn(p) ELSE v[p]
    <2>1. /\ w[c] = IF Before(p) = 1 THEN w[p] + Turn(p) ELSE w[p]
          /\ Turn(c) = 2 * Turn(p) /\ p < c /\ \A d \in exist : d <= p \/ c <= d
      BY <1>7, Turns DEF Waits, Follows, TypeOK, PollTypes
    <2>2. CASE c \in R
      <3>1. p \in R
        BY <1>1, <2>1, <2>2
      <3>2. p # camera
        BY <1>1, <2>1, <2>2, <3>1
      <3>3. status'[p] = 1
        BY <3>1, <3>2
      <3> QED
        BY <1>1, <2>1, <2>2, <3>1, <3>3
    <2>3. CASE c \notin R /\ p \in R
      <3>1. p = camera
        <4>1. camera \in R /\ p <= camera /\ camera \in Nat
          BY <1>1, <2>3
        <4>2. ~(c <= camera)
          BY <2>3, <4>1
        <4> QED
          BY <1>1, <2>1, <4>1, <4>2
      <3>2. Before(p) = 1 /\ status'[p] = 0 /\ w[p] = 1
        BY <2>3, <3>1
      <3> QED
        BY <1>1, <2>1, <2>3, <3>2
    <2>4. CASE c \notin R /\ p \notin R
      <3>1. status'[p] = Before(p) /\ v[c] = w[c] - 1 /\ v[p] = w[p] - 1
        BY <2>4
      <3> HIDE DEF v
      <3> QED
        BY <1>1, <2>1, <3>1
    <2> QED
      BY <2>2, <2>3, <2>4
  <1>8. ASSUME NEW c \in exist
        PROVE  since'[c] + v[c] + (IF status'[c] = 0 THEN Turn(c) ELSE 0) <= 2 * Turn(c)
    <2>1. c \in Cameras
      BY DEF TypeOK, PollTypes
    <2>2. since'[c] \in Nat /\ since'[c] <= since[c] + 1 /\ (c = camera => since'[c] = 0)
      BY <1>1, <2>1 DEF Polled
    <2>3. since[c] + w[c] + (IF Before(c) = 0 THEN Turn(c) ELSE 0) <= 2 * Turn(c)
      BY DEF Due
    <2>4. CASE c \in R /\ c = camera
      <3>1. v[c] = Turn(c) /\ status'[c] = 0 /\ since'[c] = 0
        BY <2>2, <2>4
      <3> HIDE DEF v
      <3> QED
        BY <1>1, <3>1
    <2>5. CASE c \in R /\ c # camera
      <3>1. v[c] = Turn(c) /\ status'[c] = 1 /\ Before(c) = 0 /\ w[c] = 1
        BY <2>5
      <3> HIDE DEF v
      <3> QED
        BY <1>1, <2>2, <2>3, <3>1
    <2>6. CASE c \notin R
      <3>1. v[c] = w[c] - 1 /\ status'[c] = Before(c)
        BY <2>6
      <3> HIDE DEF v
      <3> QED
        BY <1>1, <2>2, <2>3, <3>1
    <2> QED
      BY <2>4, <2>5, <2>6
  <1> HIDE DEF v
  <1>9. PICK u : u = v
    OBVIOUS
  <1>10. Waits(u)'
    BY <1>2, <1>3, <1>4, <1>5, <1>6, <1>7, <1>9 DEF Waits
  <1>11. Due(u)'
    BY <1>2, <1>4, <1>8, <1>9 DEF Due
  <1> QED
    BY <1>10, <1>11

\* Every step keeps the places in the count.
LEMMA CadenceStep == TypeOK /\ ICadence /\ [Next]_vars => ICadence'
  <1> SUFFICES ASSUME TypeOK, ICadence, [Next]_vars, changes' = 0 PROVE ICadence'
    BY DEF ICadence
  <1>1. /\ exist \subseteq Cameras /\ changes \in Nat /\ timer.next \in Nat
        /\ timer.seen \in Nat /\ timer.pc \in {"idle", "scan", "copy", "clear"}
        /\ \A c \in exist : c \in Nat /\ c \in Cameras
        /\ timer \in [pc : {"idle", "scan", "copy", "clear"}, next : Nat, seen : Nat,
                      row : Flow]
        /\ status \in [Cameras -> 0..2]
    BY CamerasAssumption DEF TypeOK, FlowTypes, PollTypes
  <1>2. ~(\E c \in Cameras : Change(c)) /\ changes = 0 /\ UNCHANGED exist
    <2>1. ASSUME NEW c \in Cameras, Change(c) PROVE FALSE
      BY <1>1, <2>1 DEF Change
    <2> QED
      BY <2>1 DEF Next, EnterRead, EnterWrite, TimerStep, Poll, FirstSample, SecondSample,
         Copy, Clear, NothingSent, Link, vars, history
  <1>3. ScanOK /\ \E w : Waits(w) /\ Due(w)
    BY <1>2 DEF ICadence
  <1>4. CASE UNCHANGED <<status, timer, since>>
    <2>1. ScanOK'
      BY <1>2, <1>3, <1>4 DEF ScanOK
    <2>2. \A c \in exist : Before(c)' = Before(c)
      BY <1>4 DEF Before
    <2> QED
      BY <1>2, <1>3, <1>4, <2>1, <2>2, SamePoll DEF ICadence
  <1>5. CASE Poll
    <2>1. /\ timer.pc = "idle" /\ timer'.pc = "scan" /\ timer'.next = 0 /\ timer'.seen = 0
          /\ UNCHANGED <<status, since>>
      BY <1>1, <1>5 DEF Poll
    <2>2. \A c \in exist : ~(c < 0)
      BY <1>1
    <2>3. {d \in exist : d < 0} = {}
      BY <2>2
    <2>4. ScanOK'
      BY <1>2, <1>3, <2>1, <2>2, <2>3, FS_EmptySet DEF ScanOK
    <2>5. \A c \in exist : Before(c)' = Before(c)
      BY <2>1, <2>2 DEF Before
    <2> QED
      BY <1>2, <1>3, <2>1, <2>4, <2>5, SamePoll DEF ICadence
  <1>6. ASSUME NEW c \in Cameras, FirstSample(c) PROVE ICadence'
    <2>1. /\ timer.pc = "scan" /\ timer'.pc = "scan" /\ timer'.next = c + 1
          /\ timer'.seen = timer.seen + 1 /\ status[c] = 0
          /\ status' = [status EXCEPT ![c] = 1] /\ UNCHANGED since
          /\ c \in exist /\ c >= timer.next /\ \A d \in exist : d < c => d < timer.next
      BY <1>1, <1>6 DEF FirstSample, At, history
    <2>2. /\ \A d \in exist : d < c + 1 <=> d < timer.next \/ d = c
          /\ ~(c < timer.next)
      BY <1>1, <2>1
    <2>3. \A d \in exist : status'[d] = IF d = c THEN 1 ELSE status[d]
      BY <1>1, <2>1
    <2>4. timer'.seen = Cardinality({d \in exist : d < c + 1})
      <3>1. {d \in exist : d < c + 1} = {d \in exist : d < timer.next} \union {c}
        BY <2>1, <2>2
      <3>2. IsFiniteSet({d \in exist : d < timer.next})
        BY <1>1, CamerasAssumption, FS_Subset
      <3>3. c \notin {d \in exist : d < timer.next}
        BY <2>2
      <3> QED
        BY <1>3, <2>1, <3>1, <3>2, <3>3, FS_AddElement, SMTT(30) DEF ScanOK
    <2>5. ScanOK'
      BY <1>2, <1>3, <2>1, <2>2, <2>3, <2>4 DEF ScanOK
    <2>6. \A d \in exist : Before(d)' = Before(d)
      BY <2>1, <2>2, <2>3 DEF Before
    <2> QED
      BY <1>2, <1>3, <2>1, <2>5, <2>6, SamePoll DEF ICadence
  <1>7. ASSUME NEW c \in Cameras, SecondSample(c) PROVE ICadence'
    <2>1. /\ timer.pc = "scan" /\ timer'.pc = "copy" /\ timer'.next = c
          /\ status[c] = 1 /\ status' = [status EXCEPT ![c] = 2] /\ UNCHANGED since
          /\ c \in exist /\ c >= timer.next /\ \A d \in exist : d < c => d < timer.next
      BY <1>1, <1>7 DEF SecondSample, At, history
    <2>2. /\ \A d \in exist : d < c <=> d < timer.next
          /\ ~(c < timer.next) /\ ~(c < c)
      BY <1>1, <2>1
    <2>3. \A d \in exist : status'[d] = IF d = c THEN 2 ELSE status[d]
      BY <1>1, <2>1
    <2>4. ScanOK'
      BY <1>2, <1>3, <2>1, <2>2, <2>3 DEF ScanOK
    <2>5. \A d \in exist : Before(d)' = Before(d)
      BY <2>1, <2>2, <2>3 DEF Before
    <2> QED
      BY <1>2, <1>3, <2>1, <2>4, <2>5, SamePoll DEF ICadence
  <1>8. CASE Copy
    <2>1. /\ timer.pc = "copy" /\ timer'.pc = "clear" /\ timer'.next = timer.next
          /\ UNCHANGED <<status, since>>
      BY <1>1, <1>8 DEF Copy, history
    <2>2. ScanOK'
      BY <1>2, <1>3, <2>1 DEF ScanOK
    <2>3. \A d \in exist : Before(d)' = Before(d)
      BY <2>1 DEF Before
    <2> QED
      BY <1>2, <1>3, <2>1, <2>2, <2>3, SamePoll DEF ICadence
  <1>9. CASE Clear
    <2> DEFINE k == timer.next
               R == {c \in exist : c <= timer.next}
    <2>1. /\ timer.pc = "clear" /\ timer'.pc = "idle" /\ k \in exist
          /\ status' = [status EXCEPT ![k] = 0] /\ Polled(k)
      BY <1>1, <1>3, <1>9 DEF Clear, Restart, ScanOK
    <2>2. \A c \in exist : status'[c] = IF c = k THEN 0 ELSE status[c]
      BY <1>1, <2>1
    <2>3. \A c \in exist : /\ c < k => Before(c) = 0 /\ status[c] = 1
                           /\ c = k => Before(c) = 1
                           /\ k < c => Before(c) = status[c] /\ status[c] \in 0..1
      BY <1>1, <1>3, <2>1 DEF Before, ScanOK
    <2>4. PICK w : Waits(w) /\ Due(w)
      BY <1>3
    <2>5. \A c \in exist : (c <= k => w[c] = 1) /\ (k < c => w[c] > 1)
      BY <1>1, <2>1, <2>3, <2>4, Reached, Delayed
    <2>6. \A c \in exist : (c <= k <=> c < k \/ c = k) /\ (c <= k \/ k < c)
      BY <1>1
    <2>7. /\ \A c \in R : \A d \in exist : d <= c => d \in R
          /\ \A c \in R : w[c] = 1 /\ (IF c = k THEN Before(c) = 1 /\ status'[c] = 0
                                                ELSE Before(c) = 0 /\ status'[c] = 1)
          /\ \A c \in exist \ R : k \in R /\ w[c] > 1 /\ status'[c] = Before(c)
          /\ \A c \in R : c <= k \/ exist = R
          /\ R \subseteq exist
      <3>1. \A c \in R : \A d \in exist : d <= c => d \in R
        BY <1>1, <2>1
      <3>2. \A c \in R : w[c] = 1 /\ (IF c = k THEN Before(c) = 1 /\ status'[c] = 0
                                                ELSE Before(c) = 0 /\ status'[c] = 1)
        BY <2>2, <2>3, <2>5, <2>6
      <3>3. k \in R
        BY <1>1, <2>1
      <3>4. \A c \in exist \ R : w[c] > 1 /\ status'[c] = Before(c) /\ c # k
        BY <2>2, <2>3, <2>5, <2>6, <3>3
      <3> QED
        BY <3>1, <3>2, <3>3, <3>4
    <2>8. (\E u : Waits(u) /\ Due(u))'
      <3> HIDE DEF R, k
      <3> QED
        BY <1>2, <2>1, <2>4, <2>7, PollEnds
    <2>9. ScanOK'
      BY <1>2, <2>1, <2>2, <2>3, <2>6 DEF ScanOK
    <2> QED
      BY <2>8, <2>9 DEF ICadence
  <1>10. CASE NothingSent
    <2>1. /\ timer.pc = "scan" /\ timer'.pc = "idle" /\ Polled(None) /\ UNCHANGED status
          /\ ~ \E c \in exist : At(c)
      BY <1>1, <1>10 DEF NothingSent
    <2>2. \A c \in exist : c < timer.next
      <3> DEFINE T == {c \in exist : c >= timer.next}
                 S == {c \in exist : c < timer.next}
      <3> SUFFICES ASSUME NEW e \in exist, ~(e < timer.next) PROVE FALSE
        OBVIOUS
      <3>1. T \subseteq Nat /\ e \in T
        BY <1>1
      <3>2. PICK c \in T : \A d \in T : c <= d
        <4> HIDE DEF T
        <4> QED
          BY <3>1, LeastOf
      <3>3. \A d \in exist : d < c => d < timer.next
        BY <1>1, <3>2
      <3>4. IsFiniteSet(exist) /\ S \subseteq exist /\ e \notin S
        BY <1>1, CamerasAssumption, FS_Subset
      <3>5. Cardinality(S) < Cardinality(exist)
        <4>1. /\ Cardinality(S) <= Cardinality(exist) /\ IsFiniteSet(S)
              /\ Cardinality(exist) = Cardinality(S) => exist = S
          BY <3>4, FS_Subset
        <4>2. Cardinality(S) \in Nat /\ Cardinality(exist) \in Nat
          BY <3>4, <4>1, FS_CardinalityType
        <4> QED
          BY <3>4, <4>1, <4>2
      <3>6. timer.seen < Cardinality(exist)
        BY <1>3, <2>1, <3>5 DEF ScanOK
      <3>7. At(c)
        BY <2>1, <3>2, <3>3, <3>6 DEF At
      <3> QED
        BY <2>1, <3>2, <3>7
    <2>3. \A c \in exist : Before(c) = 0 /\ status[c] = 1
      BY <1>3, <2>1, <2>2 DEF Before, ScanOK
    <2>4. PICK w : Waits(w) /\ Due(w)
      BY <1>3
    <2>5. \A c \in exist : w[c] = 1
      <3> SUFFICES ASSUME NEW c \in exist PROVE w[c] = 1
        OBVIOUS
      <3>1. c <= c
        BY <1>1
      <3> QED
        BY <1>1, <2>3, <2>4, <3>1, Reached
    <2>6. \A c \in exist : c # None
      BY <1>1 DEF None
    <2>7. (\E u : Waits(u) /\ Due(u))'
      <3> DEFINE R == exist
      <3>1. /\ \A c \in R : \A d \in exist : d <= c => d \in R
            /\ \A c \in R : w[c] = 1 /\ (IF c = None THEN Before(c) = 1 /\ status'[c] = 0
                                                     ELSE Before(c) = 0 /\ status'[c] = 1)
            /\ \A c \in exist \ R : None \in R /\ w[c] > 1 /\ status'[c] = Before(c)
            /\ \A c \in R : c <= None \/ exist = R
            /\ R \subseteq exist
        BY <2>1, <2>3, <2>5, <2>6
      <3> HIDE DEF R
      <3> QED
        BY <1>2, <2>1, <2>4, <3>1, PollEnds
    <2>8. ScanOK'
      BY <1>2, <2>1, <2>3 DEF ScanOK
    <2> QED
      BY <2>7, <2>8 DEF ICadence
  <1>11. ASSUME NEW c \in Entering, EnterRead(c) \/ EnterWrite(c)
         PROVE  UNCHANGED <<status, timer, since>>
    BY <1>11 DEF EnterRead, EnterWrite, history
  <1>12. Link \/ UNCHANGED vars => UNCHANGED <<status, timer, since>>
    BY DEF Link, vars, history
  <1> QED
    BY <1>2, <1>4, <1>5, <1>6, <1>7, <1>8, <1>9, <1>10, <1>11, <1>12 DEF Next, TimerStep

\* For any cameras, as long as none is added or deleted: the camera of rank r is sent at
\* least every 2^r polls.
THEOREM CadenceKept == Spec => []Cadence
  <1>1. TypeOK /\ ICadence => Cadence
    <2> SUFFICES ASSUME TypeOK, ICadence, changes = 0, NEW c \in exist
                 PROVE  since[c] <= 2^Rank(c)
      BY DEF Cadence
    <2>1. PICK w : Waits(w) /\ Due(w)
      BY DEF ICadence
    <2>2. /\ exist \subseteq Cameras /\ since[c] \in Nat /\ w[c] \in Nat
          /\ Turn(c) \in Nat /\ 2^Rank(c) = 2 * Turn(c)
      BY <2>1, Turns DEF TypeOK, PollTypes, Waits
    <2>3. since[c] + w[c] + (IF Before(c) = 0 THEN Turn(c) ELSE 0) <= 2 * Turn(c)
      BY <2>1 DEF Due
    <2>4. since[c] <= 2 * Turn(c)
      BY <2>2, <2>3
    <2> QED
      BY <2>2, <2>4
  <1>2. Init => ICadence
    <2> SUFFICES ASSUME Init PROVE ICadence
      OBVIOUS
    <2>1. /\ exist \subseteq Cameras /\ timer.pc = "idle"
          /\ \A c \in exist : status[c] = 0 /\ since[c] = 0 /\ Before(c) = 0
      BY DEF Init, Before
    <2>2. ScanOK
      BY <2>1 DEF ScanOK
    <2>3. PICK w : w = [c \in exist |-> 1]
      OBVIOUS
    <2>4. Waits(w)
      BY <2>1, <2>3 DEF Waits
    <2>5. Due(w)
      <3> SUFFICES ASSUME NEW c \in exist
                   PROVE  since[c] + w[c] + (IF Before(c) = 0 THEN Turn(c) ELSE 0)
                            <= 2 * Turn(c)
        BY DEF Due
      <3>1. Turn(c) \in Nat \ {0}
        BY <2>1, Turns
      <3> QED
        BY <2>1, <2>3, <3>1
    <2> QED
      BY <2>2, <2>4, <2>5 DEF ICadence
  <1> QED
    BY <1>1, <1>2, CadenceStep, Types, PTL DEF Spec

=============================================================================
