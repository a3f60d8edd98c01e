------------------------------ MODULE CarCounts ------------------------------
(***************************************************************************)
(* How the cars that pass one coil of one lane are counted.  The algorithm *)
(* thread evaluates the coil once per frame (process_nanjing, cam_alg.c)   *)
(* and adds to several counters; the timers of sig_service.c take them:    *)
(*   - the lane's statistics, under radar_cam_realtime_data[].mutex_lock,  *)
(*     go to the database (statis_data_insert_mysql), in every protocol;   *)
(*   - the flow of the period, d60, goes to the signal machine in          *)
(*     protocols NANJING and HAIXIN (calculate_60s, calculate_60s_radar);  *)
(*   - in NANJING each car going out is uploaded (callback_outcar_...);    *)
(*   - in JIERUI the period's sums pass through a buffer with a lock;      *)
(*   - in HAIXIN entries and exits pass through a ring, list_in_out, which *)
(*     every protocol fills.                                               *)
(* Speeds, lengths and times of the cars are left out.                     *)
(***************************************************************************)
EXTENDS Integers, Sequences

CONSTANTS
    LIST_IN_OUT_MAX,    \* slots of the ring, 50 in the code
    MaxCars             \* bound: cars that come, cars that go

ASSUME RingAssumption == LIST_IN_OUT_MAX \in Nat \ {0}
ASSUME CarsAssumption == MaxCars \in Nat

Protocols == {"NANJING", "HAIXIN", "JIERUI"}
Flags == 0..2       \* calarflag: no car, a car, a car has just left

VARIABLES
    pro_type,
    coil,       \* info.cams[].lanes[].coils[0]: last_exist_flag, in_car, out_car
    alg,        \* the algorithm thread: where it is in process_nanjing, the
                \* copy it made of in_car and out_car, the number it has read
    rt_lane,    \* out_car_num of the lane's statistics
    rt_lock,    \* who holds radar_cam_realtime_data[].mutex_lock
    statis,     \* callback_statis_result: where it is, the row it copied
    d60,        \* pass_number of the period
    flow,       \* the timer of the period: where it is, flow_data[].flow
    outcar,     \* where callback_outcar_check_info is
    jierui,     \* jierui_d60 and gat920_jierui_60s_data_buf: pass_number
    ring,       \* list_in_out: slots, list_count, s_next_index, g_next_index
    in_out,     \* radar_in_out_status_920[].flag
    hist        \* history, see Hist

timers == <<statis, flow, outcar>>
vars == <<pro_type, coil, alg, rt_lane, rt_lock, timers, d60, jierui, ring,
          in_out, hist>>

Slots == 0..(LIST_IN_OUT_MAX - 1)
Item == [in : BOOLEAN, out : BOOLEAN]
NoCar == [in |-> FALSE, out |-> FALSE]

(* History: cars that came and went, rows written, flow reported, flags the *)
(* upload cleared, cars uploaded, sums taken by JIERUI's timer, what the    *)
(* ring should hold, the last event sent, whether an event was lost.        *)
Hist == [entered : 0..MaxCars, passed : 0..MaxCars, written : Nat,
         reported : Nat, cleared : Nat, uploads : Nat, taken : Nat,
         pending : Seq(Item), last : {"none", "in", "out"},
         twice : BOOLEAN, lost : BOOLEAN]

Init ==
    /\ pro_type \in Protocols
    /\ coil = [exist |-> 0, in |-> FALSE, out |-> FALSE]
    /\ alg = [pc |-> "frame", item |-> NoCar, read |-> 0]
    /\ rt_lane = 0 /\ rt_lock = "free"
    /\ statis = [pc |-> "idle", row |-> 0]
    /\ d60 = 0
    /\ flow = [pc |-> "idle", sum |-> 0]
    /\ outcar = "idle"
    /\ jierui = [d60 |-> 0, buf |-> 0, new |-> FALSE]
    /\ ring = [slots |-> [s \in Slots |-> NoCar], count |-> 0, s |-> 0, g |-> 0]
    /\ in_out = 0
    /\ hist = [entered |-> 0, passed |-> 0, written |-> 0, reported |-> 0,
               cleared |-> 0, uploads |-> 0, taken |-> 0, pending |-> << >>,
               last |-> "none", twice |-> FALSE, lost |-> FALSE]

----------------------------------------------------------------------------
(* The algorithm thread: one frame.                                        *)

AlgAt(pc) == alg' = [alg EXCEPT !.pc = pc]

\* A car that leaves just before the next one is overlooked.
Out_Bug(flag) == flag = 0 /\ coil.exist = 1

\* A car has gone out when the coil says so, or is empty after a car.
Out(flag) == flag = 2 \/ (flag = 0 /\ coil.exist = 1)
In(flag) == flag = 1 /\ coil.exist \in {0, 2}

Detect(flag) ==
    /\ alg.pc = "frame"
    /\ Out(flag) => hist.passed < MaxCars
    /\ In(flag) => hist.entered < MaxCars
    /\ coil' = [exist |-> flag, in |-> In(flag), out |-> Out(flag)]
    /\ hist' = [hist EXCEPT !.passed = @ + (IF Out(flag) THEN 1 ELSE 0),
                            !.entered = @ + (IF In(flag) THEN 1 ELSE 0)]
    /\ AlgAt("copy")
    /\ UNCHANGED <<pro_type, rt_lane, rt_lock, timers, d60, jierui, ring, in_out>>

\* The frame's entry and exit are copied for the ring.
Copy ==
    /\ alg.pc = "copy"
    /\ alg' = [alg EXCEPT !.pc = "statis",
                          !.item = [in |-> coil.in, out |-> coil.out]]
    /\ UNCHANGED <<pro_type, coil, rt_lane, rt_lock, timers, d60, jierui, ring,
                   in_out, hist>>

\* The count goes on although the timer holds the lock of the statistics.
CountStatis_Bug ==
    /\ alg.pc = "statis"
    /\ rt_lane' = rt_lane + (IF coil.out THEN 1 ELSE 0)
    /\ AlgAt("d60")
    /\ UNCHANGED <<pro_type, coil, rt_lock, timers, d60, jierui, ring, in_out, hist>>

\* The statistics of the lane, counted under their lock.
CountStatis ==
    /\ alg.pc = "statis"
    /\ rt_lock = "free"
    /\ rt_lane' = rt_lane + (IF coil.out THEN 1 ELSE 0)
    /\ AlgAt("d60")
    /\ UNCHANGED <<pro_type, coil, rt_lock, timers, d60, jierui, ring, in_out, hist>>

\* pass_number++ of d60 reads here and writes in the next step, with no lock;
\* the one of jierui_d60 is the thread's own.
Count60s ==
    /\ alg.pc = "d60"
    /\ CASE ~coil.out -> AlgAt("jierui") /\ UNCHANGED jierui
         [] coil.out /\ pro_type = "JIERUI" ->
                AlgAt("jierui") /\ jierui' = [jierui EXCEPT !.d60 = @ + 1]
         [] OTHER -> /\ alg' = [alg EXCEPT !.pc = "write", !.read = d60]
                     /\ UNCHANGED jierui
    /\ UNCHANGED <<pro_type, coil, rt_lane, rt_lock, timers, d60, ring, in_out, hist>>

Write60s ==
    /\ alg.pc = "write"
    /\ d60' = alg.read + 1
    /\ alg' = [alg EXCEPT !.pc = "jierui", !.read = 0]
    /\ UNCHANGED <<pro_type, coil, rt_lane, rt_lock, timers, jierui, ring, in_out, hist>>

\* The frame's sums are copied over those of the frames before.
AddJierui_Bug ==
    /\ alg.pc = "jierui"
    /\ jierui' = [d60 |-> 0, buf |-> jierui.d60, new |-> TRUE]
    /\ AlgAt("ring")
    /\ UNCHANGED <<pro_type, coil, rt_lane, rt_lock, timers, d60, ring, in_out, hist>>

\* add_jierui_60s_item adds the frame's sums to the buffer and clears them.
AddJierui ==
    /\ alg.pc = "jierui"
    /\ jierui' = [d60 |-> 0, buf |-> jierui.buf + jierui.d60, new |-> TRUE]
    /\ AlgAt("ring")
    /\ UNCHANGED <<pro_type, coil, rt_lane, rt_lock, timers, d60, ring, in_out, hist>>

After(index) == (index + 1) % LIST_IN_OUT_MAX

\* The ring is taken to be full one item too late.
Full_Bug == ring.count > LIST_IN_OUT_MAX
\* The ring is full when the indices meet and it is not empty.
Full == ring.s = ring.g /\ ring.count > 0

\* add_car_in_out_item: an item that finds the ring full is dropped.
AddInOut ==
    /\ alg.pc = "ring"
    /\ IF Full
       THEN /\ hist' = [hist EXCEPT !.lost = TRUE]
            /\ UNCHANGED ring
       ELSE /\ ring' = [slots |-> [ring.slots EXCEPT ![ring.s] = alg.item],
                        count |-> ring.count + 1, s |-> After(ring.s), g |-> ring.g]
            /\ hist' = [hist EXCEPT !.pending = Append(@, alg.item)]
    /\ alg' = [alg EXCEPT !.pc = "frame", !.item = NoCar]
    /\ UNCHANGED <<pro_type, coil, rt_lane, rt_lock, timers, d60, jierui, in_out>>

Alg ==
    \/ \E flag \in Flags : Detect(flag)
    \/ Copy \/ CountStatis \/ Count60s \/ Write60s \/ AddJierui \/ AddInOut

----------------------------------------------------------------------------
(* The timer of the database: copies and clears under the lock.            *)

StatisCopy ==
    /\ statis.pc = "idle"
    /\ rt_lock = "free"
    /\ rt_lock' = "statis"
    /\ statis' = [pc |-> "clear", row |-> rt_lane]
    /\ UNCHANGED <<pro_type, coil, alg, rt_lane, flow, outcar, d60, jierui, ring,
                   in_out, hist>>

\* The rows are written from the copy, out of the lock.
StatisClear ==
    /\ statis.pc = "clear"
    /\ rt_lane' = 0
    /\ rt_lock' = "free"
    /\ statis' = [pc |-> "idle", row |-> 0]
    /\ hist' = [hist EXCEPT !.written = @ + statis.row]
    /\ UNCHANGED <<pro_type, coil, alg, flow, outcar, d60, jierui, ring, in_out>>

Statis == StatisCopy \/ StatisClear

----------------------------------------------------------------------------
(* The timers of the protocol.  Those of d60 and of the upload hold        *)
(* mutex_lock throughout; the algorithm thread never takes it.             *)

MutexFree == flow.pc = "idle" /\ outcar = "idle"

FlowRead ==
    /\ pro_type \in {"NANJING", "HAIXIN"}
    /\ MutexFree
    /\ flow' = [pc |-> "zero", sum |-> d60]
    /\ UNCHANGED <<pro_type, coil, alg, rt_lane, rt_lock, statis, outcar, d60, jierui,
                   ring, in_out, hist>>

FlowZero ==
    /\ flow.pc = "zero"
    /\ d60' = 0
    /\ flow' = [pc |-> "idle", sum |-> 0]
    /\ hist' = [hist EXCEPT !.reported = @ + flow.sum]
    /\ UNCHANGED <<pro_type, coil, alg, rt_lane, rt_lock, statis, outcar, jierui,
                   ring, in_out>>

OutcarTest ==
    /\ pro_type = "NANJING"
    /\ MutexFree
    /\ coil.out
    /\ outcar' = "send"
    /\ UNCHANGED <<pro_type, coil, alg, rt_lane, rt_lock, statis, flow, d60, jierui,
                   ring, in_out, hist>>

\* The car is uploaded if there is a connection, and forgotten otherwise.
OutcarSend ==
    /\ outcar = "send"
    /\ outcar' = "clear"
    /\ \E connected \in BOOLEAN :
           hist' = [hist EXCEPT !.uploads = @ + (IF connected THEN 1 ELSE 0)]
    /\ UNCHANGED <<pro_type, coil, alg, rt_lane, rt_lock, statis, flow, d60, jierui,
                   ring, in_out>>

\* The flag is left, for process_nanjing to clear at its next frame.
OutcarClear_Bug ==
    /\ outcar = "clear"
    /\ outcar' = "idle"
    /\ UNCHANGED <<pro_type, coil, alg, rt_lane, rt_lock, statis, flow, d60, jierui,
                   ring, in_out, hist>>

OutcarClear ==
    /\ outcar = "clear"
    /\ coil' = [coil EXCEPT !.out = FALSE]
    /\ hist' = [hist EXCEPT !.cleared = @ + (IF coil.out THEN 1 ELSE 0)]
    /\ outcar' = "idle"
    /\ UNCHANGED <<pro_type, alg, rt_lane, rt_lock, statis, flow, d60, jierui, ring,
                   in_out>>

\* get_jierui_60s_item, copies and clears under jierui_mutex.
TakeJierui ==
    /\ pro_type = "JIERUI"
    /\ jierui.new
    /\ jierui' = [jierui EXCEPT !.buf = 0, !.new = FALSE]
    /\ hist' = [hist EXCEPT !.taken = @ + jierui.buf]
    /\ UNCHANGED <<pro_type, coil, alg, rt_lane, rt_lock, timers, d60, ring, in_out>>

\* gat920_get_car_in_out_info: nothing to say of an item without an event, nor
\* of an entry that follows an entry.
Silent(item) == (~item.in /\ ~item.out) \/ (item.in /\ in_out = 1)
Affair(item) == IF item.in THEN "in" ELSE "out"

\* The events leave the ring whether or not there is a connection.
TakeInOut ==
    /\ pro_type = "HAIXIN"
    /\ ring.count > 0
    /\ LET item == ring.slots[ring.g] IN
       /\ in_out' = IF item.in THEN 1
                    ELSE IF item.out THEN 2 ELSE 0
       /\ \E connected \in BOOLEAN :
              hist' = [hist EXCEPT
                  !.pending = Tail(@),
                  !.lost = @ \/ (~Silent(item) /\ ~connected),
                  !.twice = @ \/ (~Silent(item) /\ connected
                                  /\ item.in /\ hist.last = "in"),
                  !.last = IF Silent(item) \/ ~connected THEN @ ELSE Affair(item)]
    /\ ring' = [ring EXCEPT !.count = @ - 1, !.g = After(@)]
    /\ UNCHANGED <<pro_type, coil, alg, rt_lane, rt_lock, timers, d60, jierui>>

Protocol ==
    \/ FlowRead \/ FlowZero
    \/ OutcarTest \/ OutcarSend \/ OutcarClear
    \/ TakeJierui \/ TakeInOut

Next == Alg \/ Statis \/ Protocol

Spec == Init /\ [][Next]_vars

----------------------------------------------------------------------------
(* Properties.                                                             *)

Coil == [exist : Flags, in : BOOLEAN, out : BOOLEAN]
AlgState == [pc : {"frame", "copy", "statis", "d60", "write", "jierui", "ring"},
             item : Item, read : Nat]
Sums == [d60 : Nat, buf : Nat, new : BOOLEAN]
Ring == [slots : [Slots -> Item], count : 0..LIST_IN_OUT_MAX, s : Slots, g : Slots]

TypeOK ==
    /\ pro_type \in Protocols
    /\ coil \in Coil /\ alg \in AlgState
    /\ rt_lane \in Nat /\ rt_lock \in {"free", "statis"}
    /\ statis \in [pc : {"idle", "clear"}, row : Nat]
    /\ d60 \in Nat
    /\ flow \in [pc : {"idle", "zero"}, sum : Nat]
    /\ outcar \in {"idle", "send", "clear"}
    /\ jierui \in Sums /\ ring \in Ring
    /\ in_out \in 0..2
    /\ hist \in Hist

\* A car that went out in this frame and that a counter has yet to see.
Pending(places) == IF coil.out /\ alg.pc \in places THEN 1 ELSE 0

\* What is missing from the rows is no more than the cars whose flag the upload of
\* NANJING cleared, and no car is in two rows.
MissingWereCleared ==
    LET counted == hist.written + rt_lane + Pending({"copy", "statis"}) IN
    /\ counted <= hist.passed
    /\ hist.passed <= counted + hist.cleared

\* No car that goes out is missing from the rows of the database, or in two of
\* them, whenever the timer takes them; in NANJING one is missing only if the upload
\* cleared its flag before process_nanjing came to count it.
StatisExact ==
    /\ MissingWereCleared
    /\ pro_type # "NANJING" =>
           hist.passed = hist.written + rt_lane + Pending({"copy", "statis"})

\* No car is uploaded twice, although the flag stays set until the send is over.
UploadedOnce == hist.uploads <= hist.passed

\* The sums of JIERUI pass from the algorithm thread through the buffer to the
\* timer with no car lost and none doubled.
JieruiExact ==
    pro_type = "JIERUI" =>
        hist.passed = hist.taken + jierui.buf + jierui.d60
                      + Pending({"copy", "statis", "d60"})

\* The ring holds what was put in and not taken out, in this order.
RingExact ==
    /\ ring.count = Len(hist.pending)
    /\ \A i \in 1..Len(hist.pending) :
           ring.slots[(ring.g + i - 1) % LIST_IN_OUT_MAX] = hist.pending[i]
    /\ ring.s = (ring.g + ring.count) % LIST_IN_OUT_MAX

\* The signal machine is told of no two entries without an exit between them, if
\* no event was dropped by the ring or for want of a connection.
EntriesAlternate == ~hist.lost => ~hist.twice

\* pass_number is the total of the cars that passed: what the periods report adds
\* up to the cars that went out.  A run shows that it does not, for want of a lock.
TotalExact ==
    pro_type = "HAIXIN" =>
        hist.passed = hist.reported + d60 + Pending({"copy", "statis", "d60", "write"})
=============================================================================
