------------------------------- MODULE YuvRing ------------------------------
(* The ring of decoded frames of one camera (cam_yuv_list[index] in          *)
(* zen_rtsp/camera_service.c).  The decode thread writes, the algorithm      *)
(* thread reads, both under data_lock; the TCP thread clears it when a file  *)
(* is played again, camera_close resets it once both threads are joined.     *)
(*                                                                           *)
(* The pixels of a frame are abstracted to its age: how many frames were     *)
(* written after it, counted up to DataSize.                                 *)
EXTENDS Naturals

CONSTANTS DataSize,      \* DATA_SIZE: 3
          MaxRequests    \* bound: how often the operator closes the camera or
                         \* plays its file again

Rounds == 100            \* the modulus of i_wloop in set_yuv_item

ASSUME SizeAssumption == DataSize \in Nat /\ DataSize > 0 /\ DataSize + 2 < Rounds
ASSUME RequestsAssumption == MaxRequests \in Nat

Slots == 0..(DataSize - 1)
Ages == 0..DataSize                \* DataSize: that old, or older

VARIABLES alloc,         \* the buffers of the slots are allocated
          valid, item_wloop, i_read, i_write, i_wloop,
          age,           \* history: of the frame in each slot
          newest,        \* history: age of the newest frame read so far
          overrun,       \* history: reader and writer have lost alignment
          requests       \* history: number of those requests so far

ring == <<valid, item_wloop, i_read, i_write, i_wloop>>
vars == <<alloc, valid, item_wloop, i_read, i_write, i_wloop, age, newest,
          overrun, requests>>

\* init_yuv_list: everything is zero
Init == /\ alloc = FALSE
        /\ valid = [i \in Slots |-> FALSE]
        /\ item_wloop = [i \in Slots |-> 0]
        /\ i_read = 0 /\ i_write = 0 /\ i_wloop = 0
        /\ age = [i \in Slots |-> DataSize]
        /\ newest = DataSize
        /\ overrun = FALSE
        /\ requests = 0

(* Operators whose name ends in _Bug are seeded faults: each is a plausible   *)
(* slip in the definition that follows it, and makes a property fail.         *)

Older(a) == IF a < DataSize THEN a + 1 ELSE DataSize
Advance(i) == IF i + 1 < DataSize THEN i + 1 ELSE 0      \* (i + 1) % DATA_SIZE

\* i_wloop advances once per frame and once more when the writer wraps around
LoopStep == IF Advance(i_write) = 0 THEN 2 ELSE 1
NextLoop == (i_wloop + LoopStep) % Rounds

\* init_yuv_list_arrary: the decode thread, at the first frame of a camera
InitList == /\ ~alloc
            /\ alloc' = TRUE
            /\ UNCHANGED <<ring, age, newest, overrun, requests>>

\* a frame that finds the ring full is dropped (the test on total_num that is
\* commented out in the code)
SetItem_Bug == /\ alloc
               /\ IF valid[i_write]
                     THEN UNCHANGED ring /\ age' = [i \in Slots |-> Older(age[i])]
                     ELSE /\ valid' = [valid EXCEPT ![i_write] = TRUE]
                          /\ item_wloop' = [item_wloop EXCEPT ![i_write] = i_wloop]
                          /\ i_write' = Advance(i_write)
                          /\ i_wloop' = NextLoop
                          /\ age' = [i \in Slots |-> IF i = i_write THEN 0
                                                    ELSE Older(age[i])]
                          /\ UNCHANGED i_read
               /\ newest' = Older(newest)
               /\ UNCHANGED <<alloc, overrun, requests>>

\* set_yuv_item: it overwrites whatever is in the slot, read or not
SetItem == /\ alloc
           /\ valid' = [valid EXCEPT ![i_write] = TRUE]
           /\ item_wloop' = [item_wloop EXCEPT ![i_write] = i_wloop]
           /\ i_write' = Advance(i_write)
           /\ i_wloop' = NextLoop
           /\ age' = [i \in Slots |-> IF i = i_write THEN 0 ELSE Older(age[i])]
           /\ newest' = Older(newest)
           /\ overrun' = (overrun \/ valid[i_write])
           /\ UNCHANGED <<alloc, i_read, requests>>

\* the test of get_yuv_item meant to refuse a frame of the previous round
LoopGuard_Bug(i) == item_wloop[i] = i_wloop
LoopGuard(i) == item_wloop[i] # i_wloop + 1

Readable == valid[i_read] /\ LoopGuard(i_read)

GetItem_Bug == /\ alloc /\ Readable
               /\ i_read' = Advance(i_read)
               /\ newest' = IF age[i_read] < newest THEN age[i_read] ELSE newest
               /\ UNCHANGED <<alloc, valid, item_wloop, i_write, i_wloop, age,
                              overrun, requests>>

\* get_yuv_item, when it returns true
GetItem == /\ alloc /\ Readable
           /\ valid' = [valid EXCEPT ![i_read] = FALSE]
           /\ i_read' = Advance(i_read)
           /\ newest' = IF age[i_read] < newest THEN age[i_read] ELSE newest
           /\ UNCHANGED <<alloc, item_wloop, i_write, i_wloop, age, overrun, requests>>

\* clear_yuv_item, called for SETFLAG_FILE_PLAY_START: the cursors stay
ClearItem == /\ requests < MaxRequests
             /\ requests' = requests + 1
             /\ valid' = [i \in Slots |-> FALSE]
             /\ overrun' = (overrun \/ i_read # i_write)
             /\ UNCHANGED <<alloc, item_wloop, i_read, i_write, i_wloop, age,
                            newest>>

\* camera_close: clear_yuv_item, then deinit_yuv_list; i_wloop keeps its value.
\* What is read after it is another session: order is compared afresh.
Close == /\ requests < MaxRequests
         /\ requests' = requests + 1
         /\ alloc' = FALSE
         /\ valid' = [i \in Slots |-> FALSE]
         /\ i_read' = 0 /\ i_write' = 0
         /\ newest' = DataSize
         /\ overrun' = FALSE
         /\ UNCHANGED <<item_wloop, i_wloop, age>>

Next == InitList \/ SetItem \/ GetItem \/ ClearItem \/ Close

Spec == Init /\ [][Next]_vars

\* A camera that is open keeps delivering frames, and the algorithm thread polls.
Fairness == WF_vars(InitList) /\ WF_vars(SetItem) /\ WF_vars(GetItem)
FairSpec == Spec /\ Fairness

-----------------------------------------------------------------------------
(* Properties *)

\* Every field has its type; no cursor leaves the ring.
TypeOK == /\ alloc \in BOOLEAN
          /\ valid \in [Slots -> BOOLEAN]
          /\ item_wloop \in [Slots -> 0..(Rounds - 1)]
          /\ i_read \in Slots /\ i_write \in Slots /\ i_wloop \in 0..(Rounds - 1)
          /\ age \in [Slots -> Ages] /\ newest \in Ages
          /\ overrun \in BOOLEAN /\ requests \in 0..MaxRequests

\* Whatever the reader finds is one of the last DATA_SIZE frames written: a
\* frame that waited longer, through a clear, an overrun or a reopen that moves
\* only one of the cursors, is never delivered.
Fresh == \A i \in Slots : valid[i] => age[i] < DataSize

\* The test on item_wloop refuses nothing at all: the counter is compared within
\* DATA_SIZE writes of the value stored, and is then equal to it or ahead.  So it does
\* not do what camera_service.c:161 has it for, to keep an old frame from being read
\* after a newer one: when the writer laps the reader, the slot it overwrote is read
\* before the older one after it.
LoopGuardIdle == \A i \in Slots : valid[i] => LoopGuard(i)

\* Until a frame is overwritten unread or the ring is cleared while the cursors
\* differ, the unread frames are exactly those from i_read up to i_write: the
\* reader misses nothing and reads nothing twice.
Aligned == ~overrun =>
    \E n \in 0..DataSize :
        /\ i_write = IF i_read + n < DataSize THEN i_read + n
                                              ELSE i_read + n - DataSize
        /\ \A i \in Slots : valid[i] <=>
             \/ i_read <= i /\ i < i_read + n
             \/ i_read <= i + DataSize /\ i + DataSize < i_read + n

\* As long as reader and writer are aligned, frames are read in the order they
\* were written, across any pace of the two threads.  After an overrun they are not.
InOrderWhileAligned == [][GetItem /\ ~overrun => age[i_read] < newest]_vars

\* The reader is never left waiting for good at a slot nobody fills, even when
\* reader and writer have lost alignment: once the operator's requests stop, the
\* cursor of the reader moves on from every slot again and again.
ReaderServed == \A i \in Slots : []<>(i_read # i)
=============================================================================
