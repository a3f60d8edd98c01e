--------------------------- MODULE DetectorReport ---------------------------
(***************************************************************************)
(* Protocol HUAITONG: a timer of 250 ms reports one camera at a time to    *)
(* the signal machine (callback_cycle_500ms_detector, ReportedRealStatic,  *)
(* sig_service.c).  A camera is sampled at one poll and at another, and    *)
(* then sent; holder[].status says how many samples there are.  The        *)
(* algorithm thread of the camera counts cars in flow, which has two bits  *)
(* (process_nanjing, cam_alg.c).  It holds sig_data_lock for it; the timer *)
(* does while it samples, but not while it copies and clears.              *)
(***************************************************************************)
EXTENDS Integers, FiniteSets

CONSTANTS
    Cameras,    \* indices of cameras
    Entering,   \* bound: cameras where cars come
    MaxChanges  \* bound: additions and deletions of cameras

ASSUME CamerasAssumption == Cameras \subseteq Nat /\ IsFiniteSet(Cameras)
ASSUME EnteringAssumption == Entering \subseteq Cameras

FlowSize == 4       \* two bits
Flow == 0..(FlowSize - 1)
None == -1

VARIABLES
    exist,      \* g_cam_num.exist, the cameras there are
    up,         \* sig_fd > 0
    status,     \* holder[].status
    flow,       \* mDetectDataOfHeaderVirtualCoil.flow of a lane
    alg,        \* algorithm threads: whether in the middle of flow++, what was read
    timer,      \* the timer: where it is, next camera, cameras seen, row copied
    sent,       \* history: the camera sent in the last poll
    since,      \* history: polls since the camera was last sent, up to Longest
    owed,       \* history: cars that came less those reported, modulo FlowSize
    overlap,    \* history: a car came while the camera's report was being cleared
    changes     \* history: additions and deletions of cameras

history == <<sent, since, owed, overlap, changes>>
vars == <<exist, up, status, flow, alg, timer, history>>

Rank(c) == Cardinality({d \in exist : d <= c})
Longest == 2^Cardinality(Cameras) + 1

Init ==
    /\ exist \in SUBSET Cameras
    /\ up = FALSE
    /\ status = [c \in Cameras |-> 0]
    /\ flow = [c \in Cameras |-> 0]
    /\ alg = [c \in Cameras |-> [pc |-> "idle", read |-> 0]]
    /\ timer = [pc |-> "idle", next |-> 0, seen |-> 0, row |-> 0]
    /\ sent = None
    /\ since = [c \in Cameras |-> 0]
    /\ owed = [c \in Cameras |-> 0]
    /\ overlap = [c \in Cameras |-> FALSE]
    /\ changes = 0

----------------------------------------------------------------------------
(* The algorithm thread of camera c: a car has come.                       *)

\* sig_data_lock is held from here to the next step.
EnterRead(c) ==
    /\ alg[c].pc = "idle"
    /\ alg' = [alg EXCEPT ![c] = [pc |-> "write", read |-> flow[c]]]
    /\ UNCHANGED <<exist, up, status, flow, timer, history>>

More(read) == (read + 1) % FlowSize

EnterWrite(c) ==
    /\ alg[c].pc = "write"
    /\ flow' = [flow EXCEPT ![c] = More(alg[c].read)]
    /\ alg' = [alg EXCEPT ![c] = [pc |-> "idle", read |-> 0]]
    /\ owed' = [owed EXCEPT ![c] = (@ + 1) % FlowSize]
    /\ overlap' = [overlap EXCEPT
                       ![c] = @ \/ (timer.pc = "clear" /\ timer.next = c)]
    /\ UNCHANGED <<exist, up, status, timer, sent, since, changes>>

----------------------------------------------------------------------------
(* The timer.                                                              *)

Poll ==
    /\ timer.pc = "idle"
    /\ up
    /\ timer' = [timer EXCEPT !.pc = "scan", !.next = 0, !.seen = 0]
    /\ sent' = None
    /\ UNCHANGED <<exist, up, status, flow, alg, since, owed, overlap, changes>>

\* The scan has come to camera c.
At(c) ==
    /\ timer.pc = "scan"
    /\ c \in exist /\ c >= timer.next
    /\ timer.seen < Cardinality(exist)
    /\ \A d \in exist : d < c => d < timer.next

\* detector_static_data takes a sample of the camera under its lock.  What the
\* sample says of the coils is left out.
Sampled(c) == alg[c].pc = "idle"

\* The first sample; the scan goes on.
FirstSample(c) ==
    /\ At(c)
    /\ status[c] = 0
    /\ Sampled(c)
    /\ status' = [status EXCEPT ![c] = 1]
    /\ timer' = [timer EXCEPT !.next = c + 1, !.seen = @ + 1]
    /\ UNCHANGED <<exist, up, flow, alg, history>>

\* The second sample; the camera is going to be sent.
SecondSample(c) ==
    /\ At(c)
    /\ status[c] = 1
    /\ Sampled(c)
    /\ status' = [status EXCEPT ![c] = 2]
    /\ timer' = [timer EXCEPT !.pc = "copy", !.next = c]
    /\ UNCHANGED <<exist, up, flow, alg, history>>

Copy ==
    /\ timer.pc = "copy"
    /\ timer' = [timer EXCEPT !.pc = "clear", !.row = flow[timer.next]]
    /\ UNCHANGED <<exist, up, status, flow, alg, history>>

\* The end of a poll for the history.
Polled(camera) ==
    /\ sent' = camera
    /\ since' = [c \in Cameras |->
                    IF c = camera \/ c \notin exist THEN 0
                    ELSE IF since[c] < Longest THEN since[c] + 1 ELSE since[c]]

\* The counters stay as they are.
Cleared_Bug(c) == flow
Cleared(c) == [flow EXCEPT ![c] = 0]

\* The first sample is taken to be there for the next report.
Restart_Bug == 1
Restart == 0

\* Counters and status are cleared before the report is sent; on an error the report
\* is lost, and the socket is closed if the link was announced.
Clear ==
    LET c == timer.next IN
    /\ timer.pc = "clear"
    /\ flow' = Cleared(c)
    /\ status' = [status EXCEPT ![c] = Restart]
    /\ owed' = [owed EXCEPT ![c] = (@ - timer.row) % FlowSize]
    /\ overlap' = [overlap EXCEPT ![c] = @ \/ alg[c].pc = "write"]
    /\ Polled(c)
    /\ up' \in {up, FALSE}
    /\ timer' = [timer EXCEPT !.pc = "idle", !.next = 0, !.seen = 0, !.row = 0]
    /\ UNCHANGED <<exist, alg, changes>>

\* No camera had its second sample.
NothingSent ==
    /\ timer.pc = "scan"
    /\ ~ \E c \in exist : At(c)
    /\ Polled(None)
    /\ timer' = [timer EXCEPT !.pc = "idle", !.next = 0, !.seen = 0]
    /\ UNCHANGED <<exist, up, status, flow, alg, owed, overlap, changes>>

TimerStep ==
    \/ Poll
    \/ \E c \in Cameras : FirstSample(c) \/ SecondSample(c)
    \/ Copy \/ Clear \/ NothingSent

----------------------------------------------------------------------------
(* The rest of the program.                                                *)

\* The socket is opened, or closed by another thread (SignalLink).
Link ==
    /\ up' = ~up
    /\ UNCHANGED <<exist, status, flow, alg, timer, history>>

\* The operator adds or deletes a camera; its status and counters stay.
Change(c) ==
    /\ changes < MaxChanges
    /\ changes' = changes + 1
    /\ exist' = IF c \in exist THEN exist \ {c} ELSE exist \union {c}
    /\ UNCHANGED <<up, status, flow, alg, timer, sent, since, owed, overlap>>

Next ==
    \/ \E c \in Entering : EnterRead(c) \/ EnterWrite(c)
    \/ TimerStep
    \/ Link
    \/ \E c \in Cameras : Change(c)

Spec == Init /\ [][Next]_vars

\* The threads are scheduled, and a mutex that is free again and again is got in
\* the end.
FairSpec ==
    /\ Spec
    /\ SF_vars(TimerStep)
    /\ \A c \in Entering : WF_vars(EnterWrite(c))

----------------------------------------------------------------------------
(* Properties.                                                             *)

FlowTypes ==
    /\ flow \in [Cameras -> Flow] /\ owed \in [Cameras -> Flow]
    /\ overlap \in [Cameras -> BOOLEAN]
    /\ alg \in [Cameras -> [pc : {"idle", "write"}, read : Flow]]
    /\ timer \in [pc : {"idle", "scan", "copy", "clear"}, next : Nat, seen : Nat,
                  row : Flow]
    /\ timer.pc \in {"copy", "clear"} => timer.next \in Cameras

PollTypes ==
    /\ exist \subseteq Cameras /\ up \in BOOLEAN
    /\ status \in [Cameras -> 0..2]
    /\ sent \in Cameras \union {None}
    /\ since \in [Cameras -> Nat]
    /\ changes \in Nat

TypeOK == FlowTypes /\ PollTypes

\* Reports and counter together have every car that came, as far as two bits can
\* tell, unless one came between the copy and the clearing, which hold no lock.
FlowExact == \A c \in Cameras : ~overlap[c] => flow[c] = owed[c]

\* The statuses of the cameras are the digits of a counter: the camera of rank r is
\* sent every 2^r polls, not less often, as long as no camera is added or deleted.
\* Every two polls, which is every 500 ms and what sig_service.c:1906 says, is true of
\* the first camera only.
Cadence == changes = 0 => \A c \in exist : since[c] <= 2^Rank(c)

\* A camera that stays is reported again and again as long as the link does, whatever
\* cameras are reported before it.
Reported == \A c \in Cameras : <>[](c \in exist /\ up) => []<>(sent = c)

=============================================================================
