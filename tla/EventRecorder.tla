---------------------------- MODULE EventRecorder ---------------------------
(* The recorder of events of one camera (zen_rtsp/cam_event.c).  The         *)
(* algorithm thread puts every frame with its events into p_f_e_queue; the   *)
(* recorder thread pic_video_handle moves the frame to the list of the last  *)
(* five seconds, writes it to every open video and opens a video for each    *)
(* event; camera_close (zen_rtsp/camera_service.c) empties all three queues. *)
(*                                                                           *)
(* The queues are those of module Fifo.  A frame is a number, in the order   *)
(* the algorithm thread delivers them; the clock counts seconds.             *)
EXTENDS Naturals, Sequences

CONSTANTS Window,        \* seconds before and after an event: 5
          QueueMax,      \* EVENT_QUEUE_MAX
          MaxFrames, MaxVideos, MaxTime, MaxBack, MaxCloses     \* bounds

ASSUME SizeAssumption == QueueMax \in Nat \ {0} /\ Window \in Nat
ASSUME BoundAssumption == MaxFrames \in Nat /\ MaxVideos \in Nat /\ MaxTime \in Nat \ {0}
                          /\ MaxBack \in Nat /\ MaxCloses \in Nat

Frames == 1..MaxFrames
Videos == 1..MaxVideos
Times == 1..MaxTime
Elems(s) == {s[i] : i \in 1..Len(s)}

VARIABLES
  clock, backs,     \* the time of day, and how often it was set back
  closes,           \* how often the camera was closed
  exist, close,     \* g_cam_num.exist[i]; where camera_close and camera_open are
  p_f_e_queue,      \* frames with the number of their events
  p_5s_frame_queue, \* frames with the time the recorder took them
  p_file_queue,     \* the open videos
  passed,           \* the recorder found the camera there and not being closed
  rec,              \* the recorder thread
  frames,           \* frames whose picture is allocated
  nodes, writers,   \* videos whose file_node_t, whose VideoWriter is allocated
  videos,           \* history: what was written to each video, and its event
  made, events,     \* history: frames and events so far
  taken,            \* history: when the recorder took each frame, 0 for never
  start,            \* history: first frame since the queues were emptied or the
                    \* clock was set
  cut,              \* history: videos ended by camera_close, or of an old clock
  late,             \* history: camera_close emptied a queue while the recorder was
                    \* on a frame of the camera, or it took one in the middle
  shifted           \* history: the clock was set back with a video open or begun

queues == <<p_f_e_queue, p_5s_frame_queue, p_file_queue>>
heap == <<frames, nodes, writers>>
history == <<videos, made, events, taken, start, cut>>
camera == <<exist, close>>
trouble == <<late, shifted>>
vars == <<clock, backs, closes, camera, queues, passed, rec, heap, history, trouble>>

FramesOf(queue) == {queue[i].frame : i \in 1..Len(queue)}

Idle == [pc |-> "idle", frame |-> 0, events |-> 0, ts |-> 0, cur |-> 0]

Init == /\ clock = 1 /\ backs = 0 /\ closes = 0
        /\ exist = TRUE /\ close = "on"
        /\ p_f_e_queue = <<>> /\ p_5s_frame_queue = <<>> /\ p_file_queue = <<>>
        /\ passed = FALSE /\ rec = Idle
        /\ frames = {} /\ nodes = {} /\ writers = {}
        /\ videos = <<>>
        /\ made = 0 /\ events = 0
        /\ taken = [f \in Frames |-> 0]
        /\ start = 1
        /\ cut = {}
        /\ late = FALSE /\ shifted = FALSE

(* Operators whose name ends in _Bug are seeded faults: each is a plausible   *)
(* slip in the definition that follows it, and makes a property fail.         *)

-----------------------------------------------------------------------------
(* The clock.  It only matters while frames can still come.                  *)

Tick == /\ clock < MaxTime
        /\ clock' = clock + 1
        /\ UNCHANGED <<backs, closes, camera, queues, passed, rec, heap, history,
                       trouble>>

\* SETDATEPARAM: settimeofday, at any time.  What the videos so far should hold is
\* not asked any more: their times are those of the old clock.
SetDate == /\ clock > 1 /\ backs < MaxBack
           /\ clock' = clock - 1 /\ backs' = backs + 1
           /\ start' = made + 1
           /\ cut' = 1..Len(videos)
           /\ shifted' = (shifted \/ p_file_queue # <<>> \/ rec.pc # "idle")
           /\ UNCHANGED <<closes, camera, queues, passed, rec, heap, videos, made,
                          events, taken, late>>

-----------------------------------------------------------------------------
(* The algorithm thread: add_event_list.  It runs until camera_close has     *)
(* joined it; a frame that finds the queue full is dropped.                  *)

Room == Len(p_f_e_queue) < QueueMax

AddFrame(n) ==
    LET f == made + 1 IN
    /\ close \in {"on", "closing"}
    /\ f \in Frames /\ events + n <= MaxVideos
    /\ Room
    /\ p_f_e_queue' = Append(p_f_e_queue, [frame |-> f, events |-> n])
    /\ frames' = frames \cup {f}
    /\ made' = f /\ events' = events + n
    /\ UNCHANGED <<clock, backs, closes, camera, p_5s_frame_queue, p_file_queue, passed,
                   rec, nodes, writers, videos, taken, start, cut, trouble>>

-----------------------------------------------------------------------------
(* The recorder: pic_video_handle                                            *)

Clearing == close \in {"clear_fe", "clear_5s", "clear_file"}

\* The recorder tests exist and close_flag once per frame, and goes to the queue.
Look == /\ rec.pc = "idle" /\ ~passed
        /\ exist /\ close \notin {"closing", "joined"}
        /\ passed' = TRUE
        /\ UNCHANGED <<clock, backs, closes, camera, queues, rec, heap, history,
                       trouble>>

\* DeQueue, and the time of the frame.  By now the camera may be closing.
Take == /\ rec.pc = "idle" /\ passed /\ p_f_e_queue # <<>>
        /\ passed' = FALSE
        /\ rec' = [pc |-> "keep", frame |-> Head(p_f_e_queue).frame,
                   events |-> Head(p_f_e_queue).events, ts |-> clock, cur |-> 0]
        /\ p_f_e_queue' = Tail(p_f_e_queue)
        /\ taken' = [taken EXCEPT ![Head(p_f_e_queue).frame] = clock]
        /\ late' = (late \/ Clearing)
        /\ UNCHANGED <<clock, backs, closes, camera, p_5s_frame_queue, p_file_queue,
                       heap, videos, made, events, start, cut, shifted>>

\* DeQueue returns NULL
Miss == /\ rec.pc = "idle" /\ passed /\ p_f_e_queue = <<>>
        /\ passed' = FALSE
        /\ UNCHANGED <<clock, backs, closes, camera, queues, rec, heap, history,
                       trouble>>

\* outside the window that ends at the present frame; later is possible only when
\* the clock was set back
Expired_Bug(t) == t + Window <= rec.ts \/ t > rec.ts
Expired(t) == t + Window < rec.ts \/ t > rec.ts

\* ConditionDeleteQueue frees the frames at the old end that are expired
Stale == LET n == CHOOSE n \in 0..Len(p_5s_frame_queue) :
                    /\ \A i \in 1..n : Expired(p_5s_frame_queue[i].ts)
                    /\ n < Len(p_5s_frame_queue) =>
                         ~Expired(p_5s_frame_queue[n + 1].ts)
         IN  SubSeq(p_5s_frame_queue, 1, n)

\* frame_in_5s_handle; then file_list_handle starts at the oldest open video
Keep == /\ rec.pc = "keep"
        /\ p_5s_frame_queue' =
             Append(SubSeq(p_5s_frame_queue, Len(Stale) + 1, Len(p_5s_frame_queue)),
                    [frame |-> rec.frame, ts |-> rec.ts])
        /\ frames' = frames \ FramesOf(Stale)
        /\ rec' = [rec EXCEPT !.pc = IF p_file_queue = <<>> THEN "event" ELSE "file",
                              !.cur = IF p_file_queue = <<>> THEN 0
                                                             ELSE Head(p_file_queue)]
        /\ UNCHANGED <<clock, backs, closes, camera, p_f_e_queue, p_file_queue, passed,
                       nodes, writers, history, trouble>>

\* front->next
NextFile(v) == LET later == {i \in 2..Len(p_file_queue) : p_file_queue[i - 1] = v}
               IN  IF later = {} THEN 0 ELSE p_file_queue[CHOOSE i \in later : TRUE]

\* the front node is dequeued and its writer released, but the value that is freed
\* is that of the node the loop stands at
CloseVideo_Bug == /\ p_file_queue' = Tail(p_file_queue)
                  /\ nodes' = nodes \ {rec.cur}
                  /\ UNCHANGED writers
CloseVideo == /\ p_file_queue' = Tail(p_file_queue)
              /\ writers' = writers \ {Head(p_file_queue)}
              /\ nodes' = nodes \ {rec.cur}

\* The recorder, or camera_close, has used memory that was freed: anything may
\* follow, and nothing is modelled any further.
Break == /\ rec' = [rec EXCEPT !.pc = "broken"]
         /\ UNCHANGED <<queues, heap, videos>>

\* one turn of the loop of file_list_handle
Turn == /\ videos' = [videos EXCEPT ![rec.cur].frames = Append(@, rec.frame)]
        /\ IF Expired(videos[rec.cur].ts)
              THEN CloseVideo
              ELSE UNCHANGED <<p_file_queue, nodes, writers>>
        /\ rec' = [rec EXCEPT !.cur = NextFile(rec.cur),
                              !.pc = IF NextFile(rec.cur) = 0 THEN "event" ELSE "file"]
        /\ UNCHANGED <<p_f_e_queue, p_5s_frame_queue, frames>>

\* the frame, the node the loop stands at or the front node is freed already
TurnDangles == \/ rec.frame \notin frames \/ rec.cur \notin nodes
               \/ /\ Expired(videos[rec.cur].ts)
                  /\ p_file_queue = <<>> \/ Head(p_file_queue) \notin nodes

File == /\ rec.pc = "file"
        /\ IF TurnDangles THEN Break ELSE Turn
        /\ UNCHANGED <<clock, backs, closes, camera, passed, made, events, taken, start,
                       cut, trouble>>

\* what the video of an event begins with: the frames of the last seconds
Before_Bug == Append([i \in 1..Len(p_5s_frame_queue) |-> p_5s_frame_queue[i].frame],
                     rec.frame)
Before == [i \in 1..Len(p_5s_frame_queue) |-> p_5s_frame_queue[i].frame]

\* insert_picture and event_handle, for one event of the frame; the last seconds are
\* not empty then, since the frame is one of them
Record == LET v == Len(videos) + 1 IN
          /\ rec' = [rec EXCEPT !.events = @ - 1]
          /\ videos' = Append(videos, [ts |-> rec.ts, start |-> start, frames |-> Before])
          /\ p_file_queue' = Append(p_file_queue, v)
          /\ nodes' = nodes \cup {v}
          /\ writers' = writers \cup {v}
          /\ UNCHANGED <<p_f_e_queue, p_5s_frame_queue, frames>>

\* the frame, or one of the last seconds, is freed already
EventDangles == rec.frame \notin frames \/ ~(FramesOf(p_5s_frame_queue) \subseteq frames)

Event == /\ rec.pc = "event" /\ rec.events > 0
         /\ IF EventDangles THEN Break ELSE Record
         /\ UNCHANGED <<clock, backs, closes, camera, passed, made, events, taken, start,
                        cut, trouble>>

\* the node is freed; its frame belongs to the list of the last seconds
Done_Bug == /\ rec.pc = "event" /\ rec.events = 0
            /\ rec' = Idle
            /\ frames' = frames \ {rec.frame}
            /\ UNCHANGED <<clock, backs, closes, camera, queues, passed, nodes, writers,
                           history, trouble>>
Done == /\ rec.pc = "event" /\ rec.events = 0
        /\ rec' = Idle
        /\ UNCHANGED <<clock, backs, closes, camera, queues, passed, heap, history,
                       trouble>>

RecStep == Look \/ Take \/ Miss \/ Keep \/ File \/ Event \/ Done

-----------------------------------------------------------------------------
(* The timer thread: camera_close and camera_open, reduced to what they do   *)
(* to the recorder                                                           *)

\* the operator deletes the camera; its CLOSE is carried out later
Delete == /\ exist /\ close = "on" /\ closes < MaxCloses
          /\ exist' = FALSE
          /\ UNCHANGED <<clock, backs, closes, close, queues, passed, rec, heap, history,
                         trouble>>

\* close_flag is set, for a CLOSE or a RESET
CloseBegin == /\ close = "on" /\ close' = "closing"
              /\ closes < MaxCloses /\ closes' = closes + 1
              /\ UNCHANGED <<clock, backs, exist, queues, passed, rec, heap, history,
                             trouble>>

\* both threads of the camera have ended
CloseJoin == /\ close = "closing" /\ close' = "joined"
             /\ UNCHANGED <<clock, backs, closes, exist, queues, passed, rec, heap,
                            history, trouble>>

\* close_flag is reset
CloseFlag == /\ close = "joined" /\ close' = "clear_fe"
             /\ UNCHANGED <<clock, backs, closes, exist, queues, passed, rec, heap,
                            history, trouble>>

\* The recorder may be on a frame of the camera all the while.
Busy == rec.pc # "idle"

ClearFe_Bug == /\ close = "clear_fe" /\ close' = "clear_5s"
               /\ late' = (late \/ Busy)
               /\ UNCHANGED <<clock, backs, closes, exist, queues, passed, rec, heap,
                              history, shifted>>
ClearFe == /\ close = "clear_fe" /\ close' = "clear_5s"
           /\ p_f_e_queue' = <<>>
           /\ frames' = frames \ FramesOf(p_f_e_queue)
           /\ late' = (late \/ Busy)
           /\ UNCHANGED <<clock, backs, closes, exist, p_5s_frame_queue, p_file_queue,
                          passed, rec, nodes, writers, history, shifted>>

\* without delete_5s_frame_cb
Clear5s_Bug == /\ close = "clear_5s" /\ close' = "clear_file"
               /\ p_5s_frame_queue' = <<>>
               /\ start' = made + 1
               /\ late' = (late \/ Busy)
               /\ UNCHANGED <<clock, backs, closes, exist, p_f_e_queue, p_file_queue,
                              passed, rec, heap, videos, made, events, taken, cut,
                              shifted>>
Clear5s == /\ close = "clear_5s" /\ close' = "clear_file"
           /\ p_5s_frame_queue' = <<>>
           /\ frames' = frames \ FramesOf(p_5s_frame_queue)
           /\ start' = made + 1
           /\ late' = (late \/ Busy)
           /\ UNCHANGED <<clock, backs, closes, exist, p_f_e_queue, p_file_queue, passed,
                          rec, nodes, writers, videos, made, events, taken, cut,
                          shifted>>

\* a listed node may be freed already when the clock was set back
ClearFile == /\ close = "clear_file" /\ close' = "off"
             /\ p_file_queue' = <<>>
             /\ nodes' = nodes \ Elems(p_file_queue)
             /\ writers' = writers \ Elems(p_file_queue)
             /\ cut' = cut \cup Elems(p_file_queue)
             /\ rec' = IF Elems(p_file_queue) \subseteq nodes
                          THEN rec ELSE [rec EXCEPT !.pc = "broken"]
             /\ late' = (late \/ Busy)
             /\ UNCHANGED <<clock, backs, closes, exist, p_f_e_queue, p_5s_frame_queue,
                            passed, frames, videos, made, events, taken, start, shifted>>

\* the second half of a RESET, or the camera is added again
Open == /\ close = "off" /\ close' = "on"
        /\ exist' = TRUE
        /\ UNCHANGED <<clock, backs, closes, queues, passed, rec, heap, history,
                       trouble>>

CloseStep == CloseJoin \/ CloseFlag \/ ClearFe \/ Clear5s \/ ClearFile

-----------------------------------------------------------------------------
\* Nothing is modelled once the memory is broken.
Next == /\ rec.pc # "broken"
        /\ \/ Tick \/ SetDate
           \/ \E n \in 0..MaxVideos : AddFrame(n)
           \/ RecStep
           \/ Delete \/ CloseBegin \/ CloseStep \/ Open

Spec == Init /\ [][Next]_vars

\* The recorder thread and the timer thread are scheduled, and a deleted camera
\* is closed (CommandsCarriedOut in CameraControl).
Fairness == /\ WF_vars(RecStep) /\ WF_vars(CloseStep)
            /\ WF_vars(~exist /\ CloseBegin)

FairSpec == Spec /\ Fairness

-----------------------------------------------------------------------------
(* Properties *)

RecSteps == {"idle", "keep", "file", "event", "broken"}
CloseSteps == {"on", "closing", "joined", "clear_fe", "clear_5s", "clear_file", "off"}

\* Every variable has its type; the queue of frames keeps the bound stated at
\* g_define.h:84.
TypeOK ==
    /\ clock \in Times /\ backs \in 0..MaxBack /\ closes \in 0..MaxCloses
    /\ exist \in BOOLEAN /\ close \in CloseSteps
    /\ passed \in BOOLEAN /\ late \in BOOLEAN /\ shifted \in BOOLEAN
    /\ p_f_e_queue \in Seq([frame : Frames, events : 0..MaxVideos])
    /\ Len(p_f_e_queue) <= QueueMax
    /\ p_5s_frame_queue \in Seq([frame : Frames, ts : Times])
    /\ p_file_queue \in Seq(Videos)
    /\ rec \in [pc : RecSteps, frame : Frames \cup {0}, events : 0..MaxVideos,
                ts : Times \cup {0}, cur : Videos \cup {0}]
    /\ frames \subseteq Frames /\ nodes \subseteq Videos /\ writers \subseteq Videos
    /\ videos \in Seq([ts : Times, start : Nat, frames : Seq(Frames)])
    /\ made \in 0..MaxFrames /\ events \in 0..MaxVideos
    /\ taken \in [Frames -> Times \cup {0}]
    /\ start \in 1..(MaxFrames + 1) /\ cut \subseteq Videos

\* A frame is allocated exactly as long as a queue has it or the recorder has just
\* taken it: it passes from the first queue to the second without being freed in
\* between, and none is freed twice or lost when the camera is closed, although
\* camera_close frees what the queues have (cam_event.c:241, :310) while the
\* recorder moves a frame from one to the other.
FramesExact ==
    /\ TypeOK
    /\ rec.pc # "broken" =>
          frames = FramesOf(p_f_e_queue) \cup FramesOf(p_5s_frame_queue)
                   \cup IF rec.pc = "keep" THEN {rec.frame} ELSE {}
    /\ FramesOf(p_f_e_queue) \cap FramesOf(p_5s_frame_queue) = {}
    /\ rec.pc = "keep" =>
          rec.frame \notin FramesOf(p_f_e_queue) \cup FramesOf(p_5s_frame_queue)

\* The writers that are open are those of the listed videos, whenever the recorder
\* and camera_close meet and whatever the clock does; and so are the nodes, as long
\* as the clock is not set back: file_list_handle frees the node it stands at and
\* takes the first one off the list, which are the same as long as the videos end in
\* the order of the list (cam_event.c:402).
FilesExact == /\ writers = Elems(p_file_queue)
              /\ ~shifted => nodes = Elems(p_file_queue)

\* The recorder and camera_close touch no frame, node or writer that is freed, as
\* long as the recorder is done with the camera when its queues are emptied, and
\* the clock is not set back while a video is open: a frame the recorder has is not
\* freed with the last seconds, nor a video in the middle of the walk.
NothingDangles == ~late /\ ~shifted =>
    /\ rec.pc # "broken"
    /\ rec.pc # "idle" => rec.frame \in frames
    /\ rec.pc = "file" => rec.cur \in nodes

\* A video has no gap, no frame twice and no frame out of order, on the same
\* condition: what was kept from before the event and what comes after it join
\* without a seam.
NoGap == ~late /\ ~shifted =>
    \A v \in 1..Len(videos) : \A i \in 2..Len(videos[v].frames) :
        videos[v].frames[i] = videos[v].frames[i - 1] + 1

\* The comments at cam_event.c:205 and :388: a video holds every frame from the
\* Window before its event to the Window after it, unless the camera was closed
\* or the clock was set back.
Covers == ~late /\ ~shifted /\ rec.pc = "idle" =>
    \A v \in 1..Len(videos) \ cut : \A f \in Frames :
        /\ taken[f] # 0 /\ f >= videos[v].start
        /\ taken[f] <= videos[v].ts + Window /\ videos[v].ts <= taken[f] + Window
        => f \in Elems(videos[v].frames)

\* No frame is left lying in the queue: the recorder takes it, or closing the
\* camera drops it, although the recorder skips a camera that is deleted or closed.
\* (The frames are MaxFrames, so a queue that gets empty again has lost every one.)
FrameLeaves == (p_f_e_queue # <<>>) ~> (p_f_e_queue = <<>> \/ rec.pc = "broken")

=============================================================================
