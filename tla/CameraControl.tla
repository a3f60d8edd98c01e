---------------------------- MODULE CameraControl ---------------------------
(* Starting, restarting and stopping the cameras of the server: the TCP      *)
(* thread that takes the operator's requests (zen_rtsp/client_net.c), the    *)
(* timer thread camera_main that carries them out, and for every camera a    *)
(* decode thread and an algorithm thread (zen_rtsp/camera_service.c).  They  *)
(* share cam_info[] with almost no locking: a request is one overwritable    *)
(* command word per camera, guarded only by the value of curr_stat.          *)
(*                                                                           *)
(* Every step that another thread can observe in between is an action.  The  *)
(* frame ring is reduced here to "a frame is ready" (YuvRing has it in       *)
(* full); a decode thread is assumed to have read its camera number, passed  *)
(* by address, before camera_open returns.                                   *)
EXTENDS Integers, FiniteSets, Sequences

CONSTANTS NCams,         \* CAM_MAX
          RunMax,        \* CAMERA_RUN_MAX
          GpuMax,        \* GPU_INDEX_MAX
          GpuItemMax,    \* GPU_ITEM_MAX: cameras per GPU slot
          NoFrameMax,    \* no_frame_num above which the stream is reopened: 20
          Vtypes,        \* video types an operator configures
          Clients,       \* sockets of connected operators, all > 0
          Requests,      \* what operators ask for
          Unstable,      \* cameras whose stream can fail to open or to deliver
          Watched,       \* cameras some operator watches live
          MaxDisorder,   \* bound for each camera: requests from the first one out
                         \* of order on
          MaxThreads     \* bound: threads of each kind per camera at a time

ASSUME CamAssumption == NCams \in Nat \ {0} /\ RunMax \in Nat
ASSUME GpuAssumption == GpuMax \in Nat \ {0} /\ GpuItemMax \in Nat \ {0}
ASSUME PlaceAssumption == NCams <= GpuMax * GpuItemMax    \* 100 <= 50 * 2
ASSUME ThreadAssumption == MaxThreads \in Nat \ {0} /\ NoFrameMax \in Nat
ASSUME EnvAssumption ==
    /\ Vtypes \subseteq {"RTSP", "FILE"} /\ Vtypes # {}
    /\ Clients \subseteq Nat \ {0}
    /\ Requests \subseteq {"alg", "delete", "event", "play"}
    /\ Unstable \subseteq 0..(NCams - 1) /\ Watched \subseteq 0..(NCams - 1)

Cams == 0..(NCams - 1)
Gpus == 0..(GpuMax - 1)
Tids == 1..MaxThreads

ASSUME DisorderAssumption == MaxDisorder \in [Cams -> Nat]

Status == {"NONE", "COMMAND", "OPENING", "OPENED_FAILED", "FRAMING", "FRAME_FAILED"}
Commands == {"NULL", "OPEN", "CLOSE", "RESET"}

VARIABLES
  exist, cam_num,   \* g_cam_num
  camdetect,        \* g_camdetect[c].other.videotype
  cam,              \* cam_info[c]
  g_gpu_index,      \* cameras per GPU slot
  decoder,          \* decode threads of each camera: process_fun_for_rtsp
  process,          \* algorithm threads of each camera: start_process
  main,             \* the thread of camera_main
  tcp,              \* the thread of handle_buffer
  sock_lock,        \* client_sock_lock is held
  asked,            \* history: cameras whose last request was not answered yet
  disorder          \* history: requests for each camera from the first one out of
                    \* order on; also not 0 when it found no GPU place

hist == <<asked, disorder>>
vars == <<exist, cam_num, camdetect, cam, g_gpu_index, decoder, process, main,
          tcp, sock_lock, asked, disorder>>

\* A thread slot nothing runs in.  cap: the stream is open; yuv: pYuvBuf is allocated.
NoDecoder == [pc |-> "none", cap |-> FALSE, yuv |-> FALSE]

\* The TCP thread waits for a request.
NoRequest == [todo |-> <<>>, c |-> 0, cmd |-> "NULL", fd |-> 0]

InitCam == [curr_stat |-> "NONE", cmd |-> "NULL", cmd_fd |-> 0,
            vtype |-> CHOOSE v \in Vtypes : TRUE,
            open_alg |-> FALSE, open_flg |-> FALSE, close_flag |-> FALSE,
            rtsp_fag |-> FALSE, have_frame_size |-> FALSE, no_frame_num |-> 0,
            file_start |-> FALSE, file_replay |-> FALSE,
            gpu_index |-> 0, rtsp_thread |-> 0, process_thread |-> 0,
            buf |-> FALSE,       \* the frame buffers are allocated
            alg |-> FALSE,       \* the algorithm instance is allocated
            ready |-> FALSE,     \* get_yuv_item would return a frame
            holds |-> FALSE]     \* history: it holds a place on a GPU slot

\* The configuration read at start never has more than RunMax cameras: it was
\* saved by this program.  "boot" is init_camera, before the TCP server starts.
Init == /\ exist \in {f \in [Cams -> BOOLEAN] :
                        Cardinality({c \in Cams : f[c]}) <= RunMax}
        /\ cam_num = Cardinality({c \in Cams : exist[c]})
        /\ camdetect \in [Cams -> Vtypes]
        /\ cam = [c \in Cams |-> InitCam]
        /\ g_gpu_index = [g \in Gpus |-> 0]
        /\ decoder = [c \in Cams |-> [k \in Tids |-> NoDecoder]]
        /\ process = [c \in Cams |-> [k \in Tids |-> "none"]]
        /\ main = [pc |-> "scan", at |-> 0, cmd |-> "BOOT", open_alg |-> FALSE]
        /\ tcp = NoRequest
        /\ sock_lock = FALSE
        /\ asked = {} /\ disorder = [c \in Cams |-> 0]

-----------------------------------------------------------------------------
(* The TCP thread: handle_change, sync_obj and the switch of handle_buffer.  *)
(* A request that is refused changes nothing and is not a step.              *)

Busy(c) == cam[c].curr_stat \in {"COMMAND", "OPENING"}

Idle == tcp.todo = <<>> /\ main.cmd # "BOOT"

\* a request for camera c can arrive and is not refused
Accepts(c) == Idle /\ ~Busy(c)

\* The request before is neither answered nor done with.
Unfinished(c) ==
    /\ c \in asked
    /\ cam[c].cmd # "NULL" \/ (main.pc # "scan" /\ main.at = c)

\* Every request for camera c so far came in order, and it found a GPU place, which
\* only a request out of order for some camera can take away (GpuExact).
Orderly(c) == disorder[c] = 0

\* Only curr_stat is tested: a request may overtake an unfinished one, or be about a
\* camera that does not exist (odd).
Record(c, odd) ==
    /\ asked' = asked \cup {c}
    /\ IF Orderly(c) /\ ~odd /\ ~Unfinished(c)
          THEN UNCHANGED disorder
          ELSE /\ disorder[c] < MaxDisorder[c]
               /\ disorder' = [disorder EXCEPT ![c] = @ + 1]

\* What is left of a request once the configuration is saved, in code order.
Post(c, cmd, fd) ==
    tcp' = [todo |-> IF cmd = "CLOSE" THEN <<"stat", "fd", "ctrl">>
                                      ELSE <<"fd", "stat", "ctrl">>,
            c |-> c, cmd |-> cmd, fd |-> fd]

Limit_Bug == cam_num > RunMax
Limit == cam_num >= RunMax

Added(c) == IF exist[c] THEN cam_num ELSE cam_num + 1

\* SETALGPARAM: the camera is added, or started again with a new configuration
SetAlg(c, v, fd) ==
    LET new == ~exist[c] /\ ~cam[c].open_alg IN
    /\ "alg" \in Requests /\ Accepts(c)
    /\ ~(new /\ Limit)
    /\ camdetect' = [camdetect EXCEPT ![c] = v]
    /\ exist' = [exist EXCEPT ![c] = TRUE]
    /\ cam_num' = Added(c)
    /\ Post(c, IF new THEN "OPEN" ELSE "RESET", fd)
    /\ Record(c, FALSE)
    /\ UNCHANGED <<cam, g_gpu_index, decoder, process, main, sock_lock>>

\* DELCAMERANUMPARAM, also for a camera that does not exist
DelCamera(c, fd) ==
    /\ "delete" \in Requests /\ Accepts(c)
    /\ exist' = [exist EXCEPT ![c] = FALSE]
    /\ cam_num' = IF exist[c] THEN cam_num - 1 ELSE cam_num
    /\ Post(c, "CLOSE", fd)
    /\ Record(c, ~exist[c])
    /\ UNCHANGED <<camdetect, cam, g_gpu_index, decoder, process, main, sock_lock>>

\* SETEVENTPARAM, also for a camera that does not exist
SetEvent(c, fd) ==
    /\ "event" \in Requests /\ Accepts(c)
    /\ Post(c, "RESET", fd)
    /\ Record(c, ~exist[c])
    /\ UNCHANGED <<exist, cam_num, camdetect, cam, g_gpu_index, decoder, process,
                   main, sock_lock>>

TcpFd ==
    /\ tcp.todo # <<>> /\ Head(tcp.todo) = "fd"
    /\ cam' = [cam EXCEPT ![tcp.c].cmd_fd = tcp.fd]
    /\ tcp' = [tcp EXCEPT !.todo = Tail(@)]
    /\ UNCHANGED <<exist, cam_num, camdetect, g_gpu_index, decoder, process, main,
                   sock_lock, hist>>

TcpStatus ==
    /\ tcp.todo # <<>> /\ Head(tcp.todo) = "stat"
    /\ cam' = [cam EXCEPT ![tcp.c].curr_stat = "COMMAND"]
    /\ tcp' = [tcp EXCEPT !.todo = Tail(@)]
    /\ UNCHANGED <<exist, cam_num, camdetect, g_gpu_index, decoder, process, main,
                   sock_lock, hist>>

\* camera_ctrl
TcpCtrl ==
    /\ tcp.todo # <<>> /\ Head(tcp.todo) = "ctrl"
    /\ cam' = [cam EXCEPT ![tcp.c].cmd = tcp.cmd]
    /\ tcp' = NoRequest
    /\ UNCHANGED <<exist, cam_num, camdetect, g_gpu_index, decoder, process, main,
                   sock_lock, hist>>

\* FILE_PLAY_START
Play(c) ==
    /\ "play" \in Requests /\ Idle /\ cam[c].vtype = "FILE"
    /\ cam' = [cam EXCEPT ![c].file_start = TRUE, ![c].file_replay = TRUE,
                          ![c].ready = FALSE]
    /\ UNCHANGED <<exist, cam_num, camdetect, g_gpu_index, decoder, process, main,
                   tcp, sock_lock, hist>>

\* SHUTDOWN
Stop(c) ==
    /\ "play" \in Requests /\ Idle /\ cam[c].vtype = "FILE" /\ cam[c].file_start
    /\ cam' = [cam EXCEPT ![c].file_start = FALSE]
    /\ UNCHANGED <<exist, cam_num, camdetect, g_gpu_index, decoder, process, main,
                   tcp, sock_lock, hist>>

TcpRequest == \E c \in Cams :
    \/ \E fd \in Clients : \/ \E v \in Vtypes : SetAlg(c, v, fd)
                           \/ DelCamera(c, fd)
                           \/ SetEvent(c, fd)
    \/ Play(c)
    \/ Stop(c)
TcpStep == TcpFd \/ TcpStatus \/ TcpCtrl

-----------------------------------------------------------------------------
(* The timer thread: camera_main scans the cameras in order and carries out  *)
(* the command of one before it looks at the next.                           *)

NextCam(c) == IF c + 1 < NCams THEN c + 1 ELSE 0

\* one step of the thread in place pc, on to place pc2
At(pc, pc2) == main.pc = pc /\ main' = [main EXCEPT !.pc = pc2]

env == <<exist, cam_num, camdetect, tcp, hist>>
threads == <<decoder, process, sock_lock>>

\* nothing to do for this camera
Skip == /\ main.pc = "scan"
        /\ IF main.cmd = "BOOT" THEN ~exist[main.at] ELSE cam[main.at].cmd = "NULL"
        /\ main' = [main EXCEPT !.at = NextCam(@),
                                !.cmd = IF NextCam(main.at) = 0 THEN "NULL" ELSE @]
        /\ UNCHANGED <<env, cam, g_gpu_index, threads>>

\* the switch of camera_main: a RESET closes the camera first
FirstStep_Bug(cmd) == IF cmd = "CLOSE" THEN "close" ELSE "open"
FirstStep(cmd) == IF cmd = "OPEN" THEN "open" ELSE "close"

Take == /\ main.pc = "scan"
        /\ IF main.cmd = "BOOT"
              THEN exist[main.at] /\ main' = [main EXCEPT !.pc = "open"]
              ELSE /\ cam[main.at].cmd # "NULL"
                   /\ main' = [main EXCEPT !.cmd = cam[main.at].cmd,
                                             !.pc = FirstStep(cam[main.at].cmd)]
        /\ UNCHANGED <<env, cam, g_gpu_index, threads>>

\* the command word is reset, unless another command was posted meanwhile
Left_Bug(cmd) == "NULL"
Left(cmd) == IF cmd = main.cmd THEN "NULL" ELSE cmd

Finish == /\ main.pc = "finish"
          /\ IF main.cmd = "BOOT"
                THEN UNCHANGED cam
                ELSE cam' = [cam EXCEPT ![main.at].cmd = Left(@)]
          /\ main' = [main EXCEPT !.pc = "scan", !.at = NextCam(@), !.open_alg = FALSE,
                        !.cmd = IF main.cmd = "BOOT" /\ NextCam(main.at) # 0
                                   THEN "BOOT" ELSE "NULL"]
          /\ UNCHANGED <<env, g_gpu_index, threads>>

-----------------------------------------------------------------------------
(* camera_close, on camera main.at *)

CloseFlags ==
    /\ main.pc = "close"
    /\ main' = [main EXCEPT !.pc = "close_gpu", !.open_alg = cam[main.at].open_alg]
    /\ cam' = [cam EXCEPT ![main.at].file_start = FALSE,
                          ![main.at].close_flag = TRUE,
                          ![main.at].open_alg = FALSE,
                          ![main.at].open_flg = FALSE]
    /\ UNCHANGED <<env, g_gpu_index, threads>>

GivenBack_Bug == [g_gpu_index EXCEPT ![0] = IF @ > 0 THEN @ - 1 ELSE @]
GivenBack == [g_gpu_index EXCEPT ![cam[main.at].gpu_index] =
                IF @ > 0 THEN @ - 1 ELSE @]

CloseGpu ==
    /\ At("close_gpu", "close_wait")
    /\ g_gpu_index' = GivenBack
    /\ cam' = [cam EXCEPT ![main.at].holds = FALSE]
    /\ UNCHANGED <<env, threads>>

\* rtsp_fag was set, or 15 seconds have passed
CloseWait ==
    /\ At("close_wait", "close_join_decode")
    /\ UNCHANGED <<env, cam, g_gpu_index, threads>>

\* pthread_cancel and pthread_join: the thread ends at its next cancellation point.
\* If that is the send() of SendDataToClient, client_sock_lock stays locked.
EndInSend(can_send) ==
    \E sending \in BOOLEAN : /\ sending => can_send
                             /\ sock_lock' = (sock_lock \/ sending)

CloseJoinDecode ==
    LET k == cam[main.at].rtsp_thread IN
    /\ At("close_join_decode", "close_join_alg")
    /\ decoder' = IF k = 0 THEN decoder
                  ELSE [decoder EXCEPT ![main.at][k] = NoDecoder]
    /\ cam' = [cam EXCEPT ![main.at].rtsp_thread = 0]
    /\ EndInSend(k # 0 /\ decoder[main.at][k].pc = "reply" /\ cam[main.at].cmd_fd > 0)
    /\ UNCHANGED <<env, g_gpu_index, process>>

CloseJoinAlg_Bug ==
    /\ At("close_join_alg", "close_release")
    /\ cam' = [cam EXCEPT ![main.at].process_thread = 0]
    /\ UNCHANGED <<env, g_gpu_index, threads>>

CloseJoinAlg ==
    LET k == cam[main.at].process_thread IN
    /\ At("close_join_alg", "close_release")
    /\ process' = IF k = 0 THEN process
                  ELSE [process EXCEPT ![main.at][k] = "none"]
    /\ cam' = [cam EXCEPT ![main.at].process_thread = 0]
    /\ EndInSend(k # 0 /\ process[main.at][k] = "run" /\ main.at \in Watched)
    /\ UNCHANGED <<env, g_gpu_index, decoder>>

\* release_alg under frame_lock, which start_process holds while it runs
CloseRelease ==
    /\ At("close_release", "close_free")
    /\ \A k \in Tids : process[main.at][k] # "run"
    /\ cam' = IF main.open_alg THEN [cam EXCEPT ![main.at].alg = FALSE] ELSE cam
    /\ UNCHANGED <<env, g_gpu_index, threads>>

\* the requester is answered here, not by the decode thread: ~is_call_cmd
Answers == main.cmd = "CLOSE"

CloseFree_Bug ==
    /\ At("close_free", IF Answers THEN "close_stat" ELSE "close_done")
    /\ cam' = [cam EXCEPT ![main.at].buf = FALSE, ![main.at].ready = FALSE,
                          ![main.at].close_flag = FALSE]
    /\ UNCHANGED <<env, g_gpu_index, threads>>

CloseFree ==
    /\ At("close_free", IF Answers THEN "close_stat" ELSE "close_done")
    /\ cam' = [cam EXCEPT ![main.at].buf = FALSE, ![main.at].ready = FALSE,
                          ![main.at].have_frame_size = FALSE,
                          ![main.at].close_flag = FALSE]
    /\ UNCHANGED <<env, g_gpu_index, threads>>

CloseStatus ==
    /\ At("close_stat", "close_reply")
    /\ cam' = [cam EXCEPT ![main.at].curr_stat = "NONE"]
    /\ UNCHANGED <<env, g_gpu_index, threads>>

\* cmd_output sends the answer if cmd_fd is set, and then clears cmd_fd
CloseReply ==
    /\ main.pc = "close_reply"
    /\ cam[main.at].cmd_fd > 0 => ~sock_lock
    /\ main' = [main EXCEPT !.pc = IF cam[main.at].cmd_fd > 0 THEN "close_fd"
                                                              ELSE "close_done"]
    /\ asked' = IF cam[main.at].cmd_fd > 0 THEN asked \ {main.at} ELSE asked
    /\ UNCHANGED <<exist, cam_num, camdetect, tcp, disorder, cam, g_gpu_index, threads>>

CloseFd ==
    /\ At("close_fd", "close_done")
    /\ cam' = [cam EXCEPT ![main.at].cmd_fd = 0]
    /\ UNCHANGED <<env, g_gpu_index, threads>>

CloseDone ==
    /\ At("close_done", IF main.cmd = "RESET" THEN "open" ELSE "finish")
    /\ cam' = [cam EXCEPT ![main.at].rtsp_fag = FALSE]
    /\ UNCHANGED <<env, g_gpu_index, threads>>

-----------------------------------------------------------------------------
(* camera_open, on camera main.at *)

OpenStatus ==
    /\ At("open", "open_gpu")
    /\ cam' = [cam EXCEPT ![main.at].curr_stat = "OPENING"]
    /\ UNCHANGED <<env, g_gpu_index, threads>>

Room == {g \in Gpus : g_gpu_index[g] < GpuItemMax}

\* camera_main passes the saved configuration, also when it opens a camera again
NewType_Bug == IF main.cmd = "RESET" THEN cam[main.at].vtype ELSE camdetect[main.at]
NewType == camdetect[main.at]

\* the first GPU slot with room; without one, camera_open returns -1 here, and
\* nothing is promised to the camera any more
OpenGpu ==
    /\ main.pc = "open_gpu"
    /\ IF Room = {}
          THEN /\ main' = [main EXCEPT !.pc = "finish"]
               /\ disorder' = [disorder EXCEPT ![main.at] = IF @ = 0 THEN 1 ELSE @]
               /\ UNCHANGED <<cam, g_gpu_index>>
          ELSE /\ main' = [main EXCEPT !.pc = "open_thread"]
               /\ UNCHANGED disorder
               /\ \E g \in Room :
                    /\ \A h \in Room : g <= h
                    /\ g_gpu_index' = [g_gpu_index EXCEPT ![g] = @ + 1]
                    /\ cam' = [cam EXCEPT ![main.at].gpu_index = g,
                                          ![main.at].holds = TRUE,
                                          ![main.at].vtype = NewType]
    /\ UNCHANGED <<exist, cam_num, camdetect, tcp, asked, threads>>

OpenThread ==
    /\ At("open_thread", "open_alg")
    /\ \E k \in Tids :
         /\ decoder[main.at][k].pc = "none"
         /\ \A j \in Tids : j < k => decoder[main.at][j].pc # "none"
         /\ decoder' = [decoder EXCEPT ![main.at][k].pc = "reply"]
         /\ cam' = [cam EXCEPT ![main.at].rtsp_thread = k]
    /\ UNCHANGED <<env, g_gpu_index, process, sock_lock>>

\* open_alg loads the networks on the GPU: the decode thread is running meanwhile
OpenAlg ==
    /\ At("open_alg", "open_run")
    /\ cam' = [cam EXCEPT ![main.at].alg = TRUE]
    /\ UNCHANGED <<env, g_gpu_index, threads>>

OpenRun ==
    /\ At("open_run", "finish")
    /\ \E k \in Tids :
         /\ process[main.at][k] = "none"
         /\ \A j \in Tids : j < k => process[main.at][j] # "none"
         /\ process' = [process EXCEPT ![main.at][k] = "loop"]
         /\ cam' = [cam EXCEPT ![main.at].open_alg = TRUE,
                               ![main.at].process_thread = k]
    /\ UNCHANGED <<env, g_gpu_index, decoder, sock_lock>>

MainStep == \/ Skip \/ Take \/ Finish
            \/ CloseFlags \/ CloseGpu \/ CloseWait \/ CloseJoinDecode
            \/ CloseJoinAlg \/ CloseRelease \/ CloseFree \/ CloseStatus
            \/ CloseReply \/ CloseFd \/ CloseDone
            \/ OpenStatus \/ OpenGpu \/ OpenThread \/ OpenAlg \/ OpenRun

-----------------------------------------------------------------------------
(* A decode thread k of camera c: process_fun_for_rtsp                       *)

\* cmd_output of a newly started thread
DecodeReply(c, k) ==
    /\ decoder[c][k].pc = "reply"
    /\ cam[c].cmd_fd > 0 => ~sock_lock
    /\ decoder' = [decoder EXCEPT ![c][k].pc = IF cam[c].cmd_fd > 0 THEN "clear_fd"
                                                                    ELSE "loop"]
    /\ asked' = IF cam[c].cmd_fd > 0 THEN asked \ {c} ELSE asked
    /\ UNCHANGED <<exist, cam_num, camdetect, tcp, disorder, cam, g_gpu_index, process,
                   main, sock_lock>>

DecodeClearFd(c, k) ==
    /\ decoder[c][k].pc = "clear_fd"
    /\ decoder' = [decoder EXCEPT ![c][k].pc = "loop"]
    /\ cam' = [cam EXCEPT ![c].cmd_fd = 0]
    /\ UNCHANGED <<env, g_gpu_index, process, main, sock_lock>>

\* the thread returns; it stays joinable as long as its handle is known
DecodeExit(c, k) ==
    /\ decoder[c][k].pc = "loop" /\ cam[c].close_flag
    /\ decoder' = [decoder EXCEPT ![c][k] =
                     [NoDecoder EXCEPT !.pc = IF cam[c].rtsp_thread = k THEN "done"
                                                                        ELSE "none"]]
    /\ cam' = [cam EXCEPT ![c].rtsp_fag = TRUE]
    /\ UNCHANGED <<env, g_gpu_index, process, main, sock_lock>>

MustOpen_Bug(c) == ~cam[c].open_flg \/ cam[c].file_replay
MustOpen(c) == \/ ~cam[c].open_flg
               \/ cam[c].file_replay
               \/ cam[c].no_frame_num > NoFrameMax

DecodeTurn(c, k) ==
    /\ decoder[c][k].pc = "loop" /\ ~cam[c].close_flag
    /\ decoder' = [decoder EXCEPT ![c][k].pc = IF MustOpen(c) THEN "open" ELSE "grab"]
    /\ UNCHANGED <<env, cam, g_gpu_index, process, main, sock_lock>>

\* no path is configured, or open_camera fails
DecodeOpenFails(c, k) ==
    /\ decoder[c][k].pc = "open" /\ c \in Unstable
    /\ decoder' = [decoder EXCEPT ![c][k].pc = "loop", ![c][k].cap = FALSE]
    /\ cam' = [cam EXCEPT ![c].curr_stat = "OPENED_FAILED"]
    /\ UNCHANGED <<env, g_gpu_index, process, main, sock_lock>>

DecodeOpen(c, k) ==
    /\ decoder[c][k].pc = "open"
    /\ decoder' = [decoder EXCEPT ![c][k].pc = "grab", ![c][k].cap = TRUE]
    /\ cam' = [cam EXCEPT ![c].file_replay = @ /\ cam[c].vtype # "FILE",
                          ![c].open_flg = TRUE, ![c].no_frame_num = 0,
                          ![c].curr_stat = "FRAMING"]
    /\ UNCHANGED <<env, g_gpu_index, process, main, sock_lock>>

\* the test on file_frame_curr_no: a file that was started may be at its end; any
\* other camera always is, both numbers being 0
AtEnd(c) == cam[c].file_start

\* a file at its end is opened again; a file that was not started waits
DecodeFile(c, k) ==
    /\ decoder[c][k].pc = "grab"
    /\ AtEnd(c) \/ cam[c].vtype = "FILE"
    /\ decoder' = [decoder EXCEPT ![c][k].pc = "loop"]
    /\ cam' = [cam EXCEPT ![c].file_replay = @ \/ AtEnd(c)]
    /\ UNCHANGED <<env, g_gpu_index, process, main, sock_lock>>

Delivers(c) == cam[c].vtype = "FILE" <=> cam[c].file_start

\* get_frame fails; it always does on a stream this thread has not opened
DecodeNoFrame(c, k) ==
    /\ decoder[c][k].pc = "grab" /\ Delivers(c)
    /\ c \in Unstable \/ ~decoder[c][k].cap
    /\ decoder' = [decoder EXCEPT ![c][k].pc = "loop"]
    /\ cam' = [cam EXCEPT ![c].curr_stat = "FRAME_FAILED",
                          ![c].no_frame_num = IF @ > NoFrameMax THEN @ ELSE @ + 1]
    /\ UNCHANGED <<env, g_gpu_index, process, main, sock_lock>>

DecodeFrame(c, k) ==
    /\ decoder[c][k].pc = "grab" /\ Delivers(c) /\ decoder[c][k].cap
    /\ decoder' = [decoder EXCEPT ![c][k].pc = "store"]
    /\ cam' = [cam EXCEPT ![c].no_frame_num = 0]
    /\ UNCHANGED <<env, g_gpu_index, process, main, sock_lock>>

\* a frame without rows or columns is skipped
DecodeEmpty(c, k) ==
    /\ decoder[c][k].pc = "grab" /\ Delivers(c) /\ decoder[c][k].cap
    /\ c \in Unstable
    /\ decoder' = [decoder EXCEPT ![c][k].pc = "loop"]
    /\ cam' = [cam EXCEPT ![c].no_frame_num = 0]
    /\ UNCHANGED <<env, g_gpu_index, process, main, sock_lock>>

\* init_cam_info_yuv and init_yuv_list_arrary, at the first frame
DecodeAlloc(c, k) ==
    /\ decoder[c][k].pc = "store" /\ ~cam[c].have_frame_size
    /\ decoder' = [decoder EXCEPT ![c][k].yuv = TRUE]
    /\ cam' = [cam EXCEPT ![c].buf = TRUE, ![c].have_frame_size = TRUE]
    /\ UNCHANGED <<env, g_gpu_index, process, main, sock_lock>>

\* the frame is copied through pYuvBuf into the ring
DecodeStore(c, k) ==
    /\ decoder[c][k].pc = "store" /\ cam[c].have_frame_size
    /\ decoder' = [decoder EXCEPT ![c][k].pc = "loop"]
    /\ cam' = [cam EXCEPT ![c].ready = TRUE]
    /\ UNCHANGED <<env, g_gpu_index, process, main, sock_lock>>

\* the stream, not the program, is the reason that no frame comes
StreamFails(c, k) == \/ DecodeOpenFails(c, k)
                     \/ DecodeNoFrame(c, k) /\ decoder[c][k].cap
                     \/ DecodeEmpty(c, k)

DecodeStep(c, k) ==
    \/ DecodeReply(c, k) \/ DecodeClearFd(c, k) \/ DecodeExit(c, k)
    \/ DecodeTurn(c, k) \/ DecodeOpenFails(c, k) \/ DecodeOpen(c, k)
    \/ DecodeFile(c, k) \/ DecodeNoFrame(c, k) \/ DecodeFrame(c, k)
    \/ DecodeEmpty(c, k) \/ DecodeAlloc(c, k) \/ DecodeStore(c, k)

-----------------------------------------------------------------------------
(* An algorithm thread k of camera c: start_process                          *)

ProcessExit(c, k) ==
    /\ process[c][k] = "loop" /\ cam[c].close_flag
    /\ process' = [process EXCEPT ![c][k] =
                     IF cam[c].process_thread = k THEN "done" ELSE "none"]
    /\ UNCHANGED <<env, cam, g_gpu_index, decoder, main, sock_lock>>

\* get_yuv_item delivers a frame; there may or may not be another one behind it
ProcessTake(c, k) ==
    /\ process[c][k] = "loop" /\ ~cam[c].close_flag
    /\ cam[c].open_alg /\ cam[c].have_frame_size /\ cam[c].ready
    /\ process' = [process EXCEPT ![c][k] = "run"]
    /\ \E more \in BOOLEAN : cam' = [cam EXCEPT ![c].ready = more]
    /\ UNCHANGED <<env, g_gpu_index, decoder, main, sock_lock>>

\* run_alg on the frame, under frame_lock; then client_output starts to send
ProcessRun(c, k) ==
    /\ process[c][k] = "run"
    /\ IF c \in Watched
          THEN /\ ~sock_lock
               /\ sock_lock' = TRUE
               /\ process' = [process EXCEPT ![c][k] = "send"]
          ELSE /\ process' = [process EXCEPT ![c][k] = "loop"]
               /\ UNCHANGED sock_lock
    /\ UNCHANGED <<env, cam, g_gpu_index, decoder, main>>

ProcessSent(c, k) ==
    /\ process[c][k] = "send"
    /\ sock_lock' = FALSE
    /\ process' = [process EXCEPT ![c][k] = "loop"]
    /\ UNCHANGED <<env, cam, g_gpu_index, decoder, main>>

ProcessStep(c, k) == \/ ProcessExit(c, k) \/ ProcessTake(c, k)
                     \/ ProcessRun(c, k) \/ ProcessSent(c, k)

-----------------------------------------------------------------------------
Next == \/ TcpRequest \/ TcpStep
        \/ MainStep
        \/ \E c \in Cams, k \in Tids : DecodeStep(c, k) \/ ProcessStep(c, k)

Spec == Init /\ [][Next]_vars

\* Every thread that can take a step takes one.  Operators need not ask anything.
Fairness == /\ WF_vars(TcpStep) /\ WF_vars(MainStep)
            /\ \A c \in Cams, k \in Tids : /\ WF_vars(DecodeStep(c, k))
                                           /\ WF_vars(ProcessStep(c, k))

FairSpec == Spec /\ Fairness

-----------------------------------------------------------------------------
(* Properties *)

DecoderSteps == {"none", "reply", "clear_fd", "loop", "open", "grab", "store", "done"}
ProcessSteps == {"none", "loop", "run", "send", "done"}
MainSteps == {"scan", "finish", "close", "close_gpu", "close_wait",
              "close_join_decode", "close_join_alg", "close_release", "close_free",
              "close_stat", "close_reply", "close_fd", "close_done",
              "open", "open_gpu", "open_thread", "open_alg", "open_run"}

CamInfo == [curr_stat : Status, cmd : Commands, cmd_fd : Clients \cup {0},
            vtype : Vtypes, open_alg : BOOLEAN, open_flg : BOOLEAN,
            close_flag : BOOLEAN, rtsp_fag : BOOLEAN, have_frame_size : BOOLEAN,
            no_frame_num : 0..(NoFrameMax + 1), file_start : BOOLEAN,
            file_replay : BOOLEAN, gpu_index : Gpus, rtsp_thread : Tids \cup {0},
            process_thread : Tids \cup {0}, buf : BOOLEAN, alg : BOOLEAN,
            ready : BOOLEAN, holds : BOOLEAN]

TcpTodo == {<<>>, <<"ctrl">>, <<"stat", "ctrl">>, <<"fd", "ctrl">>,
            <<"stat", "fd", "ctrl">>, <<"fd", "stat", "ctrl">>}

DecoderInfo == [pc : DecoderSteps, cap : BOOLEAN, yuv : BOOLEAN]
MainInfo == [pc : MainSteps, at : Cams, cmd : Commands \cup {"BOOT"},
             open_alg : BOOLEAN]
TcpInfo == [todo : TcpTodo, c : Cams, cmd : Commands, fd : Clients \cup {0}]

\* Every variable has its type; no GPU slot is given to more cameras than fit.
TypeOK == /\ exist \in [Cams -> BOOLEAN] /\ cam_num \in Int
          /\ camdetect \in [Cams -> Vtypes]
          /\ cam \in [Cams -> CamInfo]
          /\ g_gpu_index \in [Gpus -> 0..GpuItemMax]
          /\ decoder \in [Cams -> [Tids -> DecoderInfo]]
          /\ process \in [Cams -> [Tids -> ProcessSteps]]
          /\ main \in MainInfo
          /\ tcp \in TcpInfo
          /\ sock_lock \in BOOLEAN
          /\ asked \subseteq Cams /\ disorder \in [Cams -> Nat]

\* g_cam_num.cam_num counts the cameras that exist: SETALGPARAM and the delete
\* change the two in every order of requests without losing step.
CamCount == cam_num = Cardinality({c \in Cams : exist[c]})

\* Every thread of a camera is the one whose handle is stored, so camera_close ends
\* it and none is left running behind a handle that was overwritten, unless a request
\* for this very camera was out of order.  curr_stat alone does not keep requests
\* apart, and no request for another camera can do harm.
ThreadsKnown == \A c \in Cams, k \in Tids : Orderly(c) =>
    /\ decoder[c][k].pc # "none" => cam[c].rtsp_thread = k
    /\ process[c][k] # "none" => cam[c].process_thread = k

\* A decode thread copies a frame only through buffers that are allocated, its
\* own pYuvBuf included (it is allocated with the first frame, and have_frame_size
\* may have been set by another thread); run_alg only runs on a live instance
\* and live buffers, although camera_close frees both and cancels threads anywhere.
\* Only a request out of order for the same camera can lead to another thread that
\* finds have_frame_size set, or to a camera that is freed under its threads.
BuffersLive == \A c \in Cams, k \in Tids : Orderly(c) =>
    /\ decoder[c][k].pc = "store" /\ cam[c].have_frame_size =>
          cam[c].buf /\ decoder[c][k].yuv
    /\ process[c][k] = "run" => cam[c].buf /\ cam[c].alg

\* As long as no request was out of order, the count of each GPU slot is the number
\* of cameras that hold a place on it: in every order of orderly opens and closes no
\* place is lost or given back twice, so camera_open always finds one.
GpuExact == (\A c \in Cams : Orderly(c)) =>
    /\ \A g \in Gpus : g_gpu_index[g] =
          Cardinality({c \in Cams : cam[c].holds /\ cam[c].gpu_index = g})
    /\ main.pc = "open_gpu" => Room # {}

\* Nothing is pending for camera c: no command, no request half done, and
\* camera_main is not working on it.
Settled(c) == /\ main.cmd # "BOOT" /\ cam[c].cmd = "NULL"
              /\ main.pc # "scan" => main.at # c
              /\ tcp.todo # <<>> => tcp.c # c

Running(c) == cam[c].rtsp_thread # 0 /\ cam[c].process_thread # 0

\* When nothing is pending for a camera whose requests came in order, it runs exactly
\* if it exists, also if the last RESET was dropped with the command word it was
\* posted in; a camera that was deleted holds nothing any more.
ExistingRun == \A c \in Cams : Orderly(c) /\ Settled(c) =>
    /\ exist[c] <=> Running(c)
    /\ ~exist[c] => /\ cam[c].rtsp_thread = 0 /\ cam[c].process_thread = 0
                    /\ ~cam[c].buf /\ ~cam[c].alg /\ ~cam[c].holds

\* When the requests for a camera came in order and the last one was answered, the
\* camera runs with the configuration that was saved.  (A RESET that is dropped with
\* the command word of the one before is never answered.)
ConfigInEffect == \A c \in Cams :
    Orderly(c) /\ Settled(c) /\ exist[c] /\ c \notin asked => cam[c].vtype = camdetect[c]

\* cam_num counts the cameras, and those whose requests came in order stay within the
\* limit of handle_change, whatever is asked for others: only a camera that runs
\* without being added gets past the test.
ExistWithinLimit ==
    /\ CamCount
    /\ Cardinality({c \in Cams : exist[c] /\ Orderly(c)}) <= RunMax

Alive(c) == \E k \in Tids : \/ decoder[c][k].pc \notin {"none", "done"}
                            \/ process[c][k] \notin {"none", "done"}

\* The requests for camera c come in order, and the socket lock is not lost in a
\* cancellation.
Undisturbed(c) == []<>~sock_lock /\ []Orderly(c)

\* A posted CLOSE ends all threads of the camera and a posted OPEN starts them, if its
\* requests come in order, it found a GPU place and the socket lock is not lost, whatever
\* the other threads do and is asked for other cameras.
CommandsCarriedOut == \A c \in Cams :
    Undisturbed(c) =>
        /\ (cam[c].cmd = "CLOSE") ~> ~Alive(c)
        /\ (cam[c].cmd = "OPEN") ~> Running(c)

\* A running network camera that was not started as a file delivers frames once its
\* stream stops failing, if its requests come in order and the socket lock is not
\* lost: a decode thread that finds open_flg set by its predecessor, or no_frame_num
\* counted up, opens the stream in the end.
FramesFlow == \A c \in Cams :
    Undisturbed(c) /\ <>[][\A k \in Tids : ~StreamFails(c, k)]_vars =>
        (Running(c) /\ cam[c].vtype = "RTSP" /\ ~cam[c].file_start)
            ~> (cam[c].have_frame_size \/ ~Running(c))

=============================================================================
