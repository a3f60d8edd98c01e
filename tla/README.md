# Verification of the video-detection server `zen_rtsp`

The repository is a collection: Python exercises (`Finance`, `July`,
`Instance_Segmentation`), network descriptions for a chip (`HI3519AV100`), OpenCL samples
(`cl_tutorial`), a vendored labelling tool (`labelme-master`), a Qt project file
(`zenz_rtsp_pro`) and one program with logic of its own: **`zen_rtsp`**, a multi-threaded
server in C and C++ that watches traffic cameras. It opens up to 50 video streams, runs
detection on every frame, and reports to operators (TCP), to a signal machine, to
websocket clients and to a database. This directory models that server. There is no
design document; the reference is the code and its comments (several files store their
Chinese comments encoded twice; they are translated where they are quoted).

    operators --TCP--> tcp_server / client_net --command word--> camera_main (timer thread)
                              |   cam_info[]                        | open / close
                              v                                     v
    camera --RTSP/file--> decode thread --frame ring--> algorithm thread --queues--> event
                                                         |        |               recorder
                                                         v        v
                                              watching clients   signal machine, websocket,
                                              (client_sock_lock)  radar, MySQL

## 1. Inventory

Paths are under `src/zen_rtsp/`.

| Component | State | Operations | Interacts by | What is hard | What makes it correct |
|---|---|---|---|---|---|
| **Queue** `queue/queue.c` | linked list, `size`, `q_lock` | EnQueue, FixEnQueue, DeQueue, CutQueue, ClearQueue, ConditionDeleteQueue | shared by all threads below | tests and frees outside the lock, exact-size test | one list, nothing freed twice or leaked, bound kept, first in first out |
| **Frame ring** `camera_service.c:54-182` | three slots, two cursors, loop counter, `valid` | init, set, get, clear, deinit | decode and algorithm thread | overrun, clear without moving the cursors, counter wrap | frames are recent, in order while aligned; reader never stuck |
| **Camera control** `client_net.c`, `camera_service.c` | `cam_info[]`, `g_cam_num`, `g_gpu_index`, `client_sock_lock`, threads | requests of the operator, `camera_main`, `camera_open`, `camera_close`, `process_fun_for_rtsp`, `start_process` | one command word and one status per camera, almost no locks | every interleaving of four kinds of threads; `pthread_cancel` | cameras that exist run with the last configuration, limits, GPU places, no thread lost |
| **Operator connections** `tcp_server.c`, `client_net.c`, `csocket.c`, lists in `common.c` | client sockets, lists of watching clients | accept/select loop, register, send, drop | sends from every thread under `client_sock_lock` | slot reuse, partial sends, a client that leaves while it is sent to | a socket in a list is open; slots are not lost |
| **Event recorder** `cam_event.c` | three queues per camera | add_event_list, pic_video_handle | queues from the algorithm thread; emptied by `camera_close` | frames shared between queues, the clock, close during a write | no frame or writer used after it was freed |
| **Signal machine link** `sig_service.c` | `sig_fd`, `sig_state`, counters | connect, send from timers, take down, reset | service thread, one thread per timer, TCP thread; almost no lock | descriptor and state are two words, changed apart; closed numbers are reused | the link keeps to its own socket and comes up again |
| **Traffic statistics** `process_nanjing` in `cam_alg.c`, timers of `sig_service.c` | flags of the coils, sums of the lanes (`rt_lane`, `d60`, `jierui_d60`), ring `list_in_out`, `holder[]` | count a car, report and clear at the end of a period | algorithm thread of each camera, a timer per report, the database timer | sums cleared while they are added to, under different locks or none; bytes and bit fields | every car counted once, in the period it passed; reported numbers are those of the period |
| **Websocket and radar** `websocket/ws_service.c` | sessions, ring with one tail each, FixEnQueue queues | callbacks of libwebsockets, ws_send_msg, add_video_data_2_queue | thread of the library, sending thread | oldest tail, sessions that come and go, wake-ups | one ordered stream for every session, payloads freed once |
| **Timers, lists** `common.c` | lists, timer threads | timed_fun, list functions | camera_main is a timed function; the lists hold the watching clients | cancelling a timer that holds a lock | - |
| **Database** `fvdmysql/` | connection | reconnect, insert | - | reconnect after loss | - |
| **Protocol adapters** `ptserver/`, `udp_network.c` | - | send | - | formatting only | - |
| **Configuration** `ini/` | files | load, save | called by the request handlers | - | - |
| **Discovery, log upload** `server/` | sockets | ARP search, log upload | - | independent programs | - |
| **Detection** `alg-mutilthread/`, the wrapper in `cam_alg.c` | network instances | open_alg, run_alg, release_alg | frame_lock | numerical | out of reach |
| **Stream decoding** `camera/camera_rtsp.c` | OpenCV capture | open, get_frame | decode thread | blocks or fails | modelled by its outcomes |

`PROJECT.json` lists each component with its status and every hazard at its line.

## 2. Modules

| Module | Models | Role |
|---|---|---|
| `Fifo` | what the queue promises | abstract specification |
| `Queue` | `queue/queue.c` pointer by pointer | implements `Fifo` (refinement mapping `Contents`) |
| `Queue_proofs` | | theorems about every number of threads and nodes, and the refinement of `Fifo` |
| `YuvRing` | `cam_yuv_list` of one camera | the ring with its cursors and counters |
| `Rings_proofs` | | theorems about every size of the frame ring and of the websocket ring with any sessions, and the refinement of `Broadcast` |
| `CameraControl` | `client_net.c`, `camera_service.c` | the four kinds of threads around `cam_info[]` |
| `CameraControl_proofs` | | theorems about every number of cameras and every order of requests |
| `EventRecorder` | `cam_event.c` for one camera | frames and videos around an event, the recorder against `camera_close` |
| `EventRecorder_proofs` | | theorems about every number of frames and videos, any window, any clock and any meeting with `camera_close` |
| `ClientRegistry` | `tcp_server.c`, lists of `client_net.c` and `common.c`, `SendDataToClient` | connections, slots, descriptors and watching clients |
| `ClientRegistry_proofs` | | theorems about every number of clients, slots, cameras |
| `Broadcast` | what the websocket output promises | abstract specification |
| `WsOutput` | `websocket/ws_service.c`, the macro of `lws-ring.h` | implements `Broadcast` |
| `SignalLink` | the connection in `sig_service.c` | service thread, timers and reset around one descriptor |
| `SignalLink_proofs` | | theorems about every set of descriptors |
| `CarCounts` | `process_nanjing` and the timers for one coil | the counters of a lane between the algorithm thread and the timers |
| `CarCounts_proofs` | | theorems about every ring size and number of cars |
| `DetectorReport` | the 500 ms report of HUAITONG | which camera is reported when, with what count |
| `DetectorReport_proofs` | | theorems about every set of cameras |
| `MCQueue`, `MCYuvRing`, `MCCameraControl`, `MCEventRecorder`, `MCClientRegistry`, `MCWsOutput`, `MCSignalLink`, `MCCarCounts`, `MCDetectorReport` | | small instances for TLC |

An operator whose name ends in `_Bug` is a seeded fault: a plausible slip in the definition
after it. It is used by no specification; replacing the definition by it must make a
property fail, which shows that the property depends on the code.

### Queue

Nodes come from a heap (`heap`), are linked with `next`, and are freed one at a time. Loops
under `q_lock` are one step per turn; the parts the code runs without the lock are steps of
their own: the emptiness test of `ClearQueue` (`ClearTest`), the cut and the frees of
`ConditionDeleteQueue` (`CondTerminate`, `FreeChain`), and the frees of the callers
(`FreeDropped`, `FreeChain` after `CutQueue`). `q` and `det` are history: the nodes in the
list and the nodes a thread has taken out and must still free. A queue is used either with
`EnQueue` or with `FixEnQueue` and one `fix_size`, as everywhere in the code. The callers of
`ConditionDeleteQueue` and of `DeQueue` may be different threads in the model although some
queues have a single consumer in the program: the model allows more. One use is excluded
because it would be wrong: nobody keeps a node of the list that another thread may free
(`event_handle` walks the list without the lock; see `EventRecorder`).

### YuvRing

`SetItem`, `GetItem`, `ClearItem` and `Close` are the functions of `camera_service.c`, each
under `data_lock` and so one step. Pixels are reduced to the **age** of a frame, the number of
frames written after it up to `DataSize`. `NextLoop` keeps the code's arithmetic: the loop
counter advances by one per frame, by two when the writer wraps, modulo 100. In one place the
code's counter reaches 101 before the modulo; only its value after it is visible under the lock.

`LoopGuardIdle` states what the test on that counter does: nothing. The comment at `camera_service.c:161` has it there so that
an old frame is not read after a newer one. That disagrees with the code: theorem `GuardNeverRefuses` proves that the
test refuses no valid frame, and once the writer has lapped the reader, the slot it overwrote is read before the older one after it. `InOrderWhileAligned` therefore
speaks of the time before an overrun, and is violated without that condition.

### CameraControl

`main` is the timer thread (`main.pc` is the place in `camera_main`, `camera_close`,
`camera_open`), `tcp` the thread of `handle_buffer`, `decoder[c][k]` and `process[c][k]` the
decode and algorithm threads of camera `c`. A thread has a number `k` so that one whose handle
was overwritten can go on running. Every access to shared state that another thread can observe
in between is a step: a request saves the configuration (`SetAlg`, `DelCamera`, `SetEvent`) and
then writes `cmd_fd`, `curr_stat` and the command word in the code's order (`TcpFd`,
`TcpStatus`, `TcpCtrl`), which differs for a delete. `camera_close` and `camera_open` are
twelve and five steps. `pthread_cancel` followed by `pthread_join` ends a thread wherever it is;
if that is the `send()` of `SendDataToClient`, `client_sock_lock` stays locked (`EndInSend`).

Abstractions: the ring is one flag `ready`; a stream either delivers, fails to open, fails to
deliver or delivers an empty frame (only for cameras in `Unstable`); the configuration is its
video type; `buf`, `alg` and `yuv` say which memory is allocated; `holds` is history. The
waiting time of `camera_close` may always pass (`CloseWait` is never blocked); the code waits
for the decode thread only, never for the algorithm thread.

A request is accepted whenever `curr_stat` allows it (`Accepts`), as in `client_net.c:517` and `:592`: also while the
request before it is unfinished, and a delete or an event also for a camera that does not exist (`client_net.c:582-600`). What the code then does is modelled as it is.
Two histories say what was asked. `asked` holds the cameras whose last request was not answered yet. `disorder[c]` counts the requests for camera `c` from the first one out of
order on: one that overtakes a request for `c` that is neither answered nor done with, or a delete or event for a `c` that does not exist. `Orderly(c)` is
`disorder[c] = 0`, and the properties are about such cameras. That is a condition on what was asked, not on the program, and each camera has its own: nothing asked for other cameras, in whatever order, takes away what is promised to an orderly one, except its GPU
place. A camera that finds none counts as disorderly from then on; `GpuExact` shows that this takes a disorderly request for some camera. `MaxDisorder` bounds the disorder for TLC; the theorems hold for any bound.

For a disorderly camera the promises fail, and TLC finds each of them violated when `Orderly` is taken out: an OPEN on top of running threads leaves a decode thread behind an overwritten
handle, and another that finds `have_frame_size` set copies through a NULL pointer; a second delete gives back the GPU place of another camera (`camera_service.c:775`);
an event for a deleted camera starts it, and the next SETALGPARAM gets past the limit (`client_net.c:523`). `GpuExact` needs all cameras to be orderly for that reason.
What a thread does to the memory of the whole program after it used a freed buffer is not modelled.

Assumptions about the environment:

- the configuration read at start holds at most `CAMERA_RUN_MAX` cameras: this program saved it;
- a place on a GPU for every configured camera: `PlaceAssumption`, 100 cameras on 50 slots of two (`g_define.h:65`, `:75`, `:76`);
- a decode thread has read its camera number, which `camera_open` passes by the address of a
  parameter, before `camera_open` returns. If it does not, its behaviour is undefined.

### EventRecorder

`AddFrame` is `add_event_list` in the algorithm thread. The recorder `pic_video_handle` does one frame
in the steps `Look` (the test of `exist` and `close_flag`, remembered in `passed`), `Take` (DeQueue and the time) or `Miss`, `Keep` (`frame_in_5s_handle`), one `File` for each turn of the
loop of `file_list_handle`, one `Event` for each call of `event_handle`, and `Done`. `CloseBegin` to
`ClearFile` are what `camera_close` does to the recorder (flag set, threads joined, flag reset, three
queues emptied one after the other), `Open` is `camera_open`; when they happen is left free, as
`CameraControl` has the conditions. The three queues are sequences, which is what `Queue` is shown to
implement. A frame is a number in order of delivery; the frame of a picture, of a node or of a writer
is its number in `frames`, `nodes` or `writers` as long as that memory is allocated. `videos` is history: the
frames written to each video, its time and the first frame that could belong to it.

`camera_close` meets the recorder wherever it stands: `close_flag` is tested once per frame and is reset (`camera_service.c:835`) before the queues are
emptied (`:844-846`), so the recorder may be in the middle of a frame then, or take one it looked for before. `late` is the history of that. The operator may set the
clock back at any time (`SetDate`); `shifted` says that it happened while a video was open or the recorder was on a frame.

Either can lead to the use of freed memory: the recorder writes a frame that `camera_close` has freed, or `file_list_handle`
(`cam_event.c:402-409`) dequeues the front node and frees the one it stands at, which are different nodes when the list is no longer in the order of time. TLC reaches both. Such a step ends
in `pc = "broken"` (`Break`), after which anything may happen and nothing is modelled. The properties say what is left: `FramesExact` and the writers of `FilesExact` are kept
up to that point without any condition; the nodes of `FilesExact` need the clock only; `NothingDangles` says that it takes one of the two for freed memory to be used; and what is
written to a video (`NoGap`, `Covers`) is promised when neither happened. Unlike the queues, `IsEmpty` and `GetFront` of a list only the recorder uses are not separate steps.

### ClientRegistry

The TCP thread (`pc`, `ready`, `req`) is the loop of `init_tcp_server`: `Select`, one `Recv` per ready slot,
the handler of the request, then `Accept`. The algorithm thread of camera `k` (`at[k]`, `sending`) is
`list_operate_node_all` with `client_send_udp`: it holds the lock of the list while `at[k] > 0` and
`client_sock_lock` from `SendBegin` to `SendEnd`. A connection gets a number of its own and a **descriptor**
from the table `owner`, lowest first; a closed one goes to the next client, which is what makes a stale number in a
list dangerous. `add_client` is three steps as in the code: the node of zeros is appended under the lock, the camera and
the descriptor are filled in without it. `del_client` searches list after list (`DelNext`) and deletes one node
(`DelEnd`). What a client sends is a sequence of headers and bodies; a `set` announces a body, which stands for every
request with data. `asked` and `stray` are history: what the client asked for and did not stop, and who stopped camera 0
without watching it. Connections are reused never, descriptors always; the answers to requests are left out.

### Broadcast and WsOutput

`Broadcast` is one stream: sessions join and leave, messages are published for all who are there, each session is given the
next message it has not got, and a message is forgotten only when no session needs it. `WsOutput` is the code: a ring with
`head`, `oldest` and one `tail` per session. The callbacks run in the one thread of libwebsockets (`Established`, `Closed`,
`Writeable`, `Receive`, `WaitCancelled`), `Turn`, `Test` and `Send` are the sending thread, which looks at `pss_list`
before it takes `lock_ring`. `asked` holds the sessions for which `lws_callback_on_writable` was called, `cancelled` is the
wake-up by `lws_cancel_service`. The library itself is external, except for the macro
`lws_ring_consume_and_update_oldest_tail`, whose source is in the repository (`Consume`, `Furthest`). The mapping takes the part of the
ring between `oldest` and `head` for the messages kept, and the distance of a tail from `head` for what a session has
still to get. The definitions `WsInit`, `WsNext`, `WsSpec`, `WsFairSpec` and `WsSlots` carry a prefix because `Rings_proofs` extends
this module and `YuvRing`.

### SignalLink

`sig_fd` and `sig_state` are the two words, `use` says what each descriptor number is: a socket of the link that is new,
linked or broken, or another thread's. `service` is `sig_service_thread`, which tests the state (`Poll`) and then the descriptor (`Look`), creates and connects (with a
second's sleep between) and sets `CONNECTED`. Without a port (`port`, `sig_service.c:972`) it skips `connect_sig` and announces a socket that was never connected.
`timer[t]` is a timed function that tests the state, sends, and on an error
closes, clears and sets `PRE_CONNECT`, in that order; `tcp` is `reset_sig_machine`, which may change the port (`SetPort`). A call gets the number its thread has read, not
the variable. `counting` says whether a camera that exists has `detecttype` 2. Without one the reports of queues and flow send nothing, and their length of 0 is taken for
an error (`sig_service.c:1273`, `:1307`; `Empty`): the timer closes a working link every second, and the service opens it again. `peer` is the signal machine: up, gone, or stuck, when it does not
read and a send ends after 500 ms with an error on a healthy socket.

Two timers stand for all: in NANJING all hold `mutex_lock` from the test to the end; in HAIXIN the
realtime timer holds `yhl_mutex_lock` around the send as well, and the timer of cars going in and out holds only that one, and tests
the state before it. One timer turn sends once; the radar timers of HAIXIN send once per camera. `Protocols` is the set of protocols to start with: the run has NANJING,
for which the properties are; of HAIXIN speak only the theorems `LinkTypes`, `SendersApart` and `ResetLeavesState`.

### CarCounts

One coil of one lane. `alg.pc` is the place in `process_nanjing`: `Detect` sets the flags of the frame (the first loop),
`Copy` takes them for the ring, `CountStatis` adds to the lane's statistics under `radar_cam_realtime_data[].mutex_lock`,
`Count60s` and `Write60s` are the reading and the writing of `pass_number++`, which has no lock, `AddJierui` and `AddInOut` hand the frame to
the buffer of JIERUI and to the ring. The flags are not under a lock either: the upload of NANJING tests `out_car`, sends, and
clears it in three steps, and the algorithm thread reads it again at `CountStatis` and `Count60s`. `statis` is the timer of the database,
`flow` that of the period, `TakeJierui` and `TakeInOut` are the functions that empty buffer and ring, each under its lock and so
one step. What the algorithm says of the coil (`flag`) is free. `hist` counts what went where.
Protocols without a timer of their own here (`HUAITONG`) are in `DetectorReport`; the second coil of a lane is added to the same way.

### DetectorReport

`timer` is the callback of 250 ms: `Poll`, then for every camera in order a first sample (`FirstSample`, the scan goes on) or a second one
(`SecondSample`, the scan ends and the camera is reported), then `Copy` and `Clear`. `holder[].status` is the number of samples.
`alg[c]` is the `flow++` of the algorithm thread of camera `c`, which holds `sig_data_lock`, in two steps; a sample needs that lock, but
copying and clearing the row do not take it. `flow` has two bits. `Link` is everything that opens or closes the socket,
`Change` adds or deletes a camera without touching its status. `owed` is the number of cars not yet reported, modulo four.

`Cadence` states how often a camera is reported: the one of rank `r` every `2^r` polls, that is every 500 ms, every second, every two seconds, and so on. The comments at
`sig_service.c:1906` and `sig_service.h:631` say every 500 ms; that disagrees with the code for every camera but the first. `CadenceKept` proves the pace the code has.

## 3. Runs

| Run | Bounds | Shows |
|---|---|---|
| `queue` | 2 threads, 3 nodes, times 0..2, `FixSize` 2 | the list stays intact, no node shared, freed twice or leaked; the bound of `FixEnQueue`; refinement of `Fifo` |
| `yuv_ring` | the real ring size 3 and modulus 100, 3 clears or closes | frames are recent, and in order while aligned; the reader is never stuck |
| `cameras` | 2 cameras, limit 1, 2 GPU slots, up to 2 requests for camera 0 from the first one out of order on | count, limit, GPU places, threads and buffers agree for the cameras whose requests came in order, and camera 1 does not suffer from what is asked for camera 0 |
| `camera_env` | 1 camera, unstable and watched, network and file, all requests | configuration in effect, commands carried out, frames flow again |
| `event_recorder` | 3 frames, 2 videos, 3 seconds, window 1, queue of 2, one closing with the recorder anywhere, clock set back once at any time | no picture, node or writer is lost or freed twice, what it takes to use a freed one, videos have no gap and hold the whole window, no frame stays in the queue |
| `client_registry` | 3 connections, 2 descriptors, 2 cameras, 2 slots, limit 2, 2 messages | slots, descriptors, lists and requests agree |
| `client_served` | 2 connections, 2 cameras, 2 messages | messages are read, connections accepted, slots given back, watchers served |
| `ws_output` | 2 sessions, ring of 4 | payloads freed once, one ordered stream for all (refinement of `Broadcast`), what was inserted is sent |
| `signal_link` | NANJING, 3 descriptors, 1 reset, 1 break, with and without port and camera that counts | the link keeps to its own socket before a reset, and comes up again |
| `car_counts` | protocols NANJING, HAIXIN, JIERUI, 2 cars, ring of 2 | database rows and JIERUI sums have every car once (in NANJING but for cleared flags), uploads are not doubled, the ring keeps its order, entries alternate with exits |
| `car_total` | the same | *violation*: the periods of HAIXIN lose and double cars |
| `detector_report` | 3 cameras, cars at one, 2 cameras added or deleted | reports have every car unless it came in between copy and clear; every camera is reported again and again |

The type invariants of `Queue` and `EventRecorder` are conjuncts of `HeapExact` and `FramesExact`, and proved with them; those of the modules with proofs are
theorems.

**Why the bounds are enough.** `queue`: three nodes give a list with a front, an inner and a
last node, and a queue of size two that is full; two threads give every pair of overlapping
operations, and no operation looks at a third thread. Three times and a window of one give
timestamps before, inside and after the window. `yuv_ring` has the program's own numbers; the
requests are bounded at three since after one clear and one close the cursors have been in
every relative position. `cameras`: the limit and the slots are met with two cameras (one too
many, order of service against order of requests); `MaxThreads` 3 lets a disorderly camera have two threads of each kind behind overwritten handles; an open that would need a fourth does not
happen. Two requests from the first one out of order on are an event for a deleted camera and the SETALGPARAM that follows it, two deletes, or a request on top of another. `camera_env`: one camera, because the fields its properties relate
are those of one camera; the others can only delay `camera_main`. Its requests come in order (`AllOrderly`), since the three properties say nothing of the camera
otherwise. `NoFrameMax` is 1 instead of
20: the counter is compared only with its maximum. `event_recorder`: the recorder compares two times at a
time, so three seconds give a frame before, inside and after a window of one second (5 in the code; the
window enters only as `t + Window < now`). Two videos overlap, with a front and a last node of the
list; three frames fill the queue of two while one is worked on. One closing meets the recorder at every place of its
turn, and the camera may be opened and get frames again after it. `client_registry`: a third connection meets the limit, or a descriptor and a slot used before; two messages give a start and
its stop, two watched cameras, or a request and its body, by one client or two; the theorems hold for all values. `client_served`: two
clients and two cameras compete for `client_sock_lock`, more of either add no new way to wait. `ws_output`: four slots give a ring
that is empty, partly read, full and wrapped, with tails apart; more sessions add tails between two others. Serial numbers modulo
five tell all messages in the ring apart. `signal_link`: port and cameras change at any time; the link can lose two descriptors in the races of one
reset (its socket and one opened meanwhile), the third is another thread's. `car_counts`: two cars are one that is being counted or
cleared and one that came before or comes after; an item goes into the ring at every frame, so a ring of two is empty, half full, full and wrapped; the
theorems hold for all values.
`detector_report`: three cameras have statuses with three digits; cars at one of them, the second, since no step relates the counts of two cameras; two changes
remove a camera that is in the middle of a report and bring it back.

**Deadlock** is checked in `cameras`, `yuv_ring`, the websocket, link and traffic runs. It is not checked in
`queue`, where a finite heap may be full of nodes nobody asks for, in `camera_env`, where
the program really can stop (when `client_sock_lock` is lost, see below), in `event_recorder`, where nothing is modelled after freed memory was used, nor in `client_registry` and `client_served`, where the clients may have
spent their connections and messages.

**Fairness.** `FairSpec` asks that every thread that can take a step takes one (weak fairness of
`MainStep`, `TcpStep`, `DecodeStep(c, k)` and `ProcessStep(c, k)`): they are preemptively scheduled
POSIX threads, and all waits in them are bounded (`sleep`, `usleep`, the fifteen seconds of
`camera_close`) except for locks. Nothing is assumed of operators, who may stop asking, nor of
streams: `FramesFlow` speaks of cameras whose stream stops failing in the end. In `YuvRing` a
camera that is open delivers frames (`SetItem`) and the algorithm thread polls (`GetItem`).
In `EventRecorder` the recorder and the timer thread are
scheduled (`RecStep`, `CloseStep`) and a deleted camera is closed, which is `CommandsCarriedOut`; nothing is
assumed about the clock or about opening. `CommandsCarriedOut` and `FramesFlow` are conditional on `Undisturbed`: `[]<>~sock_lock`, since
the lock can be lost and then nothing is carried out any more, and requests in order.
In `ClientRegistry` the threads are scheduled and a mutex that is free again and again is got in the end (strong fairness of
`TcpStep` and `SendBegin(k)`): between two frames an algorithm thread holds none. Of the clients it is assumed that one that
has sent a header sends its body or leaves, and that one that is connected reads or leaves; without the second a single
client stops all cameras, since `SendDataToClient` repeats on EAGAIN with the lock held. In `WsOutput` the thread of the library and the
sending thread go on, and the socket of a session that asked becomes writable (`Writeable(s)`); sessions need not come, nor data. In
`SignalLink` service, reset and timers are scheduled, the timers with strong fairness because they wait for locks;
`LinkRecovers` supposes that the signal machine accepts and reads for good from some time on, that a port is set and a camera counts, and nothing of other threads but
that they do not take the last descriptor. In `DetectorReport` the timer is scheduled, with strong fairness because it waits for `sig_data_lock` with each sample, and the
algorithm thread finishes its `flow++`; that cars come is not assumed. `Reported` speaks of a camera that is configured for good from some time on, with the link
up; the number of added and deleted cameras is bounded, without which a camera before it could be deleted and added between its samples for ever.

**What the code does that differs from what its comments say.**

- `cam_alg.c:517` (violation run `car_total`): the sums of a period are added to without a lock and
  cleared by a timer that holds one the algorithm thread never takes. A car counted between the reading and the clearing is lost, and a `pass_number++` across the clearing
  reports the period's cars again. `cam_alg.h:100` calls `pass_number` the total of the vehicles that passed, and the comments `//lock` stand where no lock is taken.
- `camera_service.c:161`: the loop counter of the ring is there so that an old frame is not read after a new
  one. It never refuses a frame (theorem `GuardNeverRefuses`), and once the writer overtakes the reader an older frame does follow a
  newer one: with three slots, the slot overwritten last is read before the two older ones after it.
- `sig_service.c:1906` and `sig_service.h:631` say that HUAITONG is sent a report every 500 ms. A poll (`sig_service.c:3324`) ends with the first camera that has its two samples, and the cameras before it
  have then taken a first one, so this is true of the first camera only: the second is sent every second, the third every two (theorem `CadenceKept`).

The last two have no violation run; the theorems say what the code does for all sizes, and TLC finds the comments' claims violated: the order of reads after eight states
of `YuvRing`, the 500 ms with two cameras.

**Other behaviour met while modelling:**

- `camera_service.c:782` waits until locks are released, but only for the decode thread; the algorithm thread may be cancelled inside `send()`, and
  `client_sock_lock` is then never released: `camera_main` and all decode threads block at their next answer (`EndInSend`; hence `[]<>~sock_lock` in the liveness properties);
- `ws_service.c:485`: a session that closes does not move the oldest tail of the ring, as `lws-ring.h:199` demands. When it was the one at the oldest tail and the
  ring is full, nobody stands there any more: `ws_send_msg` drops everything and wakes nobody, for the sessions that remain and for new ones. `Delivered` therefore
  speaks of sessions that have been called;
- `sig_service.c:1395`: `calculate_60s` divides the sum of speeds by the flow of the period before, which it replaces afterwards; there and at line 1435 the cast to a byte
  binds to the sum and not to the quotient; at line 1392 the percentage is that of 60 s although the operator sets the period. Speeds and occupancy are not modelled;
- `client_net.c:526`: the limit counts configured cameras. A deleted camera is no longer counted but runs until its CLOSE is
  carried out, and `camera_main` serves cameras in index order: for a while `CAMERA_RUN_MAX + 1` cameras may run;
- `camera_service.c:1129`: the test that kept a restarting camera from being opened again is commented out; `curr_stat`, the
  remaining gate, is overwritten by the decode thread, and the answer is sent before `cmd_fd` is cleared, so a request can overtake the one before it: a camera is
  opened on top of its running threads, or a command word is overwritten by the next one;
- `client_net.c:582-600`: a delete or an event for a camera that does not exist is carried out. It gives back the GPU place of another camera
  (`camera_service.c:775`), and the event starts the camera and takes it past the limit with the next SETALGPARAM. `ThreadsKnown`, `BuffersLive`, `ExistWithinLimit`, `ExistingRun`,
  `ConfigInEffect` and `GpuExact` fail for such a camera, and without `Orderly` altogether;
- a FILE_PLAY_START that arrives while a file camera is being reset to a network stream leaves
  `file_start` set: the camera then never delivers (the test `0 >= 0` on the frame numbers). This
  is why `FramesFlow` requires `~file_start`;
- a RESET posted while `camera_main` is still loading the networks for the previous RESET is taken for
  the one just done (`Left`, `camera_service.c:1162`) and dropped: its requester is
  never answered and its configuration waits for the next command. `ConfigInEffect` therefore speaks of cameras whose last request was
  answered (not in `asked`);
- a camera that cannot be opened for lack of a GPU place stays `CAM_OPENING` for ever;
- `camera_close` sets `CAM_RESET_NONE` before it answers, so the answer can go to the next requester;
- `camera_service.c:835`: `close_flag` is reset before the queues are emptied. A recorder that is on a frame then writes it after it was freed, goes on over an
  emptied list, or puts the frame into a list just emptied, where it stays until the camera runs again (`late`; the 200 ms sleep at `:822` makes it rare, not impossible);
- `cam_event.c:403`: `file_list_handle` repeats the test of `ConditionDeleteQueue` that handles an adjusted system time, but dequeues the front node while it frees
  the value of the node it stands at. After the clock was set back with a video open these are different nodes, and a freed one is used later (`shifted`);
- `sig_service.c:972`: without a port the link is announced as connected on a socket that never was; the next send fails and closes it, and so on every second;
- `sig_service.c:1273`, `:1307`: while no camera has `detecttype` 2, a working link is closed and opened again every second;
- the socket of a client that leaves while it watches a camera is never closed: `del_client` returns 0 and the close is
  skipped; its nodes for other cameras stay for ever. This keeps its number from being reused while a list has it, which is why
  `NodesOwned` holds, at the price of a descriptor per client;
- a connection over the limit is accepted, gets no slot and is not closed; `clear_socket` may then free a slot, but nobody looks at that connection again;
- a client that leaves in the middle of a message may leave the TCP thread spinning: the end of the stream does not set `errno`
  (`pc = "spin"`, which `Heard` exempts);
- a SHUTDOWN of camera 0 by a client that does not watch it deletes its node of another camera (`stray`);
- a new websocket session gets the old messages the ring still has, and is not called before the next insertion;
- in HAIXIN, or with resets, the link does lose sockets open, sends to and closes numbers of other threads, and in HAIXIN two timers
  and the service can undo each other's work again and again: `OneSocket`, `ForeignUntouched` and `LinkRecovers` say
  for which part of the program they hold;
- in NANJING the upload may clear the flag of a car before `process_nanjing` counts it: the car is missing from the database (`StatisExact` bounds by how
  much). Without a connection the flag is cleared all the same and the car is not uploaded;
- every protocol fills `list_in_out`, only HAIXIN empties it; elsewhere it is full after 50 frames and drops every item;
- an entry or exit taken from the ring without a connection is lost, which `EntriesAlternate` exempts;
- `flow` of HUAITONG has two bits: the test for more than three never holds, four cars between two reports are none;
- a car that leaves a coil without having been seen to enter has no entry time, and its stay is the whole clock (`cam_alg.c:256`);
- `holder[i].last_time` is written with `i` not set (`sig_service.c:3268`); nothing reads it.

## 4. Proofs

TLAPS checks these for every value of the constants the assumptions allow.

| Module | Theorem | Says |
|---|---|---|
| `Queue_proofs` | `ListCorrect` | `ListIntact`: from `front` the pointers run through one list to `rear` |
| | `HeapCorrect` | `HeapExact`: every node has one owner, nothing freed twice, used afterwards or lost |
| | `FixBounded` | `FixBound`: `FixEnQueue` keeps the bound |
| | `Refinement` | `ImplementsFifo`: `Spec` implements `Fifo` |
| `Rings_proofs` | `TypeCorrect` | cursors and counters in range |
| | `Invariant` | the inductive invariant `IInv` |
| | `Freshness` | `Fresh`: a readable frame is one of the last `DataSize` |
| | `GuardNeverRefuses` | `LoopGuardIdle`, for `DataSize + 2 < 100` |
| | `Alignment` | `Aligned`: without overrun the unread frames are those between the cursors |
| | `InOrder` | `InOrderWhileAligned`, an action property |
| | `RingPayloads` | `PayloadExact`: slots of the websocket ring have a payload exactly between the oldest tail and the head |
| | `StreamImplemented` | `ImplementsBroadcast`: `WsOutput` implements `Broadcast`, for any ring and sessions |
| | `NoWakeupLost` | `Woken`: a session that a message was inserted for and that has something to get has asked to write, or the loop is about to be woken |
| `CameraControl_proofs` | `TypeCorrect` | types of all variables, at most `GpuItemMax` cameras per slot |
| | `CountCorrect` | `cam_num` is the number of cameras that exist |
| | `LimitKept` (*) | `ExistWithinLimit` |
| | `PlacesCorrect` (*) | `GpuExact`: the counts of the GPU slots are those of the cameras, none overflows |
| | `HandlesKnown` (*) | `ThreadsKnown`: no thread behind an overwritten handle |
| | `BuffersCorrect` (*) | `BuffersLive`: threads use allocated memory only |
| | `ConfigCorrect` (*) | `ConfigInEffect`: an answered operator finds his configuration in effect |
| | `RunningCorrect` (*) | `ExistingRun`: at rest a camera runs exactly if it exists |
| `EventRecorder_proofs` | `FramesCorrect` (**) | `FramesExact`: a frame is allocated exactly while it is used |
| | `FilesCorrect` (**) | `FilesExact`: the same for the videos, their nodes and writers |
| | `RunsCorrect` (**) | `NoGap`: a video has its frames without gap, in order, once |
| | `CoversCorrect` (**) | `Covers`: a video that was not cut off has its whole window |
| `ClientRegistry_proofs` | `RegistryTypes` | types, one holder of `client_sock_lock` |
| | `SlotsCorrect` | `SlotsExact`: count, slots, descriptor set and open descriptors agree |
| | `WatchersCorrect` | `NodesOwned`: lists name open descriptors of clients that asked, each once |
| | `WatchCorrect` | `WatchExact`: a client watches what it asked for and did not stop |
| `SignalLink_proofs` | `LinkTypes` | types of all variables |
| | `SocketKept` | `OneSocket` |
| | `OthersLeftAlone` | `ForeignUntouched` |
| | `SendersApart` | `LocksExact`, `OneSender`: timers hold the locks of their places, and one sends at a time, in both protocols with any resets |
| | `ResetLeavesState` | `ResetEnds`: the state in which nobody acts stands only during a reset |
| `CarCounts_proofs` | `Types` | types of all variables |
| | `StatisCounts` | `StatisExact` |
| | `Uploads` | `UploadedOnce` |
| | `JieruiCounts` | `JieruiExact` |
| | `RingKeeps` | `RingExact`, for any size |
| | `EntriesInOrder` | `EntriesAlternate`, for any ring and any number of cars |
| `DetectorReport_proofs` | `Types` | types of all variables |
| | `FlowReported` | `FlowExact`, for any cameras |
| | `CadenceKept` | `Cadence`, for any number of cameras |

(*) under `Polite`: with `Polite = FALSE` TLC finds each of the six violated (section 3 says how). (**) under `~Overlap` and
`ClockBack = "quiet"`, the two constants of `EventRecorder` that name its assumptions: with `Overlap` a frame is freed in the
recorder's hands and a loop goes on over an emptied list; with a clock set back at any time a video that is due need not be the first of the list,
`FilesExact` and `Covers` fail, and what follows is the use of a freed node. The runs check the theorems' hypotheses on
instances where they hold; the other assumptions are those of the constants in the modules.

**The queue.** An invariant about the pointers alone is not inductive, since `DeQueue` and the cut of `ConditionDeleteQueue` leave pieces of the list in the
hands of a thread. `Own` says who has to free a node: the list or exactly one thread. `List` and `Detached(t)` say that `next` runs through each of these
pieces (`Linked`), where it ends, and for every place of a thread where its `cur` and `last` stand. Each action is then one of four moves of nodes, each with
its lemma: to the list, from it, the whole of it, and back to the heap (`OwnAdd`, `OwnMove`, `OwnMoveAll`, `OwnFree`), and `Implied` gets
the three checked invariants from `IInv`. `Refinement` maps an insertion and each removal to `Fifo`'s, and every other step to a stutter; `ValsSame` is that
freed memory does not matter. What `Contents` reaches by following pointers is a recursive function, and the induction theorems are out of reach; `HopsFollowList`
argues from the least place where the pointers would leave the list (`WFMin`).

**The ring.** `Fresh` is not inductive: whether a slot stays fresh depends on when the writer comes
back to it. `Placed` gives every valid slot the age its distance behind `i_write` implies, and the
loop count stored there the value `i_wloop` had then; `Aligned` gives the window of unread frames
when there was no overrun, and `Ordered` says that all of them are newer than what was read.
`IInv` is the conjunction with `TypeOK`. Each action moves the window at one end only, which is the
content of `PlacedAfterSet`, `AlignedStep` and `OrderedStep`. `GuardNeverRefuses` follows from
`Placed`: at most `DataSize + 1` counts lie between the stored and the present counter, and one wrap of
the modulus cannot make up the difference.

**The websocket ring.** `PayloadExact` needs with it only the types and `Newcomers` (who is not connected has been given nothing); `WsInv` is the three. What is
hard is the arithmetic around the ring. `DistIsRemainder` replaces every remainder by a distance, `Dist(a, b)`, which is a sum by cases, and the actions are
then about distances from `head`: an insertion adds one to each of them (`InsertPlaces`), and a served session gets one nearer. The
library moves the oldest tail to the furthest tail of the live sessions. That there is one, for any set of sessions, is the least-number argument
(`FurthestIsFurthest`, from `WFMin`), since the set need not be finite and nothing counts it. `ConsumeMoves` says what this frees: the places the oldest tail passes, and no others.
A session that closes leaves the oldest tail where it is; the invariant asks that tails are not beyond it, not that one is there.

`StreamImplemented` maps each step: `Established` is `Join` with everything kept still to get, `Closed` is `Leave`, an insertion is `Publish`, `Write` is `Serve`, where the number of messages
forgotten is the number of places the oldest tail moves; every other step leaves the four mapped variables alone. `KeptAppends` and `KeptLoses` say that
the part of the ring between `oldest` and `head` behaves as a sequence. `Woken` is the safety part of `Delivered`: what remains for fairness is that the callback
that is due is called. It holds since the loop asks again while messages are left and since an insertion sets `cancelled` after it; a session that has just come is not in `told`.

**The cameras.** `TypeCorrect` is proved per thread (`MainType`, `TcpType`, `DecodeType`, `ProcessType`),
each from `FieldUpdate`: a record of `CamInfo` stays one when a field gets a value of its type. The GPU
count is the only part that needs the guard of an action (`Room`). `CountCorrect` uses
`TypeCorrect`, the finite-set theorems (`CountStep`) and the guard `exist[c]` of a delete. These two hold for any operators.

The other six need the whole protocol of a request, and have one inductive invariant, `IInv`. For each camera, `CamOK` has
four parts. `Shape` is a table: at each step of `camera_close` and `camera_open`, which of threads, GPU place, instance and
`open_alg` the camera in hand has. `ThreadOK` ties threads, handles and buffers together, also for a thread that is still
answering. `OrderedOK` is about a request `camera_main` has not taken: it comes from an operator who waits, asks for what `exist` says,
and overtakes `camera_main` only after the answer to the request before. `SettledOK` is about a camera without such a request.
A camera a step does not touch is dealt with once (`Alone`, `OtherCam`); the steps of `camera_main` have one lemma each. That
`camera_open` finds a GPU place (`PlaceLeft`) is a pigeonhole argument over the slots: with `PlaceAssumption`, were all full, all
cameras would hold one. `LimitKept` needs that `cam_num` is not only counted right but tested before a camera is added.

**The recorder.** The frames that wait, the one in hand and those of the last seconds are consecutive numbers: `FeOK` and `KeptOK` say which, and
`HeapOK` that these are the allocated ones. `FilesOK` says that the open videos are listed in the order of their times and that those
before the one in hand are not due, so that the first due one is the front: the node the loop stands at is the one `DeQueue` frees.
`RunsOK` gives the last frame of every open video, which makes the next one fit. `EventsOK` keeps the number of videos within its
bound. `TakenOK` and `CoversOK` are the argument for the window: a frame that is kept no longer, or a video that is closed, is out of
the window of everything that comes later, because times do not go back while a video is open.

**The clients.** None of the three invariants is inductive alone. `ReqOK` adds what the TCP thread knows of the slot it works for at every
place, `OwnerOK` that a connection has one descriptor and a connection in the backlog none; with them a slot that is being cleared is
the slot of the request, and the descriptor `DelEnd` leaves open is exactly one that a list still names. `IInv` is their
conjunction with `TypeOK`; the lemmas follow the actions of the TCP thread one by one. The count of slots uses the finite-set
theorems.

**The link.** `IAlone` says for every place of service and timers what `sig_fd` is: `New` while the service connects, `Up` while
the link is announced, `Gone` between close and clear. The state word decides whose turn it is: only the service announces
CONNECTED, only a timer takes it back, as its last step, and `mutex_lock` keeps the second timer out (`ILock`).
`AloneBefore` shows that a step that ends before the first reset also began there.
`LocksExact` needs no condition: in both protocols the place of a timer says which locks it has. `OneSender` follows since a timer that sends has the lock around the send, which all timers share.
So what goes wrong in HAIXIN or with resets (section 3) is between a timer and the service or the TCP thread, or a timer and a state it tested before it had the lock, never
between two timers that both send. `ResetEnds` says that the link does not stay in the state `NULL`, which no thread but a reset leaves.

**The cars.** Each counter has an equation of its own: what was counted, what was taken, and `Pending`, the car that has been seen and not yet counted here. The
equation of the database rows needs that the row being written is what the lock protects; that of NANJING, that the upload clears a flag once per car it may have taken
from the count, which needs to know that a car can be uploaded only while its flag stands (`IUpload`). The ring is proved with its modular arithmetic for every size:
putting in leaves the items before it where they were, taking out moves the first index. `EntriesInOrder` follows entries and exits along their whole way
(`IAlternate`): the coil, the frame in hand, the ring, the last one told. Between two entries anywhere on the way there is an exit; `Left` says
that everything told or waiting has its exit behind it when the next car enters.

**The report.** While the row is copied and not yet cleared it equals `flow` unless a car comes in, which `overlap` records (`RowHolds`); a `flow++` in progress has read the value
that is still there unless it was cleared in between (`ReadHolds`).
For `CadenceKept` the statuses at the start of a poll (`Before`, the same at each of its steps) are the digits of a number that every poll counts down by one. `Waits(w)` gives each camera the number `w[c]` of the poll that
will reach it: a camera with a sample keeps the next one waiting for a turn, `Turn(c)`, longer. `Due(w)` adds to it the polls since the camera was sent and, when it has no sample yet, one
more turn: never more than two turns, which are `2^Rank(c)`. `PollEnds` shows that a poll moves each camera by one in this account. The provers know nothing of powers; `Powers` gets what is
needed from the number of subsets of a finite set.

**Only model-checked:** liveness (`ReaderServed`, `CommandsCarriedOut`, `FramesFlow`, `FrameLeaves`, `Heard`, `Streamed`, `Delivered`, `LinkRecovers`, `Reported`), which is beyond the
proof system. Every invariant, action property and refinement of the passing runs is a theorem. `Woken`, `LocksExact`, `OneSender` and `ResetEnds` are stated beside their
proofs and not in a run; TLC finds them true on the instances of `ws_output` and `signal_link`.

## 5. Plan

Done: `Queue` and `Fifo`, `YuvRing`, `CameraControl`, `EventRecorder`, `ClientRegistry`, `WsOutput` and `Broadcast`, `SignalLink`, `CarCounts`
and `DetectorReport`, with
their runs and the theorems above. What is left, in order:

1. Answers as messages in `CameraControl`: who gets the answer to which request.
2. The change of protocol (`protocol_change`): timers cancelled and started around `SignalLink`.
3. Escaping of messages in `sig_service.c` as a pure operator checked against its inverse.

## 6. Not modelled

Detection (`alg-mutilthread/` and its wrapper in `cam_alg.c`) is numerical and one step of the control. Database, configuration
files, protocol adapters, discovery and log upload are input and output without state that other threads
depend on. Cameras of the picture and SDK types share the code of the network type up to the call that starts
their thread; they are left out of `CameraControl`, as are the requests that only read or save settings.
In `sig_service.c` the contents and the escaping of messages are data. Of the statistics, left out are the speeds, lengths and occupancy, the pedestrian areas, the sums of five minutes (`d300`, as those of 60 s), the test
values `real_test`, the second coil, queue lengths, lanes beyond those configured, and a database that fails. The change of protocol is not modelled:
`unregist_timed_callback` (`common.c:512`) cancels a timer wherever it is, also in a send with `mutex_lock` held, and the lock is then lost for all
timers; `deinit_sig_service_haixing` does not cancel the timer of cars going in and out. The protocols HUAITONG and
JIERUI have threads and timers of their own; of these only the 500 ms report and the sums of 60 s are modelled. In `websocket/ws_service.c` the merging and tracking of boxes is left out, and the
queues of data are those of `Queue`; a change of protocol replaces the queues while other threads use them. `fvdoracle.c` and the Oracle branches are compiled out (`ORACLE_VS 0`).
