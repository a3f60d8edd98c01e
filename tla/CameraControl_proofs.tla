------------------------ MODULE CameraControl_proofs ------------------------
(* What holds of the control of the cameras for any number of cameras,       *)
(* threads and operators, and in every order of requests: types and the      *)
(* count of the cameras always, the rest for each camera as long as its own  *)
(* requests come in order, whatever is asked for the others.                 *)
EXTENDS CameraControl, TLAPS, FiniteSetTheorems

\* The states the program starts in are well typed.
LEMMA InitType == Init => TypeOK
<1> SUFFICES ASSUME Init PROVE TypeOK
    OBVIOUS
<1> USE CamAssumption, GpuAssumption, ThreadAssumption, EnvAssumption
<1>1. InitCam \in CamInfo
  <2>1. (CHOOSE v \in Vtypes : TRUE) \in Vtypes
    BY Zenon
  <2> QED
    BY <2>1 DEF InitCam, CamInfo, Status, Commands, Gpus
<1>2. cam \in [Cams -> CamInfo]
  BY <1>1 DEF Init
<1>3. cam_num \in Int
  <2>1. IsFiniteSet(Cams)
    BY FS_Interval DEF Cams
  <2>2. IsFiniteSet({c \in Cams : exist[c]})
    BY <2>1, FS_Subset
  <2> QED
    BY <2>2, FS_CardinalityType DEF Init
<1>4. g_gpu_index \in [Gpus -> 0..GpuItemMax]
  BY DEF Init, Gpus
<1>5. /\ decoder \in [Cams -> [Tids -> DecoderInfo]]
      /\ process \in [Cams -> [Tids -> ProcessSteps]]
  BY DEF Init, NoDecoder, DecoderInfo, DecoderSteps, ProcessSteps
<1>6. main \in MainInfo
  BY DEF Init, MainInfo, MainSteps, Cams
<1>7. tcp \in TcpInfo
  BY DEF Init, NoRequest, TcpInfo, TcpTodo, Cams, Commands
<1>8. asked \subseteq Cams /\ disorder \in [Cams -> Nat]
  BY DEF Init
<1> QED
  BY <1>2, <1>3, <1>4, <1>5, <1>6, <1>7, <1>8 DEF Init, TypeOK

\* A record of CamInfo has fields of their types.
LEMMA FieldTypes ==
  ASSUME NEW r \in CamInfo
  PROVE  /\ r.curr_stat \in Status
         /\ r.cmd \in Commands
         /\ r.cmd_fd \in Clients \cup {0}
         /\ r.vtype \in Vtypes
         /\ r.open_alg \in BOOLEAN
         /\ r.open_flg \in BOOLEAN
         /\ r.close_flag \in BOOLEAN
         /\ r.rtsp_fag \in BOOLEAN
         /\ r.have_frame_size \in BOOLEAN
         /\ r.no_frame_num \in 0..(NoFrameMax + 1)
         /\ r.file_start \in BOOLEAN
         /\ r.file_replay \in BOOLEAN
         /\ r.gpu_index \in Gpus
         /\ r.rtsp_thread \in Tids \cup {0}
         /\ r.process_thread \in Tids \cup {0}
         /\ r.buf \in BOOLEAN
         /\ r.alg \in BOOLEAN
         /\ r.ready \in BOOLEAN
         /\ r.holds \in BOOLEAN
  BY DEF CamInfo

\* It stays one when a field is given another value of its type.
LEMMA FieldUpdate ==
  ASSUME NEW r \in CamInfo
  PROVE  /\ \A v \in Status : [r EXCEPT !.curr_stat = v] \in CamInfo
         /\ \A v \in Commands : [r EXCEPT !.cmd = v] \in CamInfo
         /\ \A v \in Clients \cup {0} : [r EXCEPT !.cmd_fd = v] \in CamInfo
         /\ \A v \in Vtypes : [r EXCEPT !.vtype = v] \in CamInfo
         /\ \A v \in BOOLEAN : [r EXCEPT !.open_alg = v] \in CamInfo
         /\ \A v \in BOOLEAN : [r EXCEPT !.open_flg = v] \in CamInfo
         /\ \A v \in BOOLEAN : [r EXCEPT !.close_flag = v] \in CamInfo
         /\ \A v \in BOOLEAN : [r EXCEPT !.rtsp_fag = v] \in CamInfo
         /\ \A v \in BOOLEAN : [r EXCEPT !.have_frame_size = v] \in CamInfo
         /\ \A v \in 0..(NoFrameMax + 1) : [r EXCEPT !.no_frame_num = v] \in CamInfo
         /\ \A v \in BOOLEAN : [r EXCEPT !.file_start = v] \in CamInfo
         /\ \A v \in BOOLEAN : [r EXCEPT !.file_replay = v] \in CamInfo
         /\ \A v \in Gpus : [r EXCEPT !.gpu_index = v] \in CamInfo
         /\ \A v \in Tids \cup {0} : [r EXCEPT !.rtsp_thread = v] \in CamInfo
         /\ \A v \in Tids \cup {0} : [r EXCEPT !.process_thread = v] \in CamInfo
         /\ \A v \in BOOLEAN : [r EXCEPT !.buf = v] \in CamInfo
         /\ \A v \in BOOLEAN : [r EXCEPT !.alg = v] \in CamInfo
         /\ \A v \in BOOLEAN : [r EXCEPT !.ready = v] \in CamInfo
         /\ \A v \in BOOLEAN : [r EXCEPT !.holds = v] \in CamInfo
<1>1. \A v \in Status : [r EXCEPT !.curr_stat = v] \in CamInfo
  BY DEF CamInfo
<1>2. \A v \in Commands : [r EXCEPT !.cmd = v] \in CamInfo
  BY DEF CamInfo
<1>3. \A v \in Clients \cup {0} : [r EXCEPT !.cmd_fd = v] \in CamInfo
  BY DEF CamInfo
<1>4. \A v \in Vtypes : [r EXCEPT !.vtype = v] \in CamInfo
  BY DEF CamInfo
<1>5. \A v \in BOOLEAN : [r EXCEPT !.open_alg = v] \in CamInfo
  BY DEF CamInfo
<1>6. \A v \in BOOLEAN : [r EXCEPT !.open_flg = v] \in CamInfo
  BY DEF CamInfo
<1>7. \A v \in BOOLEAN : [r EXCEPT !.close_flag = v] \in CamInfo
  BY DEF CamInfo
<1>8. \A v \in BOOLEAN : [r EXCEPT !.rtsp_fag = v] \in CamInfo
  BY DEF CamInfo
<1>9. \A v \in BOOLEAN : [r EXCEPT !.have_frame_size = v] \in CamInfo
  BY DEF CamInfo
<1>10. \A v \in 0..(NoFrameMax + 1) : [r EXCEPT !.no_frame_num = v] \in CamInfo
  BY DEF CamInfo
<1>11. \A v \in BOOLEAN : [r EXCEPT !.file_start = v] \in CamInfo
  BY DEF CamInfo
<1>12. \A v \in BOOLEAN : [r EXCEPT !.file_replay = v] \in CamInfo
  BY DEF CamInfo
<1>13. \A v \in Gpus : [r EXCEPT !.gpu_index = v] \in CamInfo
  BY DEF CamInfo
<1>14. \A v \in Tids \cup {0} : [r EXCEPT !.rtsp_thread = v] \in CamInfo
  BY DEF CamInfo
<1>15. \A v \in Tids \cup {0} : [r EXCEPT !.process_thread = v] \in CamInfo
  BY DEF CamInfo
<1>16. \A v \in BOOLEAN : [r EXCEPT !.buf = v] \in CamInfo
  BY DEF CamInfo
<1>17. \A v \in BOOLEAN : [r EXCEPT !.alg = v] \in CamInfo
  BY DEF CamInfo
<1>18. \A v \in BOOLEAN : [r EXCEPT !.ready = v] \in CamInfo
  BY DEF CamInfo
<1>19. \A v \in BOOLEAN : [r EXCEPT !.holds = v] \in CamInfo
  BY DEF CamInfo
<1> QED
  BY <1>1, <1>2, <1>3, <1>4, <1>5, <1>6, <1>7, <1>8, <1>9, <1>10, <1>11, <1>12,
     <1>13, <1>14, <1>15, <1>16, <1>17, <1>18, <1>19

\* A step of camera_main keeps the types.
LEMMA MainType ==
  ASSUME TypeOK, MainStep
  PROVE  TypeOK'
<1> USE CamAssumption, GpuAssumption, ThreadAssumption, EnvAssumption DEF TypeOK
<1>0. main.at \in Cams /\ cam[main.at] \in CamInfo
  BY DEF MainInfo
<1>a. /\ NextCam(main.at) \in Cams
       /\ main.cmd \in Commands \cup {"BOOT"} /\ main.open_alg \in BOOLEAN
       /\ "NULL" \in Commands
  BY DEF MainInfo, NextCam, Cams, Commands
<1>1. CASE Skip
  <2>1. cam' \in [Cams -> CamInfo]
    BY <1>1 DEF Skip
  <2>2. main' \in MainInfo
    BY <1>1, <1>a DEF Skip, MainInfo
  <2> QED
    BY <1>1, <2>1, <2>2 DEF Skip, env, hist, threads
<1>2. CASE Take
  <2>1. FirstStep(cam[main.at].cmd) \in MainSteps
    BY DEF FirstStep, MainSteps
  <2>2. main' \in MainInfo
    <3>1. cam[main.at].cmd \in Commands
      BY <1>0, FieldTypes
    <3>2. "open" \in MainSteps
      BY DEF MainSteps
    <3>3. CASE main.cmd = "BOOT"
      BY <1>2, <3>2, <3>3, SMTT(30) DEF Take, MainInfo
    <3>4. CASE main.cmd # "BOOT"
      <4>1. main' = [main EXCEPT !.cmd = cam[main.at].cmd,
                                 !.pc = FirstStep(cam[main.at].cmd)]
        BY <1>2, <3>4, Zenon DEF Take
      <4> QED
        BY <2>1, <3>1, <4>1 DEF MainInfo
    <3> QED
      BY <3>3, <3>4
  <2> QED
    BY <1>2, <2>2 DEF Take, env, hist, threads
<1>3. CASE Finish
  <2>1. cam' \in [Cams -> CamInfo]
    <3>1. Left(cam[main.at].cmd) \in Commands
      BY <1>0, <1>a, FieldTypes DEF Left
    <3>2. cam' = cam \/ cam' = [cam EXCEPT ![main.at].cmd = Left(@)]
      BY <1>3, Zenon DEF Finish
    <3>3. [cam[main.at] EXCEPT !.cmd = Left(cam[main.at].cmd)] \in CamInfo
      BY <1>0, <3>1, FieldUpdate
    <3> QED
      BY <1>0, <3>2, <3>3
  <2>2. main' \in MainInfo
    <3>1. "scan" \in MainSteps
      BY DEF MainSteps
    <3> QED
      BY <1>3, <1>a, <3>1 DEF Finish, MainInfo
  <2> QED
    BY <1>3, <2>1, <2>2 DEF Finish, env, hist, threads
<1>4. CASE CloseFlags
  <2>1. cam' \in [Cams -> CamInfo]
    BY <1>4, <1>0, FieldUpdate, ZenonT(30) DEF CloseFlags
  <2>2. main' \in MainInfo
    BY <1>4, <1>0, FieldTypes DEF CloseFlags, MainInfo, MainSteps
  <2> QED
    BY <1>4, <1>0, <2>1, <2>2 DEF CloseFlags, env, hist, threads
<1>5. CASE CloseGpu
  <2>1. cam' \in [Cams -> CamInfo]
    BY <1>5, <1>0, FieldUpdate DEF CloseGpu
  <2>2. main' \in MainInfo
    BY <1>5 DEF CloseGpu, At, MainInfo, MainSteps
  <2>3. g_gpu_index' \in [Gpus -> 0..GpuItemMax]
    <3>1. cam[main.at].gpu_index \in Gpus
      BY <1>0, FieldTypes
    <3>2. GivenBack \in [Gpus -> 0..GpuItemMax]
      BY <3>1 DEF GivenBack
    <3> QED
      BY <1>5, <3>2 DEF CloseGpu
  <2> QED
    BY <1>5, <2>1, <2>2, <2>3 DEF CloseGpu, env, hist, threads
<1>6. CASE CloseWait
  <2>1. cam' \in [Cams -> CamInfo]
    BY <1>6 DEF CloseWait
  <2>2. main' \in MainInfo
    BY <1>6 DEF CloseWait, At, MainInfo, MainSteps
  <2> QED
    BY <1>6, <1>0, <2>1, <2>2 DEF CloseWait, env, hist, threads
<1>7. CASE CloseJoinDecode
  <2>1. cam' \in [Cams -> CamInfo]
    BY <1>7, <1>0, FieldUpdate DEF CloseJoinDecode
  <2>2. main' \in MainInfo
    BY <1>7 DEF CloseJoinDecode, At, MainInfo, MainSteps
  <2> QED
    BY <1>7, <1>0, <2>1, <2>2 DEF CloseJoinDecode, env, hist, threads, EndInSend,
       NoDecoder, DecoderInfo, DecoderSteps, Tids
<1>8. CASE CloseJoinAlg
  <2>1. cam' \in [Cams -> CamInfo]
    BY <1>8, <1>0, FieldUpdate DEF CloseJoinAlg
  <2>2. main' \in MainInfo
    BY <1>8 DEF CloseJoinAlg, At, MainInfo, MainSteps
  <2> QED
    BY <1>8, <1>0, <2>1, <2>2 DEF CloseJoinAlg, env, hist, threads, EndInSend,
       ProcessSteps, Tids
<1>9. CASE CloseRelease
  <2>1. cam' \in [Cams -> CamInfo]
    BY <1>9, <1>0, FieldUpdate DEF CloseRelease
  <2>2. main' \in MainInfo
    BY <1>9 DEF CloseRelease, At, MainInfo, MainSteps
  <2> QED
    BY <1>9, <1>0, <2>1, <2>2 DEF CloseRelease, env, hist, threads
<1>10. CASE CloseFree
  <2>1. cam' \in [Cams -> CamInfo]
    BY <1>10, <1>0, FieldUpdate DEF CloseFree
  <2>2. main' \in MainInfo
    BY <1>10 DEF CloseFree, At, MainInfo, MainSteps, Answers
  <2> QED
    BY <1>10, <1>0, <2>1, <2>2 DEF CloseFree, env, hist, threads
<1>11. CASE CloseStatus
  <2>1. cam' \in [Cams -> CamInfo]
    BY <1>11, <1>0, FieldUpdate DEF CloseStatus, Status
  <2>2. main' \in MainInfo
    BY <1>11 DEF CloseStatus, At, MainInfo, MainSteps
  <2> QED
    BY <1>11, <1>0, <2>1, <2>2 DEF CloseStatus, env, hist, threads
<1>12. CASE CloseReply
  <2>1. cam' \in [Cams -> CamInfo]
    BY <1>12 DEF CloseReply
  <2>2. main' \in MainInfo
    BY <1>12 DEF CloseReply, MainInfo, MainSteps
  <2>3. asked' \subseteq Cams
    BY <1>12 DEF CloseReply
  <2> QED
    BY <1>12, <1>0, <2>1, <2>2, <2>3 DEF CloseReply, threads
<1>13. CASE CloseFd
  <2>1. cam' \in [Cams -> CamInfo]
    BY <1>13, <1>0, FieldUpdate DEF CloseFd
  <2>2. main' \in MainInfo
    BY <1>13 DEF CloseFd, At, MainInfo, MainSteps
  <2> QED
    BY <1>13, <1>0, <2>1, <2>2 DEF CloseFd, env, hist, threads
<1>14. CASE CloseDone
  <2>1. cam' \in [Cams -> CamInfo]
    BY <1>14, <1>0, FieldUpdate DEF CloseDone
  <2>2. main' \in MainInfo
    BY <1>14 DEF CloseDone, At, MainInfo, MainSteps
  <2> QED
    BY <1>14, <1>0, <2>1, <2>2 DEF CloseDone, env, hist, threads
<1>15. CASE OpenStatus
  <2>1. cam' \in [Cams -> CamInfo]
    BY <1>15, <1>0, FieldUpdate DEF OpenStatus, Status
  <2>2. main' \in MainInfo
    BY <1>15 DEF OpenStatus, At, MainInfo, MainSteps
  <2> QED
    BY <1>15, <1>0, <2>1, <2>2 DEF OpenStatus, env, hist, threads
<1>16. CASE OpenGpu
  <2>1. CASE Room = {}
    <3>0. main' = [main EXCEPT !.pc = "finish"]
      BY <1>16, <2>1, Zenon DEF OpenGpu
    <3>1. main' \in MainInfo
      BY <3>0 DEF MainInfo, MainSteps
    <3>2. disorder' \in [Cams -> Nat]
      BY <1>16, <2>1 DEF OpenGpu
    <3> QED
      BY <1>16, <2>1, <3>1, <3>2 DEF OpenGpu, threads
  <2>2. CASE Room # {}
    <3>0. main' = [main EXCEPT !.pc = "open_thread"]
      BY <1>16, <2>2, Zenon DEF OpenGpu
    <3>1. main' \in MainInfo
      BY <3>0 DEF MainInfo, MainSteps
    <3>2. PICK g \in Room :
             /\ g_gpu_index' = [g_gpu_index EXCEPT ![g] = @ + 1]
             /\ cam' = [cam EXCEPT ![main.at].gpu_index = g,
                                   ![main.at].holds = TRUE,
                                   ![main.at].vtype = camdetect[main.at]]
      BY <1>16, <2>2, Zenon DEF OpenGpu, NewType
    <3>3. g \in Gpus /\ g_gpu_index[g] < GpuItemMax
      BY DEF Room
    <3>4. cam' \in [Cams -> CamInfo]
      BY <1>0, <3>2, <3>3, FieldUpdate
    <3>5. g_gpu_index' \in [Gpus -> 0..GpuItemMax]
      BY <3>2, <3>3
    <3> QED
      BY <1>16, <2>2, <3>1, <3>4, <3>5 DEF OpenGpu, threads
  <2> QED
    BY <2>1, <2>2
<1>17. CASE OpenThread
  <2>1. PICK k \in Tids :
             /\ decoder' = [decoder EXCEPT ![main.at][k].pc = "reply"]
             /\ cam' = [cam EXCEPT ![main.at].rtsp_thread = k]
    BY <1>17, Zenon DEF OpenThread
  <2>2. cam' \in [Cams -> CamInfo]
    BY <1>0, <2>1, FieldUpdate
  <2>3. main' \in MainInfo
    BY <1>17 DEF OpenThread, At, MainInfo, MainSteps
  <2>4. decoder' \in [Cams -> [Tids -> DecoderInfo]]
    <3>1. decoder[main.at][k] \in DecoderInfo
      BY <1>0
    <3>2. [decoder[main.at][k] EXCEPT !.pc = "reply"] \in DecoderInfo
      BY <3>1 DEF DecoderInfo, DecoderSteps
    <3> QED
      BY <1>0, <2>1, <3>2
  <2> QED
    BY <1>17, <2>2, <2>3, <2>4 DEF OpenThread, env, hist
<1>18. CASE OpenAlg
  <2>1. cam' \in [Cams -> CamInfo]
    BY <1>18, <1>0, FieldUpdate DEF OpenAlg
  <2>2. main' \in MainInfo
    BY <1>18 DEF OpenAlg, At, MainInfo, MainSteps
  <2> QED
    BY <1>18, <1>0, <2>1, <2>2 DEF OpenAlg, env, hist, threads
<1>19. CASE OpenRun
  <2>1. PICK k \in Tids :
             /\ process' = [process EXCEPT ![main.at][k] = "loop"]
             /\ cam' = [cam EXCEPT ![main.at].open_alg = TRUE,
                                   ![main.at].process_thread = k]
    BY <1>19, Zenon DEF OpenRun
  <2>2. cam' \in [Cams -> CamInfo]
    BY <1>0, <2>1, FieldUpdate
  <2>3. main' \in MainInfo
    BY <1>19 DEF OpenRun, At, MainInfo, MainSteps
  <2>4. process' \in [Cams -> [Tids -> ProcessSteps]]
    BY <1>0, <2>1 DEF ProcessSteps
  <2> QED
    BY <1>19, <2>2, <2>3, <2>4 DEF OpenRun, env, hist
<1> QED
  BY <1>1, <1>2, <1>3, <1>4, <1>5, <1>6, <1>7, <1>8, <1>9, <1>10, <1>11, <1>12,
     <1>13, <1>14, <1>15, <1>16, <1>17, <1>18, <1>19 DEF MainStep

\* Only the history of the camera that a request is for is touched, and requests out
\* of order are counted, never forgotten.
LEMMA RecordType ==
  ASSUME TypeOK, NEW c \in Cams, NEW odd \in BOOLEAN, Record(c, odd)
  PROVE  /\ asked' \subseteq Cams /\ disorder' \in [Cams -> Nat]
         /\ asked' = asked \cup {c}
         /\ \A d \in Cams : disorder[d] <= disorder'[d]
         /\ disorder'[c] = 0 => disorder[c] = 0 /\ ~odd /\ ~Unfinished(c)
<1> USE DEF TypeOK, Record, Orderly
<1>1. asked' = asked \cup {c} /\ disorder \in [Cams -> Nat]
  OBVIOUS
<1>2. CASE disorder[c] = 0 /\ ~odd /\ ~Unfinished(c)
  BY <1>1, <1>2
<1>3. CASE ~(disorder[c] = 0 /\ ~odd /\ ~Unfinished(c))
  <2>1. disorder' = [disorder EXCEPT ![c] = @ + 1]
    BY <1>3
  <2> QED
    BY <1>1, <2>1
<1> QED
  BY <1>2, <1>3

\* A request leaves a well typed rest of itself to do.
LEMMA PostType ==
  ASSUME NEW c \in Cams, NEW cmd \in Commands, NEW fd \in Clients, Post(c, cmd, fd)
  PROVE  tcp' \in TcpInfo
  BY DEF Post, TcpInfo, TcpTodo

\* A step of the TCP thread keeps the types.
LEMMA TcpType ==
  ASSUME TypeOK, TcpRequest \/ TcpStep
  PROVE  TypeOK'
<1> USE CamAssumption, GpuAssumption, ThreadAssumption, EnvAssumption DEF TypeOK
<1>1. ASSUME NEW c \in Cams, NEW fd \in Clients, NEW v \in Vtypes, SetAlg(c, v, fd)
      PROVE  TypeOK'
  <2>1. tcp' \in TcpInfo
    <3>1. PICK cmd \in {"OPEN", "RESET"} : Post(c, cmd, fd)
      BY <1>1 DEF SetAlg
    <3> QED
      BY <3>1, PostType DEF Commands
  <2>2. cam_num' \in Int
    BY <1>1 DEF SetAlg, Added
  <2>3. asked' \subseteq Cams /\ disorder' \in [Cams -> Nat]
    BY <1>1, RecordType DEF SetAlg
  <2> QED
    BY <1>1, <2>1, <2>2, <2>3 DEF SetAlg
<1>2. ASSUME NEW c \in Cams, NEW fd \in Clients, DelCamera(c, fd)
      PROVE  TypeOK'
  <2>1. tcp' \in TcpInfo
    BY <1>2, PostType DEF DelCamera, Commands
  <2>2. asked' \subseteq Cams /\ disorder' \in [Cams -> Nat]
    <3>1. PICK odd \in BOOLEAN : Record(c, odd)
      BY <1>2 DEF DelCamera
    <3> QED
      BY <3>1, RecordType
  <2>3. exist' = [exist EXCEPT ![c] = FALSE] /\ cam_num' \in Int
    BY <1>2 DEF DelCamera
  <2> QED
    BY <1>2, <2>1, <2>2, <2>3 DEF DelCamera
<1>3. ASSUME NEW c \in Cams, NEW fd \in Clients, SetEvent(c, fd)
      PROVE  TypeOK'
  <2>1. tcp' \in TcpInfo
    BY <1>3, PostType DEF SetEvent, Commands
  <2>2. asked' \subseteq Cams /\ disorder' \in [Cams -> Nat]
    <3>1. PICK odd \in BOOLEAN : Record(c, odd)
      BY <1>3 DEF SetEvent
    <3> QED
      BY <3>1, RecordType
  <2> QED
    BY <1>3, <2>1, <2>2 DEF SetEvent
<1>4. ASSUME NEW c \in Cams, Play(c)
      PROVE  TypeOK'
  <2>1. cam' \in [Cams -> CamInfo]
    BY <1>4, FieldUpdate DEF Play
  <2> QED
    BY <1>4, <2>1 DEF Play, hist
<1>5. ASSUME NEW c \in Cams, Stop(c)
      PROVE  TypeOK'
  <2>1. cam' \in [Cams -> CamInfo]
    BY <1>5, FieldUpdate DEF Stop
  <2> QED
    BY <1>5, <2>1 DEF Stop, hist
<1>6. /\ tcp.c \in Cams /\ tcp.fd \in Clients \cup {0} /\ tcp.cmd \in Commands
      /\ tcp.todo # <<>> => [tcp EXCEPT !.todo = Tail(@)] \in TcpInfo
  <2>1. tcp.todo \in TcpTodo
    BY DEF TcpInfo
  <2>2. tcp.todo # <<>> => Tail(tcp.todo) \in TcpTodo
    <3>1. /\ Tail(<<"ctrl">>) = <<>>
          /\ Tail(<<"stat", "ctrl">>) = <<"ctrl">>
          /\ Tail(<<"fd", "ctrl">>) = <<"ctrl">>
          /\ Tail(<<"stat", "fd", "ctrl">>) = <<"fd", "ctrl">>
          /\ Tail(<<"fd", "stat", "ctrl">>) = <<"stat", "ctrl">>
      OBVIOUS
    <3> QED
      BY <2>1, <3>1, Zenon DEF TcpTodo
  <2> QED
    BY <2>2 DEF TcpInfo
<1>7. CASE TcpFd
  <2>1. cam' \in [Cams -> CamInfo]
    BY <1>7, <1>6, FieldUpdate DEF TcpFd
  <2> QED
    BY <1>7, <1>6, <2>1 DEF TcpFd, hist
<1>8. CASE TcpStatus
  <2>1. cam' \in [Cams -> CamInfo]
    BY <1>8, <1>6, FieldUpdate DEF TcpStatus, Status
  <2> QED
    BY <1>8, <1>6, <2>1 DEF TcpStatus, hist
<1>9. CASE TcpCtrl
  <2>1. cam' \in [Cams -> CamInfo]
    BY <1>9, <1>6, FieldUpdate DEF TcpCtrl
  <2>2. NoRequest \in TcpInfo
    BY DEF NoRequest, TcpInfo, TcpTodo, Commands, Cams
  <2> QED
    BY <1>9, <1>6, <2>1, <2>2 DEF TcpCtrl, hist
<1> QED
  BY <1>1, <1>2, <1>3, <1>4, <1>5, <1>7, <1>8, <1>9 DEF TcpRequest, TcpStep

\* A step of a decode thread keeps the types.
LEMMA DecodeType ==
  ASSUME TypeOK, NEW c \in Cams, NEW k \in Tids, DecodeStep(c, k)
  PROVE  TypeOK'
<1> USE CamAssumption, GpuAssumption, ThreadAssumption, EnvAssumption DEF TypeOK
<1>0. cam[c] \in CamInfo /\ decoder[c][k] \in DecoderInfo
  OBVIOUS
<1>a. /\ \A pc \in DecoderSteps : [decoder[c][k] EXCEPT !.pc = pc] \in DecoderInfo
       /\ \A pc2 \in DecoderSteps, b \in BOOLEAN :
             [[decoder[c][k] EXCEPT !.pc = pc2] EXCEPT !.cap = b] \in DecoderInfo
       /\ [decoder[c][k] EXCEPT !.yuv = TRUE] \in DecoderInfo
       /\ \A pc3 \in DecoderSteps : [NoDecoder EXCEPT !.pc = pc3] \in DecoderInfo
  BY <1>0 DEF DecoderInfo, NoDecoder, DecoderSteps
<1>c. /\ 0 \in 0..(NoFrameMax + 1)
       /\ \A n \in 0..(NoFrameMax + 1) :
             (IF n > NoFrameMax THEN n ELSE n + 1) \in 0..(NoFrameMax + 1)
  OBVIOUS
<1>b. \A d \in DecoderInfo :
        [decoder EXCEPT ![c][k] = d] \in [Cams -> [Tids -> DecoderInfo]]
  OBVIOUS
<1>1. CASE DecodeReply(c, k)
  <2>1. cam' \in [Cams -> CamInfo]
    BY <1>1 DEF DecodeReply
  <2>2. decoder' \in [Cams -> [Tids -> DecoderInfo]]
    BY <1>1, <1>a, <1>b DEF DecodeReply, DecoderSteps
  <2>3. asked' \subseteq Cams
    BY <1>1 DEF DecodeReply
  <2> QED
    BY <1>1, <2>1, <2>2, <2>3 DEF DecodeReply
<1>2. CASE DecodeClearFd(c, k)
  <2>1. cam' \in [Cams -> CamInfo]
    BY <1>2, <1>0, FieldUpdate DEF DecodeClearFd
  <2>2. decoder' \in [Cams -> [Tids -> DecoderInfo]]
    BY <1>2, <1>a, <1>b DEF DecodeClearFd, DecoderSteps
  <2> QED
    BY <1>2, <2>1, <2>2 DEF DecodeClearFd, env, hist
<1>3. CASE DecodeExit(c, k)
  <2>1. cam' \in [Cams -> CamInfo]
    BY <1>3, <1>0, FieldUpdate DEF DecodeExit
  <2>2. decoder' \in [Cams -> [Tids -> DecoderInfo]]
    BY <1>3, <1>a, <1>b DEF DecodeExit, DecoderSteps
  <2> QED
    BY <1>3, <2>1, <2>2 DEF DecodeExit, env, hist
<1>4. CASE DecodeTurn(c, k)
  <2>1. cam' \in [Cams -> CamInfo]
    BY <1>4 DEF DecodeTurn
  <2>2. decoder' \in [Cams -> [Tids -> DecoderInfo]]
    BY <1>4, <1>a, <1>b DEF DecodeTurn, DecoderSteps
  <2> QED
    BY <1>4, <2>1, <2>2 DEF DecodeTurn, env, hist
<1>5. CASE DecodeOpenFails(c, k)
  <2>1. cam' \in [Cams -> CamInfo]
    BY <1>5, <1>0, FieldUpdate DEF DecodeOpenFails, Status
  <2>2. decoder' \in [Cams -> [Tids -> DecoderInfo]]
    BY <1>5, <1>a, <1>b, ZenonT(30) DEF DecodeOpenFails, DecoderSteps
  <2> QED
    BY <1>5, <2>1, <2>2 DEF DecodeOpenFails, env, hist
<1>6. CASE DecodeOpen(c, k)
  <2>0. (cam[c].file_replay /\ cam[c].vtype # "FILE") \in BOOLEAN
    BY <1>0, FieldTypes
  <2>1. cam' \in [Cams -> CamInfo]
    BY <1>6, <1>0, <1>c, <2>0, FieldUpdate, ZenonT(30) DEF DecodeOpen, Status
  <2>2. decoder' \in [Cams -> [Tids -> DecoderInfo]]
    BY <1>6, <1>a, <1>b DEF DecodeOpen, DecoderSteps
  <2> QED
    BY <1>6, <2>1, <2>2 DEF DecodeOpen, env, hist
<1>7. CASE DecodeFile(c, k)
  <2>1. cam' \in [Cams -> CamInfo]
    BY <1>7, <1>0, FieldUpdate, FieldTypes DEF DecodeFile, AtEnd
  <2>2. decoder' \in [Cams -> [Tids -> DecoderInfo]]
    BY <1>7, <1>a, <1>b DEF DecodeFile, DecoderSteps
  <2> QED
    BY <1>7, <2>1, <2>2 DEF DecodeFile, env, hist
<1>8. CASE DecodeNoFrame(c, k)
  <2>0. (IF cam[c].no_frame_num > NoFrameMax
            THEN cam[c].no_frame_num
            ELSE cam[c].no_frame_num + 1) \in 0..(NoFrameMax + 1)
    BY <1>0, <1>c, FieldTypes
  <2>1. cam' \in [Cams -> CamInfo]
    <3>1. cam' = [cam EXCEPT ![c] = [[cam[c] EXCEPT !.curr_stat = "FRAME_FAILED"] EXCEPT
                    !.no_frame_num = IF cam[c].no_frame_num > NoFrameMax
                                        THEN cam[c].no_frame_num
                                        ELSE cam[c].no_frame_num + 1]]
      BY <1>8, <1>0 DEF DecodeNoFrame
    <3> QED
      BY <1>0, <2>0, <3>1, FieldUpdate DEF Status
  <2>2. decoder' \in [Cams -> [Tids -> DecoderInfo]]
    BY <1>8, <1>a, <1>b DEF DecodeNoFrame, DecoderSteps
  <2> QED
    BY <1>8, <2>1, <2>2 DEF DecodeNoFrame, env, hist
<1>9. CASE DecodeFrame(c, k)
  <2>1. cam' \in [Cams -> CamInfo]
    BY <1>9, <1>0, FieldUpdate, <1>c DEF DecodeFrame
  <2>2. decoder' \in [Cams -> [Tids -> DecoderInfo]]
    BY <1>9, <1>a, <1>b DEF DecodeFrame, DecoderSteps
  <2> QED
    BY <1>9, <2>1, <2>2 DEF DecodeFrame, env, hist
<1>10. CASE DecodeAlloc(c, k)
  <2>1. cam' \in [Cams -> CamInfo]
    BY <1>10, <1>0, FieldUpdate DEF DecodeAlloc
  <2>2. decoder' \in [Cams -> [Tids -> DecoderInfo]]
    BY <1>10, <1>a, <1>b DEF DecodeAlloc, DecoderSteps
  <2> QED
    BY <1>10, <2>1, <2>2 DEF DecodeAlloc, env, hist
<1>11. CASE DecodeStore(c, k)
  <2>1. cam' \in [Cams -> CamInfo]
    BY <1>11, <1>0, FieldUpdate DEF DecodeStore
  <2>2. decoder' \in [Cams -> [Tids -> DecoderInfo]]
    BY <1>11, <1>a, <1>b DEF DecodeStore, DecoderSteps
  <2> QED
    BY <1>11, <2>1, <2>2 DEF DecodeStore, env, hist
<1>12. CASE DecodeEmpty(c, k)
  <2>1. cam' \in [Cams -> CamInfo]
    BY <1>12, <1>0, <1>c, FieldUpdate DEF DecodeEmpty
  <2>2. decoder' \in [Cams -> [Tids -> DecoderInfo]]
    BY <1>12, <1>a, <1>b DEF DecodeEmpty, DecoderSteps
  <2> QED
    BY <1>12, <2>1, <2>2 DEF DecodeEmpty, env, hist
<1> QED
  BY <1>1, <1>2, <1>3, <1>4, <1>5, <1>6, <1>7, <1>8, <1>9, <1>10, <1>11,
     <1>12 DEF DecodeStep

\* A step of an algorithm thread keeps the types.
LEMMA ProcessType ==
  ASSUME TypeOK, NEW c \in Cams, NEW k \in Tids, ProcessStep(c, k)
  PROVE  TypeOK'
<1> USE CamAssumption, GpuAssumption, ThreadAssumption, EnvAssumption DEF TypeOK
<1>1. CASE ProcessExit(c, k)
  BY <1>1 DEF ProcessExit, ProcessSteps, env, hist
<1>2. CASE ProcessTake(c, k)
  <2>1. cam' \in [Cams -> CamInfo]
    BY <1>2, FieldUpdate DEF ProcessTake
  <2> QED
    BY <1>2, <2>1 DEF ProcessTake, ProcessSteps, env, hist
<1>3. CASE ProcessRun(c, k)
  <2>1. /\ \E pc \in {"send", "loop"} : process' = [process EXCEPT ![c][k] = pc]
        /\ sock_lock' = sock_lock \/ sock_lock' = TRUE
        /\ UNCHANGED <<env, cam, g_gpu_index, decoder, main>>
    BY <1>3, Zenon DEF ProcessRun
  <2>2. process' \in [Cams -> [Tids -> ProcessSteps]]
    BY <2>1 DEF ProcessSteps
  <2> QED
    BY <2>1, <2>2 DEF env, hist
<1>4. CASE ProcessSent(c, k)
  BY <1>4 DEF ProcessSent, ProcessSteps, env, hist
<1> QED
  BY <1>1, <1>2, <1>3, <1>4 DEF ProcessStep

\* Every variable keeps its type in every execution; in particular a GPU slot never
\* gets more than GPU_ITEM_MAX cameras, and no_frame_num and the thread handles stay
\* in range, whatever the operators and the threads do.
THEOREM TypeCorrect == Spec => []TypeOK
<1>1. ASSUME TypeOK, [Next]_vars PROVE TypeOK'
  <2>1. CASE Next
    BY <1>1, <2>1, TcpType, MainType, DecodeType, ProcessType DEF Next
  <2>2. CASE UNCHANGED vars
    BY <1>1, <2>2 DEF TypeOK, vars
  <2> QED
    BY <1>1, <2>1, <2>2
<1> QED
  BY InitType, <1>1, PTL DEF Spec

\* Adding a camera to the existing ones and deleting one move their number by one.
LEMMA CountStep ==
  ASSUME NEW f \in [Cams -> BOOLEAN], NEW c \in Cams
  PROVE  LET n == Cardinality({d \in Cams : f[d]}) IN
         /\ n \in Nat
         /\ Cardinality({d \in Cams : [f EXCEPT ![c] = TRUE][d]})
               = IF f[c] THEN n ELSE n + 1
         /\ f[c] => Cardinality({d \in Cams : [f EXCEPT ![c] = FALSE][d]}) = n - 1
<1> DEFINE S == {d \in Cams : f[d]}
<1>1. IsFiniteSet(S)
  <2>1. IsFiniteSet(Cams)
    BY CamAssumption, FS_Interval DEF Cams
  <2> QED
    BY <2>1, FS_Subset
<1>2. {d \in Cams : [f EXCEPT ![c] = TRUE][d]} = S \cup {c}
  OBVIOUS
<1>3. {d \in Cams : [f EXCEPT ![c] = FALSE][d]} = S \ {c}
  OBVIOUS
<1>4. f[c] <=> c \in S
  OBVIOUS
<1>5. Cardinality(S) \in Nat
  BY <1>1, FS_CardinalityType
<1>6. Cardinality(S \cup {c}) = IF c \in S THEN Cardinality(S) ELSE Cardinality(S) + 1
  BY <1>1, FS_AddElement
<1>7. c \in S => Cardinality(S \ {c}) = Cardinality(S) - 1
  BY <1>1, FS_RemoveElement
<1> HIDE DEF S
<1> QED
  BY <1>2, <1>3, <1>4, <1>5, <1>6, <1>7 DEF S

\* The count of the cameras that exist stays right, step by step.
LEMMA CountInv ==
  ASSUME TypeOK, CamCount, Next
  PROVE  CamCount'
<1>0. exist \in [Cams -> BOOLEAN]
  BY DEF TypeOK
<1>1. ASSUME NEW c \in Cams, NEW fd \in Clients, NEW v \in Vtypes, SetAlg(c, v, fd)
      PROVE  CamCount'
  <2>1. exist' = [exist EXCEPT ![c] = TRUE] /\ cam_num' = Added(c)
    BY <1>1 DEF SetAlg
  <2> QED
    BY <1>0, <2>1, CountStep DEF CamCount, Added
<1>2. ASSUME NEW c \in Cams, NEW fd \in Clients, DelCamera(c, fd)
      PROVE  CamCount'
  <2>1. /\ exist' = [exist EXCEPT ![c] = FALSE]
        /\ cam_num' = IF exist[c] THEN cam_num - 1 ELSE cam_num
    BY <1>2 DEF DelCamera
  <2>2. CASE exist[c]
    BY <1>0, <2>1, <2>2, CountStep DEF CamCount
  <2>3. CASE ~exist[c]
    BY <1>0, <2>1, <2>3 DEF CamCount
  <2> QED
    BY <2>2, <2>3
<1>3. CASE UNCHANGED <<exist, cam_num>>
  BY <1>3 DEF CamCount
<1>4. ASSUME NEW c \in Cams, NEW fd \in Clients, SetEvent(c, fd)
      PROVE  UNCHANGED <<exist, cam_num>>
  BY <1>4 DEF SetEvent
<1>5. ASSUME NEW c \in Cams, Play(c) \/ Stop(c)
      PROVE  UNCHANGED <<exist, cam_num>>
  BY <1>5 DEF Play, Stop
<1>6. TcpStep => UNCHANGED <<exist, cam_num>>
  BY DEF TcpStep, TcpFd, TcpStatus, TcpCtrl
<1>7. MainStep => UNCHANGED <<exist, cam_num>>
  BY DEF MainStep, env, hist, Skip, Take, Finish, CloseFlags, CloseGpu, CloseWait,
     CloseJoinDecode, CloseJoinAlg, CloseRelease, CloseFree, CloseStatus, CloseReply,
     CloseFd, CloseDone, OpenStatus, OpenGpu, OpenThread, OpenAlg, OpenRun
<1>8. ASSUME NEW c \in Cams, NEW k \in Tids, DecodeStep(c, k) \/ ProcessStep(c, k)
      PROVE  UNCHANGED <<exist, cam_num>>
  <2>1. CASE DecodeStep(c, k)
    BY <2>1 DEF DecodeStep, env, hist, DecodeReply, DecodeClearFd, DecodeExit, DecodeTurn,
       DecodeOpenFails, DecodeOpen, DecodeFile, DecodeNoFrame, DecodeFrame, DecodeEmpty,
       DecodeAlloc, DecodeStore
  <2>2. CASE ProcessStep(c, k)
    BY <2>2 DEF ProcessStep, env, hist, ProcessExit, ProcessTake, ProcessRun, ProcessSent
  <2> QED
    BY <1>8, <2>1, <2>2
<1> QED
  BY <1>1, <1>2, <1>3, <1>4, <1>5, <1>6, <1>7, <1>8 DEF Next, TcpRequest

\* g_cam_num.cam_num is the number of cameras that exist, for every number of
\* cameras and in every order of requests of any number of operators.
THEOREM CountCorrect == Spec => []CamCount
<1>1. Init => CamCount
  BY DEF Init, CamCount
<1>2. ASSUME TypeOK, CamCount, [Next]_vars PROVE CamCount'
  <2>1. CASE UNCHANGED vars
    BY <1>2, <2>1 DEF CamCount, vars
  <2> QED
    BY <1>2, <2>1, CountInv
<1> QED
  BY TypeCorrect, <1>1, <1>2, PTL DEF Spec

-----------------------------------------------------------------------------
(* What the threads of a camera rely on when its requests come in order *)

\* camera_main works on camera c; a request for c is half written.
Works(c) == main.pc # "scan" /\ main.at = c
Pending(c) == tcp.todo # <<>> /\ tcp.c = c

\* A command is posted for c that camera_main has not taken yet; with the request
\* half written, the request whose turn comes.
Newer(c) == cam[c].cmd # "NULL" /\ (Works(c) => cam[c].cmd # main.cmd)
Ordered(c) == Pending(c) \/ Newer(c)
NextCmd(c) == IF Pending(c) THEN tcp.cmd ELSE cam[c].cmd

\* The steps of camera_main at which its request may already be answered.
Late == /\ main.cmd # "BOOT"
        /\ \/ main.pc \in {"open_alg", "open_run", "finish"}
           \/ main.pc \in {"close_fd", "close_done"} /\ main.cmd = "CLOSE"

\* A decode thread has still to answer, or to clear cmd_fd.
Answering(c, k) == decoder[c][k].pc \in {"reply", "clear_fd"}
Fresh(c) == \A k \in Tids : ~Answering(c, k)

\* What camera c has of its two threads, its GPU place, its instance and open_alg.
Has(c, decode, run, place, alg, open) ==
    /\ cam[c].rtsp_thread # 0 <=> decode
    /\ cam[c].process_thread # 0 <=> run
    /\ cam[c].holds <=> place
    /\ cam[c].alg <=> alg
    /\ cam[c].open_alg <=> open

Up(c) == Has(c, TRUE, TRUE, TRUE, TRUE, TRUE)
Down(c) == Has(c, FALSE, FALSE, FALSE, FALSE, FALSE) /\ ~cam[c].have_frame_size

CloseSteps == {"close", "close_gpu", "close_wait", "close_join_decode",
               "close_join_alg", "close_release", "close_free", "close_stat",
               "close_reply", "close_fd", "close_done"}
OpenSteps == {"open", "open_gpu", "open_thread", "open_alg", "open_run"}

\* Which command leads camera_main to a step, and what is left of a request.
MainOK ==
    /\ main.pc \in CloseSteps => main.cmd \in {"CLOSE", "RESET"}
    /\ main.pc \in {"close_stat", "close_reply", "close_fd"} => main.cmd = "CLOSE"
    /\ main.pc \in OpenSteps => main.cmd \in {"OPEN", "RESET", "BOOT"}
    /\ main.pc = "finish" => main.cmd \in {"OPEN", "CLOSE", "RESET", "BOOT"}
    /\ tcp.todo # <<>> => tcp.cmd # "NULL" /\ main.cmd # "BOOT"
    /\ main.cmd = "BOOT" => \A c \in Cams : cam[c].cmd = "NULL"

\* What the camera in hand has, step by step.
Shape(c) == Works(c) =>
    /\ main.pc = "close" => Up(c)
    /\ main.pc = "close_gpu" => Has(c, TRUE, TRUE, TRUE, TRUE, FALSE)
    /\ main.pc \in {"close_wait", "close_join_decode"} =>
         Has(c, TRUE, TRUE, FALSE, TRUE, FALSE)
    /\ main.pc = "close_join_alg" => Has(c, FALSE, TRUE, FALSE, TRUE, FALSE)
    /\ main.pc = "close_release" => Has(c, FALSE, FALSE, FALSE, TRUE, FALSE)
    /\ main.pc = "close_free" => Has(c, FALSE, FALSE, FALSE, FALSE, FALSE)
    /\ main.pc \in {"close_stat", "close_reply", "close_fd", "close_done", "open",
                    "open_gpu"} => Down(c)
    /\ main.pc = "open_thread" =>
         Has(c, FALSE, FALSE, TRUE, FALSE, FALSE) /\ ~cam[c].have_frame_size
    /\ main.pc = "open_alg" => Has(c, TRUE, FALSE, TRUE, FALSE, FALSE)
    /\ main.pc = "open_run" => Has(c, TRUE, FALSE, TRUE, TRUE, FALSE)
    /\ main.pc = "finish" => IF main.cmd = "CLOSE" THEN Down(c) ELSE Up(c)
    /\ main.pc \in {"close_gpu", "close_wait", "close_join_decode", "close_join_alg",
                    "close_release"} => main.open_alg

\* The threads are those whose handles are stored; the buffers and the status
\* while they run.
ThreadOK(c) ==
    /\ \A k \in Tids : decoder[c][k].pc # "none" => cam[c].rtsp_thread = k
    /\ \A k \in Tids : process[c][k] # "none" => cam[c].process_thread = k
    /\ cam[c].have_frame_size <=> cam[c].buf
    /\ \A k \in Tids :
         cam[c].have_frame_size /\ decoder[c][k].pc \notin {"none", "done"} =>
           decoder[c][k].yuv
    /\ \A k \in Tids : process[c][k] = "run" => cam[c].buf
    /\ main.at = c /\ main.pc \in {"open_gpu", "open_thread"} =>
         cam[c].curr_stat = "OPENING"
    /\ \A k \in Tids : Answering(c, k) =>
         cam[c].curr_stat = "OPENING" /\ cam[c].vtype = camdetect[c]

\* A request that camera_main has not taken: it may only overtake an answered one,
\* it is not answered itself, and it asks for what exist says, of a camera that is
\* (or will be, once camera_main is done) in the other state.
OrderedOK(c) == Ordered(c) =>
    /\ Works(c) => Late
    /\ Fresh(c)
    /\ NextCmd(c) \in {"OPEN", "CLOSE", "RESET"}
    /\ exist[c] <=> NextCmd(c) # "CLOSE"
    /\ Works(c) => (NextCmd(c) = "OPEN" <=> main.cmd = "CLOSE")
    /\ ~Works(c) => IF NextCmd(c) = "OPEN" THEN Down(c) ELSE Up(c)
    /\ c \in asked

\* At start the cameras from main.at on are not open yet.
Opened(c) == main.cmd = "BOOT" =>
    c < main.at \/ (c = main.at /\ main.pc \in {"open_thread", "open_alg", "open_run",
                                                "finish"})

\* Without such a request a camera is as exist says, or will be; a request in hand is
\* not answered early; and the configuration is the last one once it was answered.
SettledOK(c) ==
    /\ Pending(c) => ~Newer(c)
    /\ ~Ordered(c) /\ ~Works(c) =>
         IF exist[c] /\ (main.cmd = "BOOT" => c < main.at) THEN Up(c) ELSE Down(c)
    /\ ~Ordered(c) /\ Works(c) => (exist[c] <=> main.cmd # "CLOSE")
    /\ Works(c) /\ ~Late /\ main.cmd # "BOOT" => c \in asked /\ Fresh(c)
    /\ Works(c) /\ main.pc = "open_thread" => cam[c].vtype = camdetect[c]
    /\ exist[c] /\ c \notin asked /\ Opened(c) => cam[c].vtype = camdetect[c]

CamOK(c) == Shape(c) /\ ThreadOK(c) /\ OrderedOK(c) /\ SettledOK(c)

Places == \A g \in Gpus : g_gpu_index[g] =
             Cardinality({c \in Cams : cam[c].holds /\ cam[c].gpu_index = g})

\* No request for any camera was out of order.
AllOrderly == \A c \in Cams : Orderly(c)

IInv == /\ TypeOK /\ MainOK /\ ExistWithinLimit
        /\ AllOrderly => Places
        /\ \A c \in Cams : Orderly(c) => CamOK(c)

-----------------------------------------------------------------------------
(* Frames: what a step that leaves a camera alone, or camera_main's requests  *)

\* camera_main has taken a command and works on it with this step.
Continues ==
    /\ main.pc # "scan" /\ main'.pc # "scan"
    /\ main'.at = main.at /\ main'.cmd = main.cmd
    /\ UNCHANGED <<exist, camdetect, tcp>>

\* Nothing of camera c itself changes.
Untouched(c) == /\ cam'[c] = cam[c] /\ decoder'[c] = decoder[c]
                /\ process'[c] = process[c]
                /\ exist'[c] = exist[c] /\ camdetect'[c] = camdetect[c]
                /\ c \in asked' <=> c \in asked

\* A camera that a step leaves alone stays as it is, unless the step is one of
\* camera_main or of the TCP thread about it.
LEMMA Alone ==
  ASSUME NEW c \in Cams, CamOK(c), Untouched(c), UNCHANGED <<main, tcp>>
  PROVE  CamOK(c)'
<1> USE DEF Untouched
<1>1. Shape(c)'
  BY DEF CamOK, Shape, Works, Up, Down, Has
<1>2. ThreadOK(c)'
  BY DEF CamOK, ThreadOK, Answering
<1>3. OrderedOK(c)'
  BY DEF CamOK, OrderedOK, Ordered, Pending, Newer, Works, Late, Fresh, Answering,
     NextCmd, Up, Down, Has
<1>4. SettledOK(c)'
  BY DEF CamOK, SettledOK, Ordered, Pending, Newer, Works, Late, Fresh, Answering,
     Up, Down, Has, Opened
<1> QED
  BY <1>1, <1>2, <1>3, <1>4 DEF CamOK

\* A step of camera_main at another camera leaves this one as it is.
LEMMA OtherCam ==
  ASSUME NEW c \in Cams, CamOK(c), Untouched(c), Continues, main.at # c
  PROVE  CamOK(c)'
<1> USE DEF Untouched, Continues
<1>1. Shape(c)'
  BY DEF Shape, Works
<1>2. ThreadOK(c)'
  BY DEF CamOK, ThreadOK, Answering
<1>3. OrderedOK(c)'
  BY DEF CamOK, OrderedOK, Ordered, Pending, Newer, Works, Fresh, Answering,
     NextCmd, Up, Down, Has
<1>4. SettledOK(c)'
  BY DEF CamOK, SettledOK, Ordered, Pending, Newer, Works, Fresh, Answering,
     Up, Down, Has, Opened
<1> QED
  BY <1>1, <1>2, <1>3, <1>4 DEF CamOK

\* Before its answer a command of camera_main is the only request for its camera.
LEMMA Early ==
  ASSUME NEW c \in Cams, CamOK(c), main.at = c, Continues, ~Late,
         cam'[c].cmd = cam[c].cmd
  PROVE  ~Ordered(c)' /\ OrderedOK(c)'
<1>1. Works(c)
  BY DEF Works, Continues
<1>2. ~Ordered(c)
  BY <1>1 DEF CamOK, OrderedOK
<1>3. ~Ordered(c)'
  BY <1>1, <1>2 DEF Continues, Ordered, Pending, Newer, Works
<1> QED
  BY <1>3 DEF OrderedOK

\* It still is what exist says, and it is not answered.
LEMMA EarlySettled ==
  ASSUME NEW c \in Cams, CamOK(c), main.at = c, Continues, ~Late,
         cam'[c].cmd = cam[c].cmd,
         (c \in asked' <=> c \in asked) \/ main.cmd = "CLOSE",
         cam'[c].vtype = cam[c].vtype \/ cam'[c].vtype = camdetect[c],
         ~Late' /\ main.cmd # "BOOT" => c \in asked' /\ Fresh(c)',
         main'.pc = "open_thread" => cam'[c].vtype = camdetect[c],
         main'.pc \in {"open_alg", "open_run", "finish"} =>
             main.pc \in {"open_thread", "open_alg", "open_run", "finish"}
  PROVE  SettledOK(c)'
<1>1. Works(c) /\ Works(c)'
  BY DEF Works, Continues
<1>2. ~Ordered(c) /\ ~Ordered(c)'
  BY <1>1, Early DEF CamOK, OrderedOK
<1>3. exist[c] <=> main.cmd # "CLOSE"
  BY <1>1, <1>2 DEF CamOK, SettledOK
<1>4. exist'[c] /\ c \notin asked' /\ Opened(c)' => cam'[c].vtype = camdetect'[c]
  BY <1>2, <1>3 DEF CamOK, SettledOK, Opened, Pending, Continues, Ordered
<1>5. (exist[c] <=> main.cmd # "CLOSE")'
  BY <1>3 DEF Continues
<1> QED
  BY <1>1, <1>2, <1>4, <1>5 DEF SettledOK, Continues, Ordered

-----------------------------------------------------------------------------
(* camera_close and camera_open, step by step *)

\* What camera_main goes by when it works on a camera.
InHand(c) == /\ TypeOK /\ MainOK /\ CamOK(c)
             /\ c \in Cams /\ main.at = c

\* camera_close first takes down the flags.
LEMMA CloseFlagsInv ==
  ASSUME NEW c \in Cams, InHand(c), CloseFlags
  PROVE  CamOK(c)'
<1> USE DEF InHand
<1>1. /\ cam[c] \in CamInfo /\ main \in MainInfo
      /\ main'.open_alg = cam[c].open_alg
      /\ main.pc = "close" /\ main'.pc = "close_gpu"
      /\ Works(c) /\ ~Late /\ ~Late'
  BY DEF CloseFlags, TypeOK, MainInfo, Works, Late
<1>2. Continues
  BY <1>1 DEF CloseFlags, Continues, MainInfo, env, hist
<1>3. /\ decoder' = decoder /\ process' = process
      /\ cam'[c].rtsp_thread = cam[c].rtsp_thread
      /\ cam'[c].process_thread = cam[c].process_thread
      /\ cam'[c].holds = cam[c].holds
      /\ cam'[c].alg = cam[c].alg
      /\ cam'[c].open_alg = FALSE
      /\ cam'[c].have_frame_size = cam[c].have_frame_size
      /\ cam'[c].buf = cam[c].buf
      /\ cam'[c].curr_stat = cam[c].curr_stat
      /\ cam'[c].vtype = cam[c].vtype
      /\ cam'[c].cmd = cam[c].cmd
      /\ asked' = asked
  BY <1>1 DEF CloseFlags, TypeOK, CamInfo, threads, env, hist
<1>4. Shape(c)'
  BY <1>1, <1>2, <1>3 DEF CamOK, Shape, Works, Continues, Up, Has
<1>5. ThreadOK(c)'
  BY <1>1, <1>2, <1>3 DEF CamOK, ThreadOK, Answering, Continues
<1>6. OrderedOK(c)'
  BY <1>1, <1>2, <1>3, Early DEF CamOK
<1>7. SettledOK(c)'
  <2>1. ~Late' /\ main.cmd # "BOOT" => c \in asked' /\ Fresh(c)'
    BY <1>1, <1>3 DEF CamOK, SettledOK, Fresh, Answering
  <2> QED
    BY <1>1, <1>2, <1>3, <2>1, EarlySettled
<1> QED
  BY <1>4, <1>5, <1>6, <1>7 DEF CamOK

\* camera_close gives the place on the GPU back.
LEMMA CloseGpuInv ==
  ASSUME NEW c \in Cams, InHand(c), CloseGpu
  PROVE  CamOK(c)'
<1> USE DEF InHand
<1>1. /\ cam[c] \in CamInfo /\ main \in MainInfo
      /\ main'.open_alg = main.open_alg
      /\ main.pc = "close_gpu" /\ main'.pc = "close_wait"
      /\ Works(c) /\ ~Late
  BY DEF CloseGpu, At, TypeOK, MainInfo, MainOK, Works, Late, CloseSteps, OpenSteps
<1>2. Continues
  BY <1>1 DEF CloseGpu, At, Continues, MainInfo, env, hist
<1>3. /\ decoder' = decoder /\ process' = process
      /\ cam'[c].rtsp_thread = cam[c].rtsp_thread
      /\ cam'[c].process_thread = cam[c].process_thread
      /\ cam'[c].holds = FALSE
      /\ cam'[c].alg = cam[c].alg
      /\ cam'[c].open_alg = cam[c].open_alg
      /\ cam'[c].have_frame_size = cam[c].have_frame_size
      /\ cam'[c].buf = cam[c].buf
      /\ cam'[c].curr_stat = cam[c].curr_stat
      /\ cam'[c].vtype = cam[c].vtype
      /\ cam'[c].cmd = cam[c].cmd
      /\ asked' = asked
  BY <1>1 DEF CloseGpu, TypeOK, MainOK, CamInfo, threads, env, hist
<1>4. Shape(c)'
  BY <1>1, <1>2, <1>3 DEF CamOK, Shape, Works, Continues, Up, Down, Has, MainOK,
     CloseSteps, OpenSteps
<1>5. ThreadOK(c)'
  BY <1>1, <1>2, <1>3 DEF CamOK, ThreadOK, Answering, Continues
<1>6. OrderedOK(c)'
  BY <1>1, <1>2, <1>3, Early DEF CamOK
<1>7. SettledOK(c)'
  <2>1. ~Late' /\ main.cmd # "BOOT" => c \in asked' /\ Fresh(c)'
    BY <1>1, <1>2, <1>3 DEF CamOK, SettledOK, Fresh, Answering, Late, Continues, MainOK
  <2> QED
    BY <1>1, <1>2, <1>3, <2>1, EarlySettled DEF MainOK
<1> QED
  BY <1>4, <1>5, <1>6, <1>7 DEF CamOK

\* It waits for the threads to leave their loops.
LEMMA CloseWaitInv ==
  ASSUME NEW c \in Cams, InHand(c), CloseWait
  PROVE  CamOK(c)'
<1> USE DEF InHand
<1>1. /\ cam[c] \in CamInfo /\ main \in MainInfo
      /\ main'.open_alg = main.open_alg
      /\ main.pc = "close_wait" /\ main'.pc = "close_join_decode"
      /\ Works(c) /\ ~Late
  BY DEF CloseWait, At, TypeOK, MainInfo, MainOK, Works, Late, CloseSteps, OpenSteps
<1>2. Continues
  BY <1>1 DEF CloseWait, At, Continues, MainInfo, env, hist
<1>3. /\ decoder' = decoder /\ process' = process
      /\ cam'[c].rtsp_thread = cam[c].rtsp_thread
      /\ cam'[c].process_thread = cam[c].process_thread
      /\ cam'[c].holds = cam[c].holds
      /\ cam'[c].alg = cam[c].alg
      /\ cam'[c].open_alg = cam[c].open_alg
      /\ cam'[c].have_frame_size = cam[c].have_frame_size
      /\ cam'[c].buf = cam[c].buf
      /\ cam'[c].curr_stat = cam[c].curr_stat
      /\ cam'[c].vtype = cam[c].vtype
      /\ cam'[c].cmd = cam[c].cmd
      /\ asked' = asked
  BY <1>1 DEF CloseWait, TypeOK, MainOK, CamInfo, threads, env, hist
<1>4. Shape(c)'
  BY <1>1, <1>2, <1>3 DEF CamOK, Shape, Works, Continues, Up, Down, Has, MainOK,
     CloseSteps, OpenSteps
<1>5. ThreadOK(c)'
  BY <1>1, <1>2, <1>3 DEF CamOK, ThreadOK, Answering, Continues
<1>6. OrderedOK(c)'
  BY <1>1, <1>2, <1>3, Early DEF CamOK
<1>7. SettledOK(c)'
  <2>1. ~Late' /\ main.cmd # "BOOT" => c \in asked' /\ Fresh(c)'
    BY <1>1, <1>2, <1>3 DEF CamOK, SettledOK, Fresh, Answering, Late, Continues, MainOK
  <2> QED
    BY <1>1, <1>2, <1>3, <2>1, EarlySettled DEF MainOK
<1> QED
  BY <1>4, <1>5, <1>6, <1>7 DEF CamOK

\* It releases the instance, which open_alg had allocated.
LEMMA CloseReleaseInv ==
  ASSUME NEW c \in Cams, InHand(c), CloseRelease
  PROVE  CamOK(c)'
<1> USE DEF InHand
<1>1. /\ cam[c] \in CamInfo /\ main \in MainInfo
      /\ main'.open_alg = main.open_alg
      /\ main.pc = "close_release" /\ main'.pc = "close_free"
      /\ Works(c) /\ ~Late
  BY DEF CloseRelease, At, TypeOK, MainInfo, MainOK, Works, Late, CloseSteps, OpenSteps
<1>2. Continues
  BY <1>1 DEF CloseRelease, At, Continues, MainInfo, env, hist
<1>3. /\ decoder' = decoder /\ process' = process
      /\ cam'[c].rtsp_thread = cam[c].rtsp_thread
      /\ cam'[c].process_thread = cam[c].process_thread
      /\ cam'[c].holds = cam[c].holds
      /\ cam'[c].alg = FALSE
      /\ cam'[c].open_alg = cam[c].open_alg
      /\ cam'[c].have_frame_size = cam[c].have_frame_size
      /\ cam'[c].buf = cam[c].buf
      /\ cam'[c].curr_stat = cam[c].curr_stat
      /\ cam'[c].vtype = cam[c].vtype
      /\ cam'[c].cmd = cam[c].cmd
      /\ asked' = asked
  <2>1. main.open_alg
    BY <1>1 DEF CamOK, Shape
  <2> QED
    BY <1>1, <2>1 DEF CloseRelease, TypeOK, CamInfo, threads, env, hist
<1>4. Shape(c)'
  BY <1>1, <1>2, <1>3 DEF CamOK, Shape, Works, Continues, Up, Down, Has, MainOK,
     CloseSteps, OpenSteps
<1>5. ThreadOK(c)'
  BY <1>1, <1>2, <1>3 DEF CamOK, ThreadOK, Answering, Continues
<1>6. OrderedOK(c)'
  BY <1>1, <1>2, <1>3, Early DEF CamOK
<1>7. SettledOK(c)'
  <2>1. ~Late' /\ main.cmd # "BOOT" => c \in asked' /\ Fresh(c)'
    BY <1>1, <1>2, <1>3 DEF CamOK, SettledOK, Fresh, Answering, Late, Continues, MainOK
  <2> QED
    BY <1>1, <1>2, <1>3, <2>1, EarlySettled DEF MainOK
<1> QED
  BY <1>4, <1>5, <1>6, <1>7 DEF CamOK

\* It frees the buffers: no thread is left that uses them.
LEMMA CloseFreeInv ==
  ASSUME NEW c \in Cams, InHand(c), CloseFree
  PROVE  CamOK(c)'
<1> USE DEF InHand
<1>1. /\ cam[c] \in CamInfo /\ main \in MainInfo
      /\ main'.open_alg = main.open_alg
      /\ main.pc = "close_free" /\ main'.pc \in {"close_stat", "close_done"}
      /\ Works(c) /\ ~Late
  BY DEF CloseFree, At, TypeOK, MainInfo, MainOK, Works, Late, CloseSteps, OpenSteps,
     Answers
<1>2. Continues
  BY <1>1 DEF CloseFree, At, Continues, MainInfo, env, hist
<1>3. /\ decoder' = decoder /\ process' = process
      /\ cam'[c].rtsp_thread = cam[c].rtsp_thread
      /\ cam'[c].process_thread = cam[c].process_thread
      /\ cam'[c].holds = cam[c].holds
      /\ cam'[c].alg = cam[c].alg
      /\ cam'[c].open_alg = cam[c].open_alg
      /\ cam'[c].have_frame_size = FALSE
      /\ cam'[c].buf = FALSE
      /\ cam'[c].curr_stat = cam[c].curr_stat
      /\ cam'[c].vtype = cam[c].vtype
      /\ cam'[c].cmd = cam[c].cmd
      /\ asked' = asked
  BY <1>1 DEF CloseFree, TypeOK, MainOK, CamInfo, threads, env, hist
<1>4. Shape(c)'
  BY <1>1, <1>2, <1>3 DEF CamOK, Shape, Works, Continues, Up, Down, Has, MainOK,
     CloseSteps, OpenSteps
<1>5. ThreadOK(c)'
  BY <1>1, <1>2, <1>3 DEF CamOK, ThreadOK, Answering, Continues, Shape, Works, Up,
     Down, Has, Tids
<1>6. OrderedOK(c)'
  BY <1>1, <1>2, <1>3, Early DEF CamOK
<1>7. SettledOK(c)'
  <2>1. ~Late' /\ main.cmd # "BOOT" => c \in asked' /\ Fresh(c)'
    BY <1>1, <1>2, <1>3 DEF CamOK, SettledOK, Fresh, Answering, Late, Continues, MainOK
  <2> QED
    BY <1>1, <1>2, <1>3, <2>1, EarlySettled DEF MainOK
<1> QED
  BY <1>4, <1>5, <1>6, <1>7 DEF CamOK

\* It takes the status back: nobody is left to answer with the old one.
LEMMA CloseStatusInv ==
  ASSUME NEW c \in Cams, InHand(c), CloseStatus
  PROVE  CamOK(c)'
<1> USE DEF InHand
<1>1. /\ cam[c] \in CamInfo /\ main \in MainInfo
      /\ main'.open_alg = main.open_alg
      /\ main.pc = "close_stat" /\ main'.pc = "close_reply"
      /\ Works(c) /\ ~Late
  BY DEF CloseStatus, At, TypeOK, MainInfo, MainOK, Works, Late, CloseSteps, OpenSteps
<1>2. Continues
  BY <1>1 DEF CloseStatus, At, Continues, MainInfo, env, hist
<1>3. /\ decoder' = decoder /\ process' = process
      /\ cam'[c].rtsp_thread = cam[c].rtsp_thread
      /\ cam'[c].process_thread = cam[c].process_thread
      /\ cam'[c].holds = cam[c].holds
      /\ cam'[c].alg = cam[c].alg
      /\ cam'[c].open_alg = cam[c].open_alg
      /\ cam'[c].have_frame_size = cam[c].have_frame_size
      /\ cam'[c].buf = cam[c].buf
      /\ cam'[c].curr_stat = "NONE"
      /\ cam'[c].vtype = cam[c].vtype
      /\ cam'[c].cmd = cam[c].cmd
      /\ asked' = asked
  BY <1>1 DEF CloseStatus, TypeOK, MainOK, CamInfo, threads, env, hist
<1>4. Shape(c)'
  BY <1>1, <1>2, <1>3 DEF CamOK, Shape, Works, Continues, Up, Down, Has, MainOK,
     CloseSteps, OpenSteps
<1>5. ThreadOK(c)'
  BY <1>1, <1>2, <1>3 DEF CamOK, ThreadOK, Answering, Continues, Shape, Works, Up,
     Down, Has, Tids
<1>6. OrderedOK(c)'
  BY <1>1, <1>2, <1>3, Early DEF CamOK
<1>7. SettledOK(c)'
  <2>1. ~Late' /\ main.cmd # "BOOT" => c \in asked' /\ Fresh(c)'
    BY <1>1, <1>2, <1>3 DEF CamOK, SettledOK, Fresh, Answering, Late, Continues, MainOK
  <2> QED
    BY <1>1, <1>2, <1>3, <2>1, EarlySettled DEF MainOK
<1> QED
  BY <1>4, <1>5, <1>6, <1>7 DEF CamOK

\* It answers the operator, who is still there to be answered.
LEMMA CloseReplyInv ==
  ASSUME NEW c \in Cams, InHand(c), CloseReply
  PROVE  CamOK(c)'
<1> USE DEF InHand
<1>1. /\ cam[c] \in CamInfo /\ main \in MainInfo
      /\ main'.open_alg = main.open_alg
      /\ main.pc = "close_reply" /\ main'.pc \in {"close_fd", "close_done"}
      /\ Works(c) /\ ~Late
  BY DEF CloseReply, TypeOK, MainInfo, MainOK, Works, Late, CloseSteps, OpenSteps
<1>2. Continues
  BY <1>1 DEF CloseReply, Continues, MainInfo
<1>3. /\ decoder' = decoder /\ process' = process
      /\ cam'[c].rtsp_thread = cam[c].rtsp_thread
      /\ cam'[c].process_thread = cam[c].process_thread
      /\ cam'[c].holds = cam[c].holds
      /\ cam'[c].alg = cam[c].alg
      /\ cam'[c].open_alg = cam[c].open_alg
      /\ cam'[c].have_frame_size = cam[c].have_frame_size
      /\ cam'[c].buf = cam[c].buf
      /\ cam'[c].curr_stat = cam[c].curr_stat
      /\ cam'[c].vtype = cam[c].vtype
      /\ cam'[c].cmd = cam[c].cmd
      /\ asked' \in {asked, asked \ {c}}
  BY <1>1 DEF CloseReply, TypeOK, MainOK, CamInfo, threads
<1>4. Shape(c)'
  BY <1>1, <1>2, <1>3 DEF CamOK, Shape, Works, Continues, Up, Down, Has, MainOK,
     CloseSteps, OpenSteps
<1>5. ThreadOK(c)'
  BY <1>1, <1>2, <1>3 DEF CamOK, ThreadOK, Answering, Continues
<1>6. OrderedOK(c)'
  BY <1>1, <1>2, <1>3, Early DEF CamOK
<1>7. SettledOK(c)'
  <2>1. ~Late' /\ main.cmd # "BOOT" => c \in asked' /\ Fresh(c)'
    BY <1>1, <1>2, <1>3 DEF CamOK, SettledOK, Fresh, Answering, Late, Continues, MainOK
  <2> QED
    BY <1>1, <1>2, <1>3, <2>1, EarlySettled DEF MainOK
<1> QED
  BY <1>4, <1>5, <1>6, <1>7 DEF CamOK

\* camera_open sets the status.
LEMMA OpenStatusInv ==
  ASSUME NEW c \in Cams, InHand(c), OpenStatus
  PROVE  CamOK(c)'
<1> USE DEF InHand
<1>1. /\ cam[c] \in CamInfo /\ main \in MainInfo
      /\ main'.open_alg = main.open_alg
      /\ main.pc = "open" /\ main'.pc = "open_gpu"
      /\ Works(c) /\ ~Late
  BY DEF OpenStatus, At, TypeOK, MainInfo, MainOK, Works, Late, CloseSteps, OpenSteps
<1>2. Continues
  BY <1>1 DEF OpenStatus, At, Continues, MainInfo, env, hist
<1>3. /\ decoder' = decoder /\ process' = process
      /\ cam'[c].rtsp_thread = cam[c].rtsp_thread
      /\ cam'[c].process_thread = cam[c].process_thread
      /\ cam'[c].holds = cam[c].holds
      /\ cam'[c].alg = cam[c].alg
      /\ cam'[c].open_alg = cam[c].open_alg
      /\ cam'[c].have_frame_size = cam[c].have_frame_size
      /\ cam'[c].buf = cam[c].buf
      /\ cam'[c].curr_stat = "OPENING"
      /\ cam'[c].vtype = cam[c].vtype
      /\ cam'[c].cmd = cam[c].cmd
      /\ asked' = asked
  BY <1>1 DEF OpenStatus, TypeOK, MainOK, CamInfo, threads, env, hist
<1>4. Shape(c)'
  BY <1>1, <1>2, <1>3 DEF CamOK, Shape, Works, Continues, Up, Down, Has, MainOK,
     CloseSteps, OpenSteps
<1>5. ThreadOK(c)'
  BY <1>1, <1>2, <1>3 DEF CamOK, ThreadOK, Answering, Continues, Shape, Works, Up,
     Down, Has, Tids
<1>6. OrderedOK(c)'
  BY <1>1, <1>2, <1>3, Early DEF CamOK
<1>7. SettledOK(c)'
  <2>1. ~Late' /\ main.cmd # "BOOT" => c \in asked' /\ Fresh(c)'
    BY <1>1, <1>2, <1>3 DEF CamOK, SettledOK, Fresh, Answering, Late, Continues, MainOK
  <2> QED
    BY <1>1, <1>2, <1>3, <2>1, EarlySettled DEF MainOK
<1> QED
  BY <1>4, <1>5, <1>6, <1>7 DEF CamOK
\* The decode thread is joined through its handle, and it is the only one.
LEMMA CloseJoinDecodeInv ==
  ASSUME NEW c \in Cams, InHand(c), CloseJoinDecode
  PROVE  CamOK(c)'
<1> USE DEF InHand
<1>1. /\ cam[c] \in CamInfo /\ main \in MainInfo
      /\ main'.open_alg = main.open_alg
      /\ main.pc = "close_join_decode" /\ main'.pc = "close_join_alg"
      /\ Works(c) /\ ~Late
  BY DEF CloseJoinDecode, At, TypeOK, MainInfo, MainOK, Works, Late, CloseSteps
<1>2. Continues
  BY <1>1 DEF CloseJoinDecode, At, Continues, MainInfo, env, hist
<1>3. /\ process' = process
      /\ cam'[c].rtsp_thread = 0
      /\ cam'[c].process_thread = cam[c].process_thread
      /\ cam'[c].holds = cam[c].holds
      /\ cam'[c].alg = cam[c].alg
      /\ cam'[c].open_alg = cam[c].open_alg
      /\ cam'[c].have_frame_size = cam[c].have_frame_size
      /\ cam'[c].buf = cam[c].buf
      /\ cam'[c].curr_stat = cam[c].curr_stat
      /\ cam'[c].vtype = cam[c].vtype
      /\ cam'[c].cmd = cam[c].cmd
      /\ asked' = asked
  BY <1>1 DEF CloseJoinDecode, TypeOK, CamInfo, env, hist
<1>a. \A k \in Tids : decoder'[c][k].pc = "none"
  <2>1. /\ cam[c].rtsp_thread \in Tids
        /\ decoder' = [decoder EXCEPT ![c][cam[c].rtsp_thread] = NoDecoder]
    <3>1. cam[c].rtsp_thread \in Tids \cup {0} /\ cam[c].rtsp_thread # 0
      BY <1>1, FieldTypes DEF CamOK, Shape, Has
    <3> QED
      BY <3>1 DEF CloseJoinDecode
  <2>2. \A k \in Tids : k # cam[c].rtsp_thread => decoder[c][k].pc = "none"
    BY DEF CamOK, ThreadOK
  <2> QED
    BY <2>1, <2>2 DEF TypeOK, NoDecoder
<1>4. Shape(c)'
  BY <1>1, <1>2, <1>3 DEF CamOK, Shape, Works, Continues, Has
<1>5. ThreadOK(c)'
  BY <1>1, <1>2, <1>3, <1>a DEF CamOK, ThreadOK, Answering, Continues
<1>6. OrderedOK(c)'
  BY <1>1, <1>2, <1>3, Early DEF CamOK
<1>7. SettledOK(c)'
  <2>1. ~Late' /\ main.cmd # "BOOT" => c \in asked' /\ Fresh(c)'
    BY <1>1, <1>3, <1>a DEF CamOK, SettledOK, Fresh, Answering
  <2> QED
    BY <1>1, <1>2, <1>3, <2>1, EarlySettled
<1> QED
  BY <1>4, <1>5, <1>6, <1>7 DEF CamOK

\* So is the algorithm thread: none is left that runs the instance.
LEMMA CloseJoinAlgInv ==
  ASSUME NEW c \in Cams, InHand(c), CloseJoinAlg
  PROVE  CamOK(c)'
<1> USE DEF InHand
<1>1. /\ cam[c] \in CamInfo /\ main \in MainInfo
      /\ main'.open_alg = main.open_alg
      /\ main.pc = "close_join_alg" /\ main'.pc = "close_release"
      /\ Works(c) /\ ~Late
  BY DEF CloseJoinAlg, At, TypeOK, MainInfo, MainOK, Works, Late, CloseSteps
<1>2. Continues
  BY <1>1 DEF CloseJoinAlg, At, Continues, MainInfo, env, hist
<1>3. /\ decoder' = decoder
      /\ cam'[c].rtsp_thread = cam[c].rtsp_thread
      /\ cam'[c].process_thread = 0
      /\ cam'[c].holds = cam[c].holds
      /\ cam'[c].alg = cam[c].alg
      /\ cam'[c].open_alg = cam[c].open_alg
      /\ cam'[c].have_frame_size = cam[c].have_frame_size
      /\ cam'[c].buf = cam[c].buf
      /\ cam'[c].curr_stat = cam[c].curr_stat
      /\ cam'[c].vtype = cam[c].vtype
      /\ cam'[c].cmd = cam[c].cmd
      /\ asked' = asked
  BY <1>1 DEF CloseJoinAlg, TypeOK, CamInfo, env, hist
<1>a. \A k \in Tids : process'[c][k] = "none"
  <2>1. /\ cam[c].process_thread \in Tids
        /\ process' = [process EXCEPT ![c][cam[c].process_thread] = "none"]
    <3>1. cam[c].process_thread \in Tids \cup {0} /\ cam[c].process_thread # 0
      BY <1>1, FieldTypes DEF CamOK, Shape, Has
    <3> QED
      BY <3>1 DEF CloseJoinAlg
  <2>2. \A k \in Tids : k # cam[c].process_thread => process[c][k] = "none"
    BY DEF CamOK, ThreadOK
  <2> QED
    BY <2>1, <2>2 DEF TypeOK
<1>4. Shape(c)'
  BY <1>1, <1>2, <1>3 DEF CamOK, Shape, Works, Continues, Has
<1>5. ThreadOK(c)'
  BY <1>1, <1>2, <1>3, <1>a DEF CamOK, ThreadOK, Answering, Continues
<1>6. OrderedOK(c)'
  BY <1>1, <1>2, <1>3, Early DEF CamOK
<1>7. SettledOK(c)'
  <2>1. ~Late' /\ main.cmd # "BOOT" => c \in asked' /\ Fresh(c)'
    BY <1>1, <1>3 DEF CamOK, SettledOK, Fresh, Answering
  <2> QED
    BY <1>1, <1>2, <1>3, <2>1, EarlySettled
<1> QED
  BY <1>4, <1>5, <1>6, <1>7 DEF CamOK

\* A command whose answer may be out stays the only one camera_main knows of, even
\* if the next request is under way.
LEMMA Answered ==
  ASSUME NEW c \in Cams, CamOK(c), main.at = c, Continues, Late, Late',
         cam'[c].cmd = cam[c].cmd, c \in asked' <=> c \in asked,
         cam'[c].vtype = cam[c].vtype, decoder' = decoder,
         main'.pc # "open_thread"
  PROVE  OrderedOK(c)' /\ SettledOK(c)'
<1>1. Works(c) /\ Works(c)'
  BY DEF Works, Continues
<1>2. /\ Ordered(c)' <=> Ordered(c)
      /\ Pending(c)' <=> Pending(c)
      /\ Newer(c)' <=> Newer(c)
      /\ NextCmd(c)' = NextCmd(c)
      /\ Fresh(c)' <=> Fresh(c)
  BY <1>1 DEF Ordered, Pending, Newer, Continues, NextCmd, Fresh, Answering
<1>3. OrderedOK(c)'
  BY <1>1, <1>2 DEF CamOK, OrderedOK, Continues
<1>4. SettledOK(c)'
  BY <1>1, <1>2 DEF CamOK, SettledOK, Continues, Opened, Late
<1> QED
  BY <1>3, <1>4

\* The operator need not wait any more.
LEMMA CloseFdInv ==
  ASSUME NEW c \in Cams, InHand(c), CloseFd
  PROVE  CamOK(c)'
<1> USE DEF InHand
<1>1. /\ cam[c] \in CamInfo /\ main \in MainInfo
      /\ main'.open_alg = main.open_alg
      /\ main.pc = "close_fd" /\ main'.pc = "close_done"
      /\ Works(c) /\ Late
  BY DEF CloseFd, At, TypeOK, MainInfo, MainOK, Works, Late, CloseSteps, OpenSteps
<1>2. Continues
  BY <1>1 DEF CloseFd, At, Continues, MainInfo, env, hist
<1>3. /\ decoder' = decoder /\ process' = process
      /\ cam'[c].rtsp_thread = cam[c].rtsp_thread
      /\ cam'[c].process_thread = cam[c].process_thread
      /\ cam'[c].holds = cam[c].holds
      /\ cam'[c].alg = cam[c].alg
      /\ cam'[c].open_alg = cam[c].open_alg
      /\ cam'[c].have_frame_size = cam[c].have_frame_size
      /\ cam'[c].buf = cam[c].buf
      /\ cam'[c].curr_stat = cam[c].curr_stat
      /\ cam'[c].vtype = cam[c].vtype
      /\ cam'[c].cmd = cam[c].cmd
      /\ asked' = asked
  BY <1>1 DEF CloseFd, TypeOK, MainOK, CamInfo, threads, env, hist
<1>4. Shape(c)'
  BY <1>1, <1>2, <1>3 DEF CamOK, Shape, Works, Continues, Up, Down, Has, MainOK,
     CloseSteps, OpenSteps
<1>5. ThreadOK(c)'
  BY <1>1, <1>2, <1>3 DEF CamOK, ThreadOK, Answering, Continues
<1>6. OrderedOK(c)' /\ SettledOK(c)'
  <2>1. Late' /\ main'.pc # "open_thread"
    BY <1>1, <1>2 DEF Late, Continues, MainOK
  <2> QED
    BY <1>1, <1>2, <1>3, <2>1, Answered
<1> QED
  BY <1>4, <1>5, <1>6 DEF CamOK

\* camera_close is done: the camera is down, and a RESET opens it again.
LEMMA CloseDoneInv ==
  ASSUME NEW c \in Cams, InHand(c), CloseDone
  PROVE  CamOK(c)'
<1> USE DEF InHand
<1>1. /\ cam[c] \in CamInfo /\ main \in MainInfo
      /\ main'.open_alg = main.open_alg
      /\ main.pc = "close_done" /\ main.cmd \in {"CLOSE", "RESET"}
      /\ main'.pc = IF main.cmd = "RESET" THEN "open" ELSE "finish"
      /\ Works(c)
  BY DEF CloseDone, At, TypeOK, MainInfo, MainOK, Works, CloseSteps
<1>2. Continues
  BY <1>1 DEF CloseDone, At, Continues, MainInfo, env, hist
<1>3. /\ decoder' = decoder /\ process' = process
      /\ cam'[c].rtsp_thread = cam[c].rtsp_thread
      /\ cam'[c].process_thread = cam[c].process_thread
      /\ cam'[c].holds = cam[c].holds
      /\ cam'[c].alg = cam[c].alg
      /\ cam'[c].open_alg = cam[c].open_alg
      /\ cam'[c].have_frame_size = cam[c].have_frame_size
      /\ cam'[c].buf = cam[c].buf
      /\ cam'[c].curr_stat = cam[c].curr_stat
      /\ cam'[c].vtype = cam[c].vtype
      /\ cam'[c].cmd = cam[c].cmd
      /\ asked' = asked
  BY <1>1 DEF CloseDone, TypeOK, CamInfo, threads, env, hist
<1>4. Shape(c)'
  BY <1>1, <1>2, <1>3 DEF CamOK, Shape, Works, Continues, Down, Has
<1>5. ThreadOK(c)'
  BY <1>1, <1>2, <1>3 DEF CamOK, ThreadOK, Answering, Continues
<1>6. CASE main.cmd = "CLOSE"
  <2>1. Late /\ Late' /\ main'.pc # "open_thread"
    BY <1>1, <1>2, <1>6 DEF Late, Continues
  <2> QED
    BY <1>2, <1>3, <1>4, <1>5, <2>1, Answered DEF CamOK
<1>7. CASE main.cmd = "RESET"
  <2>1. ~Late /\ main'.pc = "open"
    BY <1>1, <1>7 DEF Late
  <2>2. ~Late' /\ main.cmd # "BOOT" => c \in asked' /\ Fresh(c)'
    BY <1>1, <1>3, <2>1 DEF CamOK, SettledOK, Fresh, Answering
  <2>3. OrderedOK(c)' /\ SettledOK(c)'
    BY <1>2, <1>3, <2>1, <2>2, Early, EarlySettled
  <2> QED
    BY <1>4, <1>5, <2>3 DEF CamOK
<1> QED
  BY <1>1, <1>6, <1>7

\* camera_open finds a place and takes the configuration that was saved last.
LEMMA OpenGpuInv ==
  ASSUME NEW c \in Cams, InHand(c), OpenGpu, Room # {}
  PROVE  CamOK(c)'
<1> USE DEF InHand
<1>1. /\ cam[c] \in CamInfo /\ main \in MainInfo
      /\ main.pc = "open_gpu" /\ main' = [main EXCEPT !.pc = "open_thread"]
      /\ Works(c) /\ ~Late
  BY Zenon DEF OpenGpu, TypeOK, Works, Late
<1>2. Continues /\ main'.pc = "open_thread"
  BY <1>1 DEF OpenGpu, Continues, MainInfo
<1>g. PICK g \in Room :
        cam' = [cam EXCEPT ![main.at].gpu_index = g, ![main.at].holds = TRUE,
                           ![main.at].vtype = camdetect[main.at]]
  BY Zenon DEF OpenGpu, NewType
<1>3. /\ decoder' = decoder /\ process' = process
      /\ cam'[c].rtsp_thread = cam[c].rtsp_thread
      /\ cam'[c].process_thread = cam[c].process_thread
      /\ cam'[c].holds = TRUE
      /\ cam'[c].alg = cam[c].alg
      /\ cam'[c].open_alg = cam[c].open_alg
      /\ cam'[c].have_frame_size = cam[c].have_frame_size
      /\ cam'[c].buf = cam[c].buf
      /\ cam'[c].curr_stat = cam[c].curr_stat
      /\ cam'[c].vtype = camdetect[c]
      /\ cam'[c].cmd = cam[c].cmd
      /\ asked' = asked
  BY <1>1, <1>g DEF OpenGpu, TypeOK, CamInfo, threads
<1>4. Shape(c)'
  BY <1>1, <1>2, <1>3 DEF CamOK, Shape, Works, Continues, Down, Has
<1>5. ThreadOK(c)'
  <2>1. \A k \in Tids : ~Answering(c, k)
    BY <1>1 DEF CamOK, ThreadOK, Shape, Down, Has, Tids, Answering
  <2> QED
    BY <1>1, <1>2, <1>3, <2>1 DEF CamOK, ThreadOK, Answering, Continues
<1>6. OrderedOK(c)'
  BY <1>1, <1>2, <1>3, Early DEF CamOK
<1>7. SettledOK(c)'
  <2>1. ~Late' /\ main.cmd # "BOOT" => c \in asked' /\ Fresh(c)'
    BY <1>1, <1>2, <1>3 DEF CamOK, SettledOK, Fresh, Answering
  <2> QED
    BY <1>1, <1>2, <1>3, <2>1, EarlySettled
<1> QED
  BY <1>4, <1>5, <1>6, <1>7 DEF CamOK

\* It starts a decode thread, in a slot of the camera that is free.
LEMMA OpenThreadInv ==
  ASSUME NEW c \in Cams, InHand(c), OpenThread
  PROVE  CamOK(c)'
<1> USE DEF InHand
<1>1. /\ cam[c] \in CamInfo /\ main \in MainInfo
      /\ main'.open_alg = main.open_alg
      /\ main.pc = "open_thread" /\ main'.pc = "open_alg"
      /\ Works(c) /\ ~Late /\ main.cmd # "CLOSE"
  BY DEF OpenThread, At, TypeOK, MainInfo, MainOK, Works, Late, OpenSteps
<1>2. Continues
  BY <1>1 DEF OpenThread, At, Continues, MainInfo, env, hist
<1>k. PICK k \in Tids :
        /\ decoder' = [decoder EXCEPT ![main.at][k].pc = "reply"]
        /\ cam' = [cam EXCEPT ![main.at].rtsp_thread = k]
  BY Zenon DEF OpenThread
<1>3. /\ process' = process
      /\ cam'[c].rtsp_thread = k
      /\ cam'[c].process_thread = cam[c].process_thread
      /\ cam'[c].holds = cam[c].holds
      /\ cam'[c].alg = cam[c].alg
      /\ cam'[c].open_alg = cam[c].open_alg
      /\ cam'[c].have_frame_size = cam[c].have_frame_size
      /\ cam'[c].buf = cam[c].buf
      /\ cam'[c].curr_stat = cam[c].curr_stat
      /\ cam'[c].vtype = cam[c].vtype
      /\ cam'[c].cmd = cam[c].cmd
      /\ asked' = asked
  BY <1>1, <1>k DEF OpenThread, TypeOK, CamInfo, env, hist
<1>a. \A j \in Tids : j # k => decoder'[c][j].pc = "none"
  <2>1. \A j \in Tids : decoder[c][j].pc = "none"
    BY <1>1 DEF CamOK, ThreadOK, Shape, Has, Tids
  <2> QED
    BY <1>k, <2>1 DEF TypeOK
<1>b. k # 0
  BY DEF Tids
<1>4. Shape(c)'
  BY <1>1, <1>2, <1>3, <1>b DEF CamOK, Shape, Works, Continues, Has
<1>5. ThreadOK(c)'
  <2>1. /\ cam'[c].curr_stat = "OPENING" /\ cam'[c].vtype = camdetect'[c]
        /\ ~cam'[c].have_frame_size
    BY <1>1, <1>2, <1>3 DEF CamOK, ThreadOK, SettledOK, Shape, Continues
  <2> QED
    BY <1>1, <1>2, <1>3, <1>a, <2>1 DEF CamOK, ThreadOK, Answering, Continues
<1>6. OrderedOK(c)'
  BY <1>1, <1>2, <1>3, Early DEF CamOK
<1>7. SettledOK(c)'
  <2>1. Late' \/ main.cmd = "BOOT"
    BY <1>1, <1>2 DEF Late, Continues
  <2> QED
    BY <1>1, <1>2, <1>3, <2>1, EarlySettled
<1> QED
  BY <1>4, <1>5, <1>6, <1>7 DEF CamOK

\* It allocates the instance; the decode thread may have answered by now.
LEMMA OpenAlgInv ==
  ASSUME NEW c \in Cams, InHand(c), OpenAlg
  PROVE  CamOK(c)'
<1> USE DEF InHand
<1>1. /\ cam[c] \in CamInfo /\ main \in MainInfo
      /\ main'.open_alg = main.open_alg
      /\ main.pc = "open_alg" /\ main'.pc = "open_run" /\ Works(c)
  BY DEF OpenAlg, At, TypeOK, MainInfo, Works
<1>2. Continues
  BY <1>1 DEF OpenAlg, At, Continues, MainInfo, env, hist
<1>3. /\ decoder' = decoder /\ process' = process
      /\ cam'[c].rtsp_thread = cam[c].rtsp_thread
      /\ cam'[c].process_thread = cam[c].process_thread
      /\ cam'[c].holds = cam[c].holds
      /\ cam'[c].alg = TRUE
      /\ cam'[c].open_alg = cam[c].open_alg
      /\ cam'[c].have_frame_size = cam[c].have_frame_size
      /\ cam'[c].buf = cam[c].buf
      /\ cam'[c].curr_stat = cam[c].curr_stat
      /\ cam'[c].vtype = cam[c].vtype
      /\ cam'[c].cmd = cam[c].cmd
      /\ asked' = asked
  BY <1>1 DEF OpenAlg, TypeOK, CamInfo, threads, env, hist
<1>4. Shape(c)'
  BY <1>1, <1>2, <1>3 DEF CamOK, Shape, Works, Continues, Has
<1>5. ThreadOK(c)'
  BY <1>1, <1>2, <1>3 DEF CamOK, ThreadOK, Answering, Continues
<1>6. OrderedOK(c)' /\ SettledOK(c)'
  <2>1. CASE main.cmd = "BOOT"
    <3>1. ~Late
      BY <2>1 DEF Late
    <3> QED
      BY <1>1, <1>2, <1>3, <2>1, <3>1, Early, EarlySettled
  <2>2. CASE main.cmd # "BOOT"
    <3>1. Late /\ Late'
      BY <1>1, <1>2, <2>2 DEF Late, Continues
    <3> QED
      BY <1>1, <1>2, <1>3, <3>1, Answered
  <2> QED
    BY <2>1, <2>2
<1> QED
  BY <1>4, <1>5, <1>6 DEF CamOK

\* It starts an algorithm thread, and the camera is up.
LEMMA OpenRunInv ==
  ASSUME NEW c \in Cams, InHand(c), OpenRun
  PROVE  CamOK(c)'
<1> USE DEF InHand
<1>1. /\ cam[c] \in CamInfo /\ main \in MainInfo
      /\ main'.open_alg = main.open_alg
      /\ main.pc = "open_run" /\ main'.pc = "finish" /\ Works(c)
      /\ main.cmd # "CLOSE"
  BY DEF OpenRun, At, TypeOK, MainInfo, MainOK, Works, OpenSteps
<1>2. Continues
  BY <1>1 DEF OpenRun, At, Continues, MainInfo, env, hist
<1>k. PICK k \in Tids :
        /\ process' = [process EXCEPT ![main.at][k] = "loop"]
        /\ cam' = [cam EXCEPT ![main.at].open_alg = TRUE,
                              ![main.at].process_thread = k]
  BY Zenon DEF OpenRun
<1>3. /\ decoder' = decoder
      /\ cam'[c].rtsp_thread = cam[c].rtsp_thread
      /\ cam'[c].process_thread = k
      /\ cam'[c].holds = cam[c].holds
      /\ cam'[c].alg = cam[c].alg
      /\ cam'[c].open_alg = TRUE
      /\ cam'[c].have_frame_size = cam[c].have_frame_size
      /\ cam'[c].buf = cam[c].buf
      /\ cam'[c].curr_stat = cam[c].curr_stat
      /\ cam'[c].vtype = cam[c].vtype
      /\ cam'[c].cmd = cam[c].cmd
      /\ asked' = asked
  BY <1>1, <1>k DEF OpenRun, TypeOK, CamInfo, env, hist
<1>a. /\ \A j \in Tids : j # k => process'[c][j] = "none"
      /\ process'[c][k] = "loop"
  <2>1. \A j \in Tids : process[c][j] = "none"
    BY <1>1 DEF CamOK, ThreadOK, Shape, Has, Tids
  <2> QED
    BY <1>k, <2>1 DEF TypeOK
<1>b. k # 0
  BY DEF Tids
<1>4. Shape(c)'
  BY <1>1, <1>2, <1>3, <1>b DEF CamOK, Shape, Works, Continues, Has, Up
<1>5. ThreadOK(c)'
  BY <1>1, <1>2, <1>3, <1>a DEF CamOK, ThreadOK, Answering, Continues
<1>6. OrderedOK(c)' /\ SettledOK(c)'
  <2>1. CASE main.cmd = "BOOT"
    <3>1. ~Late
      BY <2>1 DEF Late
    <3> QED
      BY <1>1, <1>2, <1>3, <2>1, <3>1, Early, EarlySettled
  <2>2. CASE main.cmd # "BOOT"
    <3>1. Late /\ Late'
      BY <1>1, <1>2, <2>2 DEF Late, Continues
    <3> QED
      BY <1>1, <1>2, <1>3, <3>1, Answered
  <2> QED
    BY <2>1, <2>2
<1> QED
  BY <1>4, <1>5, <1>6 DEF CamOK

-----------------------------------------------------------------------------
(* The decode and the algorithm threads *)

\* What a step of decode thread k leaves of its camera: it may set the status, give
\* the buffers, and answer the request in hand; it never comes back to its answer.
DecodeEffect(c, k) ==
    /\ UNCHANGED <<exist, cam_num, camdetect, tcp, disorder, g_gpu_index, process, main>>
    /\ asked' = asked \/ (asked' = asked \ {c} /\ Answering(c, k))
    /\ \A d \in Cams : d # c => cam'[d] = cam[d] /\ decoder'[d] = decoder[d]
    /\ \A j \in Tids : j # k => decoder'[c][j] = decoder[c][j]
    /\ cam'[c].rtsp_thread = cam[c].rtsp_thread
    /\ cam'[c].process_thread = cam[c].process_thread
    /\ cam'[c].holds = cam[c].holds
    /\ cam'[c].gpu_index = cam[c].gpu_index
    /\ cam'[c].alg = cam[c].alg
    /\ cam'[c].open_alg = cam[c].open_alg
    /\ cam'[c].cmd = cam[c].cmd
    /\ cam'[c].vtype = cam[c].vtype
    /\ decoder[c][k].pc \notin {"none", "done"}
    /\ Answering(c, k)' => Answering(c, k) /\ cam'[c].curr_stat = cam[c].curr_stat
    /\ \/ /\ cam'[c].have_frame_size = cam[c].have_frame_size
          /\ cam'[c].buf = cam[c].buf
          /\ \/ decoder'[c][k].yuv = decoder[c][k].yuv
             \/ decoder'[c][k].pc \in {"none", "done"}
       \/ cam'[c].have_frame_size /\ cam'[c].buf /\ decoder'[c][k].yuv

\* Every step of a decode thread is of this kind.
LEMMA DecodeSteps ==
  ASSUME TypeOK, NEW c \in Cams, NEW k \in Tids, DecodeStep(c, k)
  PROVE  DecodeEffect(c, k)
<1>0. /\ cam \in [Cams -> CamInfo] /\ cam[c] \in CamInfo
      /\ decoder \in [Cams -> [Tids -> DecoderInfo]] /\ decoder[c][k] \in DecoderInfo
  BY DEF TypeOK
<1> USE <1>0 DEF DecodeEffect, Answering, CamInfo, DecoderInfo, env, hist
<1>1. CASE DecodeReply(c, k)
  BY <1>1 DEF DecodeReply
<1>2. CASE DecodeClearFd(c, k)
  BY <1>2 DEF DecodeClearFd
<1>3. CASE DecodeExit(c, k)
  BY <1>3 DEF DecodeExit, NoDecoder
<1>4. CASE DecodeTurn(c, k)
  BY <1>4 DEF DecodeTurn
<1>5. CASE DecodeOpenFails(c, k)
  BY <1>5 DEF DecodeOpenFails
<1>6. CASE DecodeOpen(c, k)
  BY <1>6 DEF DecodeOpen
<1>7. CASE DecodeFile(c, k)
  BY <1>7 DEF DecodeFile
<1>8. CASE DecodeNoFrame(c, k)
  BY <1>8 DEF DecodeNoFrame
<1>9. CASE DecodeFrame(c, k)
  BY <1>9 DEF DecodeFrame
<1>10. CASE DecodeEmpty(c, k)
  BY <1>10 DEF DecodeEmpty
<1>11. CASE DecodeAlloc(c, k)
  BY <1>11 DEF DecodeAlloc
<1>12. CASE DecodeStore(c, k)
  BY <1>12 DEF DecodeStore
<1> QED
  BY <1>1, <1>2, <1>3, <1>4, <1>5, <1>6, <1>7, <1>8, <1>9, <1>10, <1>11, <1>12
     DEF DecodeStep

\* The thread that takes a step is the one whose handle is known, so its camera is
\* not down; it answers only while nothing newer is asked of the camera.
LEMMA DecodeInv ==
  ASSUME TypeOK, NEW c \in Cams, NEW k \in Tids, CamOK(c), DecodeStep(c, k)
  PROVE  CamOK(c)'
<1>1. DecodeEffect(c, k)
  BY DecodeSteps
<1>2. cam[c].rtsp_thread = k /\ k # 0
  BY <1>1 DEF DecodeEffect, CamOK, ThreadOK, Tids
<1>3. /\ Works(c)' <=> Works(c)
      /\ Late' <=> Late
      /\ Ordered(c)' <=> Ordered(c)
      /\ Pending(c)' <=> Pending(c)
      /\ Newer(c)' <=> Newer(c)
      /\ NextCmd(c)' = NextCmd(c)
      /\ Opened(c)' <=> Opened(c)
      /\ Up(c)' <=> Up(c)
      /\ ~Down(c)
      /\ Fresh(c) => Fresh(c)'
  <2>1. /\ Works(c)' <=> Works(c)
        /\ Late' <=> Late
        /\ Pending(c)' <=> Pending(c)
        /\ Newer(c)' <=> Newer(c)
    BY <1>1 DEF DecodeEffect, Works, Late, Pending, Newer
  <2>2. NextCmd(c)' = NextCmd(c) /\ (Opened(c)' <=> Opened(c))
    BY <1>1, <2>1 DEF DecodeEffect, NextCmd, Opened, Pending
  <2>3. (Up(c)' <=> Up(c)) /\ ~Down(c)
    BY <1>1, <1>2 DEF DecodeEffect, Up, Down, Has
  <2>4. Fresh(c) => Fresh(c)'
    BY <1>1 DEF DecodeEffect, Fresh, Answering
  <2> QED
    BY <2>1, <2>2, <2>3, <2>4 DEF Ordered
<1>4. Shape(c)'
  BY <1>1, <1>2, <1>3 DEF CamOK, Shape, DecodeEffect, Has, Up, Down
<1>5. ThreadOK(c)'
  <2>1. \A j \in Tids : decoder'[c][j].pc # "none" => cam'[c].rtsp_thread = j
    BY <1>1, <1>2 DEF CamOK, ThreadOK, DecodeEffect
  <2>2. /\ \A j \in Tids : process'[c][j] # "none" => cam'[c].process_thread = j
        /\ cam'[c].have_frame_size <=> cam'[c].buf
        /\ \A j \in Tids : process'[c][j] = "run" => cam'[c].buf
    BY <1>1 DEF CamOK, ThreadOK, DecodeEffect
  <2>3. ASSUME NEW j \in Tids, cam'[c].have_frame_size,
               decoder'[c][j].pc \notin {"none", "done"}
        PROVE  decoder'[c][j].yuv
    <3>1. j = k
      BY <1>2, <2>1, <2>3, <1>1 DEF DecodeEffect
    <3> QED
      BY <1>1, <2>3, <3>1 DEF CamOK, ThreadOK, DecodeEffect
  <2>4. ~(main'.at = c /\ main'.pc \in {"open_gpu", "open_thread"})
    BY <1>1, <1>2 DEF CamOK, Shape, Works, DecodeEffect, Has, Down
  <2>5. ASSUME NEW j \in Tids, Answering(c, j)'
        PROVE  cam'[c].curr_stat = "OPENING" /\ cam'[c].vtype = camdetect'[c]
    <3>1. j = k
      BY <1>1, <1>2, <2>1, <2>5 DEF Answering, DecodeEffect
    <3> QED
      BY <1>1, <2>5, <3>1 DEF CamOK, ThreadOK, DecodeEffect
  <2> QED
    BY <2>1, <2>2, <2>3, <2>4, <2>5 DEF ThreadOK
<1>6. OrderedOK(c)'
  <2>1. Fresh(c) => asked' = asked
    BY <1>1 DEF DecodeEffect, Fresh
  <2>2. UNCHANGED <<main, tcp, exist>>
    BY <1>1 DEF DecodeEffect
  <2> QED
    BY <1>3, <2>1, <2>2 DEF CamOK, OrderedOK
<1>7. SettledOK(c)'
  <2>1. Fresh(c) => asked' = asked
    BY <1>1 DEF DecodeEffect, Fresh
  <2>2. UNCHANGED <<main, tcp, exist, camdetect>> /\ cam'[c].vtype = cam[c].vtype
    BY <1>1 DEF DecodeEffect
  <2>3. asked' = asked \/ cam'[c].vtype = camdetect[c]
    BY <1>1 DEF DecodeEffect, CamOK, ThreadOK
  <2> QED
    BY <1>3, <2>1, <2>2, <2>3 DEF CamOK, SettledOK
<1> QED
  BY <1>4, <1>5, <1>6, <1>7 DEF CamOK

\* A step of algorithm thread k only moves the thread, takes a frame away, or takes
\* and releases the socket lock; it runs the instance only with the buffers there.
ProcessEffect(c, k) ==
    /\ UNCHANGED <<env, g_gpu_index, decoder, main>>
    /\ \A d \in Cams : d # c => cam'[d] = cam[d] /\ process'[d] = process[d]
    /\ \A j \in Tids : j # k => process'[c][j] = process[c][j]
    /\ \E r \in BOOLEAN : cam'[c] = [cam[c] EXCEPT !.ready = r]
    /\ process[c][k] # "none"
    /\ process'[c][k] = "run" => cam[c].have_frame_size

\* Every step of an algorithm thread is of this kind.
LEMMA RunSteps ==
  ASSUME TypeOK, NEW c \in Cams, NEW k \in Tids, ProcessStep(c, k)
  PROVE  ProcessEffect(c, k)
<1>0. /\ cam \in [Cams -> CamInfo] /\ cam[c] \in CamInfo
      /\ process \in [Cams -> [Tids -> ProcessSteps]]
      /\ cam[c] = [cam[c] EXCEPT !.ready = cam[c].ready] /\ cam[c].ready \in BOOLEAN
  BY DEF TypeOK, CamInfo
<1> USE <1>0 DEF ProcessEffect
<1>1. CASE ProcessExit(c, k)
  BY <1>1 DEF ProcessExit
<1>2. CASE ProcessTake(c, k)
  <2>1. \E r \in BOOLEAN : cam' = [cam EXCEPT ![c].ready = r]
    BY <1>2 DEF ProcessTake
  <2>2. /\ \E r \in BOOLEAN : cam'[c] = [cam[c] EXCEPT !.ready = r]
        /\ \A d \in Cams : d # c => cam'[d] = cam[d]
    BY <2>1
  <2> QED
    BY <1>2, <2>2 DEF ProcessTake
<1>3. CASE ProcessRun(c, k)
  BY <1>3 DEF ProcessRun
<1>4. CASE ProcessSent(c, k)
  BY <1>4 DEF ProcessSent
<1> QED
  BY <1>1, <1>2, <1>3, <1>4 DEF ProcessStep

\* An algorithm thread disturbs nothing its camera relies on.
LEMMA ProcessInv ==
  ASSUME TypeOK, NEW c \in Cams, NEW k \in Tids, CamOK(c), ProcessStep(c, k)
  PROVE  CamOK(c)'
<1>1. ProcessEffect(c, k)
  BY RunSteps
<1>2. /\ cam'[c].rtsp_thread = cam[c].rtsp_thread
      /\ cam'[c].process_thread = cam[c].process_thread
      /\ cam'[c].holds = cam[c].holds
      /\ cam'[c].alg = cam[c].alg
      /\ cam'[c].open_alg = cam[c].open_alg
      /\ cam'[c].have_frame_size = cam[c].have_frame_size
      /\ cam'[c].buf = cam[c].buf
      /\ cam'[c].curr_stat = cam[c].curr_stat
      /\ cam'[c].vtype = cam[c].vtype
      /\ cam'[c].cmd = cam[c].cmd
      /\ UNCHANGED <<main, tcp, exist, camdetect, decoder, asked>>
  BY <1>1 DEF ProcessEffect, TypeOK, CamInfo, env, hist
<1>3. Shape(c)'
  BY <1>2 DEF CamOK, Shape, Works, Up, Down, Has
<1>4. ThreadOK(c)'
  BY <1>1, <1>2 DEF CamOK, ThreadOK, Answering, ProcessEffect
<1>5. OrderedOK(c)'
  BY <1>2 DEF CamOK, OrderedOK, Ordered, Pending, Newer, Works, Late, Fresh, Answering,
     NextCmd, Up, Down, Has
<1>6. SettledOK(c)'
  BY <1>2 DEF CamOK, SettledOK, Ordered, Pending, Newer, Works, Late, Fresh, Answering,
     Up, Down, Has, Opened
<1> QED
  BY <1>3, <1>4, <1>5, <1>6 DEF CamOK

-----------------------------------------------------------------------------
(* camera_main between two commands *)

\* With no command taken, a camera is as it was for the one after it.
LEMMA SkipInv ==
  ASSUME TypeOK, MainOK, NEW c \in Cams, CamOK(c), Skip
  PROVE  CamOK(c)'
<1>1. /\ UNCHANGED <<cam, decoder, process, exist, camdetect, tcp, asked>>
      /\ main.pc = "scan" /\ main'.pc = "scan" /\ main.at \in Cams
      /\ main'.at = NextCam(main.at)
      /\ main'.cmd = IF NextCam(main.at) = 0 THEN "NULL" ELSE main.cmd
      /\ main.cmd = "BOOT" => ~exist[main.at]
  BY DEF Skip, env, hist, threads, TypeOK, MainInfo
<1>2. /\ ~Works(c) /\ ~Works(c)'
      /\ Pending(c)' <=> Pending(c)
      /\ Newer(c)' <=> Newer(c)
      /\ Ordered(c)' <=> Ordered(c)
      /\ NextCmd(c)' = NextCmd(c)
      /\ Fresh(c)' <=> Fresh(c)
      /\ Up(c)' <=> Up(c)
      /\ Down(c)' <=> Down(c)
  BY <1>1 DEF Works, Pending, Newer, Ordered, NextCmd, Fresh, Answering, Up, Down, Has
<1>3. /\ main'.cmd = "BOOT" => main.cmd = "BOOT" /\ main'.at = main.at + 1
      /\ main'.cmd # "BOOT" /\ main.cmd = "BOOT" => main.at = NCams - 1
  BY <1>1, CamAssumption DEF NextCam, Cams
<1>4. /\ exist[c] /\ (main'.cmd = "BOOT" => c < main'.at) <=>
            exist[c] /\ (main.cmd = "BOOT" => c < main.at)
      /\ exist[c] /\ Opened(c)' => Opened(c)
  BY <1>1, <1>3 DEF Opened, Cams
<1>5. Shape(c)'
  BY <1>2 DEF Shape
<1>6. ThreadOK(c)'
  BY <1>1 DEF CamOK, ThreadOK, Answering
<1>7. OrderedOK(c)'
  BY <1>1, <1>2 DEF CamOK, OrderedOK
<1>8. SettledOK(c)'
  BY <1>1, <1>2, <1>4 DEF CamOK, SettledOK
<1> QED
  BY <1>5, <1>6, <1>7, <1>8 DEF CamOK

\* The command that is taken is the one that was asked for last; the camera it is for
\* is in the state that command expects.
LEMMA TakeInv ==
  ASSUME TypeOK, MainOK, NEW c \in Cams, CamOK(c), Take
  PROVE  CamOK(c)'
<1>1. /\ UNCHANGED <<cam, decoder, process, exist, camdetect, tcp, asked>>
      /\ main.pc = "scan" /\ main.at \in Cams /\ main'.at = main.at
      /\ main'.pc \in {"open", "close"}
      /\ main'.cmd = "BOOT" <=> main.cmd = "BOOT"
      /\ main.cmd = "BOOT" => exist[main.at] /\ main'.pc = "open"
      /\ main.cmd # "BOOT" => /\ cam[main.at].cmd # "NULL"
                              /\ main'.cmd = cam[main.at].cmd
                              /\ main'.pc = FirstStep(cam[main.at].cmd)
  <2>1. /\ cam[main.at].cmd \in Commands /\ main \in MainInfo
        /\ UNCHANGED <<cam, decoder, process, exist, camdetect, tcp, asked>>
        /\ main.pc = "scan" /\ main.at \in Cams
    BY FieldTypes DEF Take, env, hist, threads, TypeOK, MainInfo
  <2>2. CASE main.cmd = "BOOT"
    <3>1. exist[main.at] /\ main' = [main EXCEPT !.pc = "open"]
      BY <2>2 DEF Take
    <3> QED
      BY <2>1, <2>2, <3>1 DEF MainInfo
  <2>3. CASE main.cmd # "BOOT"
    <3>1. /\ cam[main.at].cmd # "NULL"
          /\ main' = [main EXCEPT !.cmd = cam[main.at].cmd,
                                  !.pc = FirstStep(cam[main.at].cmd)]
      BY <2>3, Zenon DEF Take
    <3>2. /\ main'.at = main.at /\ main'.cmd = cam[main.at].cmd
          /\ main'.pc = FirstStep(cam[main.at].cmd)
      BY <2>1, <3>1 DEF MainInfo
    <3> QED
      BY <2>1, <2>3, <3>1, <3>2 DEF FirstStep, Commands
  <2> QED
    BY <2>2, <2>3
<1>2. CASE c # main.at
  <2>1. /\ ~Works(c) /\ ~Works(c)'
        /\ Pending(c)' <=> Pending(c)
        /\ Newer(c)' <=> Newer(c)
        /\ Ordered(c)' <=> Ordered(c)
        /\ NextCmd(c)' = NextCmd(c)
        /\ Fresh(c)' <=> Fresh(c)
        /\ Up(c)' <=> Up(c)
        /\ Down(c)' <=> Down(c)
        /\ Opened(c)' <=> Opened(c)
    BY <1>1, <1>2 DEF Works, Pending, Newer, Ordered, NextCmd, Fresh, Answering, Up,
       Down, Has, Opened
  <2>2. Shape(c)'
    BY <2>1 DEF Shape
  <2>3. ThreadOK(c)'
    BY <1>1, <1>2 DEF CamOK, ThreadOK, Answering
  <2>4. OrderedOK(c)'
    BY <1>1, <2>1 DEF CamOK, OrderedOK
  <2>5. SettledOK(c)'
    BY <1>1, <2>1 DEF CamOK, SettledOK
  <2> QED
    BY <2>2, <2>3, <2>4, <2>5 DEF CamOK
<1>3. CASE c = main.at
  <2>1. ~Works(c) /\ Works(c)' /\ ~Late'
    BY <1>1, <1>3 DEF Works, Late
  <2>2. ~Pending(c) /\ ~Pending(c)' /\ ~Ordered(c)'
    <3>1. CASE main.cmd = "BOOT"
      BY <1>1, <1>3, <3>1 DEF MainOK, Pending, Ordered, Newer
    <3>2. CASE main.cmd # "BOOT"
      BY <1>1, <1>3, <3>2, <2>1 DEF CamOK, SettledOK, Pending, Ordered, Newer
    <3> QED
      BY <3>1, <3>2
  <2>3. /\ (main'.pc = "open" => Down(c)) /\ (main'.pc = "close" => Up(c))
        /\ exist[c] <=> main'.cmd # "CLOSE"
        /\ main'.cmd # "BOOT" => c \in asked /\ Fresh(c)
    <3>1. CASE main.cmd = "BOOT"
      <4>1. ~Ordered(c) /\ ~(c < main.at)
        BY <1>1, <1>3, <2>2, <3>1 DEF MainOK, Ordered, Newer, Cams
      <4> QED
        BY <1>1, <1>3, <2>1, <3>1, <4>1 DEF CamOK, SettledOK
    <3>2. CASE main.cmd # "BOOT"
      <4>1. Ordered(c) /\ NextCmd(c) = main'.cmd
        BY <1>1, <1>3, <2>1, <2>2, <3>2 DEF Ordered, Newer, NextCmd
      <4>2. OrderedOK(c)
        BY DEF CamOK
      <4> QED
        BY <1>1, <1>3, <2>1, <2>2, <3>2, <4>1, <4>2 DEF OrderedOK, FirstStep
    <3> QED
      BY <3>1, <3>2
  <2>4. Shape(c)'
    BY <1>1, <2>3 DEF Shape, Up, Down, Has
  <2>5. ThreadOK(c)'
    BY <1>1 DEF CamOK, ThreadOK, Answering
  <2>6. OrderedOK(c)'
    BY <2>2 DEF OrderedOK
  <2>7. SettledOK(c)'
    <3>1. ~Opened(c)' \/ main'.cmd # "BOOT"
      BY <1>1, <1>3 DEF Opened, Cams
    <3>2. main'.cmd # "BOOT" => Opened(c)
      BY <1>1 DEF Opened
    <3>3. Fresh(c)' <=> Fresh(c)
      BY <1>1 DEF Fresh, Answering
    <3> QED
      BY <1>1, <2>1, <2>2, <2>3, <3>1, <3>2, <3>3 DEF CamOK, SettledOK
  <2> QED
    BY <2>4, <2>5, <2>6, <2>7 DEF CamOK
<1> QED
  BY <1>2, <1>3

\* A command is finished without losing a different one that was posted meanwhile.
LEMMA FinishInv ==
  ASSUME TypeOK, MainOK, NEW c \in Cams, CamOK(c), Finish
  PROVE  CamOK(c)'
<1>1. /\ UNCHANGED <<decoder, process, exist, camdetect, tcp, asked>>
      /\ main.pc = "finish" /\ main'.pc = "scan" /\ main.at \in Cams
      /\ main'.at = NextCam(main.at)
      /\ main'.cmd = IF main.cmd = "BOOT" /\ NextCam(main.at) # 0
                        THEN "BOOT" ELSE "NULL"
  BY DEF Finish, env, hist, threads, TypeOK, MainInfo
<1>2. /\ main'.cmd = "BOOT" => main.cmd = "BOOT" /\ main'.at = main.at + 1
      /\ main'.cmd # "BOOT" /\ main.cmd = "BOOT" => main.at = NCams - 1
  BY <1>1, CamAssumption DEF NextCam, Cams
<1>3. /\ cam'[c].rtsp_thread = cam[c].rtsp_thread
      /\ cam'[c].process_thread = cam[c].process_thread
      /\ cam'[c].holds = cam[c].holds
      /\ cam'[c].alg = cam[c].alg
      /\ cam'[c].open_alg = cam[c].open_alg
      /\ cam'[c].have_frame_size = cam[c].have_frame_size
      /\ cam'[c].buf = cam[c].buf
      /\ cam'[c].curr_stat = cam[c].curr_stat
      /\ cam'[c].vtype = cam[c].vtype
      /\ cam'[c].cmd = IF c = main.at /\ main.cmd # "BOOT" THEN Left(cam[c].cmd)
                                                           ELSE cam[c].cmd
  <2>1. cam \in [Cams -> CamInfo] /\ cam[c] \in CamInfo
    BY DEF TypeOK
  <2>2. CASE main.cmd = "BOOT"
    BY <2>2 DEF Finish
  <2>3. CASE main.cmd # "BOOT"
    <3>1. cam' = [cam EXCEPT ![main.at].cmd = Left(@)]
      BY <2>3 DEF Finish
    <3> QED
      BY <1>1, <2>1, <2>3, <3>1 DEF CamInfo
  <2> QED
    BY <2>2, <2>3
<1>4. /\ ~Works(c)'
      /\ Works(c) <=> c = main.at
      /\ Newer(c)' <=> Newer(c)
      /\ Newer(c) => cam'[c].cmd = cam[c].cmd
  <2>1. ~Works(c)' /\ (Works(c) <=> c = main.at)
    BY <1>1 DEF Works
  <2>2. c = main.at /\ main.cmd = "BOOT" => cam[c].cmd = "NULL"
    BY DEF MainOK
  <2> QED
    BY <1>3, <2>1, <2>2 DEF Newer, Left
<1>5. /\ Pending(c)' <=> Pending(c)
      /\ Ordered(c)' <=> Ordered(c)
      /\ Ordered(c) => NextCmd(c)' = NextCmd(c)
      /\ Fresh(c)' <=> Fresh(c)
      /\ Up(c)' <=> Up(c)
      /\ Down(c)' <=> Down(c)
  BY <1>1, <1>3, <1>4 DEF Pending, Ordered, NextCmd, Fresh, Answering, Up, Down, Has
<1>6. /\ c # main.at =>
           (exist[c] /\ (main'.cmd = "BOOT" => c < main'.at) <=>
            exist[c] /\ (main.cmd = "BOOT" => c < main.at))
      /\ c = main.at => (main'.cmd = "BOOT" => c < main'.at)
      /\ Opened(c)' => Opened(c)
  BY <1>1, <1>2 DEF Opened, Cams
<1>7. Shape(c)'
  BY <1>4 DEF Shape
<1>8. ThreadOK(c)'
  BY <1>1, <1>3 DEF CamOK, ThreadOK, Answering
<1>9. OrderedOK(c)'
  <2>1. Works(c) => IF main.cmd = "CLOSE" THEN Down(c) ELSE Up(c)
    BY <1>1 DEF CamOK, Shape
  <2> QED
    BY <1>1, <1>3, <1>4, <1>5, <2>1 DEF CamOK, OrderedOK
<1>10. SettledOK(c)'
  <2>1. Works(c) => IF main.cmd = "CLOSE" THEN Down(c) ELSE Up(c)
    BY <1>1 DEF CamOK, Shape
  <2> QED
    BY <1>1, <1>3, <1>4, <1>5, <1>6, <2>1 DEF CamOK, SettledOK
<1> QED
  BY <1>7, <1>8, <1>9, <1>10 DEF CamOK

-----------------------------------------------------------------------------
(* The operators' requests *)

\* A step of the TCP thread about another camera leaves this one as it is.
LEMMA OtherTcp ==
  ASSUME NEW c \in Cams, CamOK(c), Untouched(c), UNCHANGED main,
         ~Pending(c), ~Pending(c)'
  PROVE  CamOK(c)'
<1> USE DEF Untouched
<1>1. /\ Works(c)' <=> Works(c)
      /\ Late' <=> Late
      /\ Newer(c)' <=> Newer(c)
      /\ Ordered(c)' <=> Ordered(c)
      /\ NextCmd(c)' = NextCmd(c)
      /\ Fresh(c)' <=> Fresh(c)
      /\ Up(c)' <=> Up(c)
      /\ Down(c)' <=> Down(c)
      /\ Opened(c)' <=> Opened(c)
  BY DEF Works, Late, Newer, Ordered, NextCmd, Fresh, Answering, Up, Down, Has, Opened
<1>2. Shape(c)'
  BY DEF CamOK, Shape, Works, Up, Down, Has
<1>3. ThreadOK(c)'
  BY DEF CamOK, ThreadOK, Answering
<1>4. OrderedOK(c)'
  BY <1>1 DEF CamOK, OrderedOK
<1>5. SettledOK(c)'
  BY <1>1 DEF CamOK, SettledOK
<1> QED
  BY <1>2, <1>3, <1>4, <1>5 DEF CamOK

\* A request that is accepted in order comes when nothing is in hand, or when what is
\* in hand was answered already, and the threads that still run have answered.
LEMMA Accepted ==
  ASSUME TypeOK, MainOK, NEW c \in Cams, CamOK(c), Accepts(c), ~Unfinished(c)
  PROVE  /\ ~Ordered(c) /\ Fresh(c) /\ (Works(c) => Late)
         /\ (Works(c) /\ main.cmd = "CLOSE") \/ (~Works(c) /\ ~exist[c]) => Down(c)
         /\ ~Works(c) /\ exist[c] => Up(c)
         /\ Works(c) => (exist[c] <=> main.cmd # "CLOSE")
<1>1. /\ tcp.todo = <<>> /\ main.cmd # "BOOT" /\ ~Busy(c)
  BY DEF Accepts, Idle
<1>2. ~Ordered(c)
  BY <1>1 DEF CamOK, OrderedOK, Pending, Ordered, Newer, Unfinished
<1>3. Works(c) => Late
  BY <1>1 DEF CamOK, SettledOK, Unfinished, Works
<1>4. Fresh(c)
  BY <1>1 DEF CamOK, ThreadOK, Fresh, Busy
<1>5. Works(c) /\ main.cmd = "CLOSE" => Down(c)
  <2>1. HAVE Works(c) /\ main.cmd = "CLOSE"
  <2>2. main.pc \in {"finish", "close_fd", "close_done"}
    BY <1>3, <2>1 DEF Late, MainOK, OpenSteps
  <2> QED
    BY <2>1, <2>2 DEF CamOK, Shape
<1>6. /\ Works(c) => (exist[c] <=> main.cmd # "CLOSE")
      /\ ~Works(c) => IF exist[c] THEN Up(c) ELSE Down(c)
  BY <1>1, <1>2 DEF CamOK, SettledOK
<1> QED
  BY <1>2, <1>3, <1>4, <1>5, <1>6

\* A request that is taken on: the camera it is for is in the state it expects.
LEMMA PostInv ==
  ASSUME TypeOK, MainOK, NEW c \in Cams, CamOK(c), Accepts(c), ~Unfinished(c),
         NEW fd \in Clients, NEW cmd \in {"OPEN", "CLOSE", "RESET"}, Post(c, cmd, fd),
         UNCHANGED <<cam, decoder, process, main>>,
         exist'[c] <=> cmd # "CLOSE", c \in asked',
         cmd = "OPEN" <=> IF Works(c) THEN main.cmd = "CLOSE" ELSE ~exist[c]
  PROVE  CamOK(c)'
<1>1. /\ tcp.todo = <<>> /\ tcp'.todo # <<>> /\ tcp'.c = c /\ tcp'.cmd = cmd
  BY DEF Post, Accepts, Idle
<1>2. Pending(c)' /\ Ordered(c)' /\ NextCmd(c)' = cmd
  BY <1>1 DEF Pending, Ordered, NextCmd
<1>3. /\ Works(c)' <=> Works(c)
      /\ Late' <=> Late
      /\ Newer(c)' <=> Newer(c)
      /\ Fresh(c)' <=> Fresh(c)
      /\ Up(c)' <=> Up(c)
      /\ Down(c)' <=> Down(c)
  BY DEF Works, Late, Newer, Fresh, Answering, Up, Down, Has
<1>4. Shape(c)'
  BY DEF CamOK, Shape, Works, Up, Down, Has
<1>5. ThreadOK(c)'
  BY Accepted DEF CamOK, ThreadOK, Answering, Fresh
<1>6. OrderedOK(c)'
  BY <1>2, <1>3, Accepted DEF OrderedOK
<1>7. SettledOK(c)'
  BY <1>2, <1>3, Accepted DEF SettledOK, Ordered, Late
<1> QED
  BY <1>4, <1>5, <1>6, <1>7 DEF CamOK

\* It leaves the other cameras alone.
LEMMA PostOther ==
  ASSUME NEW c \in Cams, NEW d \in Cams, d # c, CamOK(d), Accepts(c),
         NEW fd \in Clients, NEW cmd \in {"OPEN", "CLOSE", "RESET"}, Post(c, cmd, fd),
         UNCHANGED <<cam, decoder, process, main>>,
         exist'[d] = exist[d], camdetect'[d] = camdetect[d],
         asked' = asked \cup {c}
  PROVE  CamOK(d)'
<1>1. Untouched(d)
  BY DEF Untouched
<1>2. ~Pending(d) /\ ~Pending(d)'
  BY DEF Pending, Post, Accepts, Idle
<1> QED
  BY <1>1, <1>2, OtherTcp

\* SETALGPARAM takes a camera for new exactly when it is down or going down.
LEMMA SetAlgInv ==
  ASSUME TypeOK, MainOK, NEW c \in Cams, NEW v \in Vtypes, NEW fd \in Clients,
         SetAlg(c, v, fd), NEW d \in Cams, CamOK(d), Orderly(d)'
  PROVE  CamOK(d)'
<1> DEFINE new == ~exist[c] /\ ~cam[c].open_alg
           cmd == IF new THEN "OPEN" ELSE "RESET"
<1>1. /\ Accepts(c) /\ Post(c, cmd, fd) /\ Record(c, FALSE)
      /\ camdetect' = [camdetect EXCEPT ![c] = v]
      /\ exist' = [exist EXCEPT ![c] = TRUE]
      /\ UNCHANGED <<cam, decoder, process, main>>
  BY DEF SetAlg
<1>2. asked' = asked \cup {c} /\ (Orderly(c)' => ~Unfinished(c))
  BY <1>1, RecordType DEF Orderly
<1>3. /\ \A e \in Cams : e # c => exist'[e] = exist[e] /\ camdetect'[e] = camdetect[e]
      /\ exist'[c]
  BY <1>1 DEF TypeOK
<1>4. cmd \in {"OPEN", "CLOSE", "RESET"} /\ cmd # "CLOSE" /\ (cmd = "OPEN" <=> new)
  OBVIOUS
<1>5. CASE d # c
  <2> HIDE DEF cmd
  <2> QED
    BY <1>1, <1>2, <1>3, <1>4, <1>5, PostOther
<1>6. CASE d = c
  <2>1. ~Unfinished(c) /\ CamOK(c)
    BY <1>2, <1>6
  <2>2. new <=> IF Works(c) THEN main.cmd = "CLOSE" ELSE ~exist[c]
    BY <1>1, <2>1, Accepted DEF Up, Down, Has
  <2> HIDE DEF new, cmd
  <2>3. CamOK(c)'
    BY <1>1, <1>2, <1>3, <1>4, <2>1, <2>2, PostInv
  <2> QED
    BY <1>6, <2>3
<1> QED
  BY <1>5, <1>6

\* The delete of a camera that exists finds it up or coming up.
LEMMA DelCameraInv ==
  ASSUME TypeOK, MainOK, NEW c \in Cams, NEW fd \in Clients, DelCamera(c, fd),
         NEW d \in Cams, CamOK(d), Orderly(d)'
  PROVE  CamOK(d)'
<1>1. /\ Accepts(c) /\ Post(c, "CLOSE", fd)
      /\ exist' = [exist EXCEPT ![c] = FALSE]
      /\ UNCHANGED <<cam, camdetect, decoder, process, main>>
  BY DEF DelCamera
<1>a. PICK odd \in BOOLEAN : Record(c, odd) /\ (odd <=> ~exist[c])
  BY DEF DelCamera
<1>2. asked' = asked \cup {c} /\ (Orderly(c)' => exist[c] /\ ~Unfinished(c))
  BY <1>a, RecordType DEF Orderly
<1>3. /\ \A e \in Cams : e # c => exist'[e] = exist[e] /\ camdetect'[e] = camdetect[e]
      /\ ~exist'[c]
  BY <1>1 DEF TypeOK
<1>4. CASE d # c
  BY <1>1, <1>2, <1>3, <1>4, PostOther
<1>5. CASE d = c
  <2>1. exist[c] /\ ~Unfinished(c) /\ CamOK(c)
    BY <1>2, <1>5
  <2>2. Works(c) => main.cmd # "CLOSE"
    BY <1>1, <2>1, Accepted
  <2>3. CamOK(c)'
    BY <1>1, <1>2, <1>3, <2>1, <2>2, PostInv
  <2> QED
    BY <1>5, <2>3
<1> QED
  BY <1>4, <1>5

\* So does a change of its events.
LEMMA SetEventInv ==
  ASSUME TypeOK, MainOK, NEW c \in Cams, NEW fd \in Clients, SetEvent(c, fd),
         NEW d \in Cams, CamOK(d), Orderly(d)'
  PROVE  CamOK(d)'
<1>1. /\ Accepts(c) /\ Post(c, "RESET", fd)
      /\ UNCHANGED <<cam, exist, camdetect, decoder, process, main>>
  BY DEF SetEvent
<1>a. PICK odd \in BOOLEAN : Record(c, odd) /\ (odd <=> ~exist[c])
  BY DEF SetEvent
<1>2. asked' = asked \cup {c} /\ (Orderly(c)' => exist[c] /\ ~Unfinished(c))
  BY <1>a, RecordType DEF Orderly
<1>3. CASE d # c
  BY <1>1, <1>2, <1>3, PostOther
<1>4. CASE d = c
  <2>1. exist[c] /\ ~Unfinished(c) /\ CamOK(c)
    BY <1>2, <1>4
  <2>2. Works(c) => main.cmd # "CLOSE"
    BY <1>1, <2>1, Accepted
  <2>3. CamOK(c)'
    BY <1>1, <1>2, <2>1, <2>2, PostInv
  <2> QED
    BY <1>4, <2>3
<1> QED
  BY <1>3, <1>4

\* Starting and stopping a file moves nothing a camera relies on.
LEMMA PlayInv ==
  ASSUME TypeOK, NEW c \in Cams, Play(c) \/ Stop(c), NEW d \in Cams, CamOK(d)
  PROVE  CamOK(d)'
<1>1. /\ cam'[d].rtsp_thread = cam[d].rtsp_thread
      /\ cam'[d].process_thread = cam[d].process_thread
      /\ cam'[d].holds = cam[d].holds
      /\ cam'[d].alg = cam[d].alg
      /\ cam'[d].open_alg = cam[d].open_alg
      /\ cam'[d].have_frame_size = cam[d].have_frame_size
      /\ cam'[d].buf = cam[d].buf
      /\ cam'[d].curr_stat = cam[d].curr_stat
      /\ cam'[d].vtype = cam[d].vtype
      /\ cam'[d].cmd = cam[d].cmd
      /\ UNCHANGED <<main, tcp, exist, camdetect, decoder, process, asked>>
  <2>1. CASE Play(c)
    BY <2>1 DEF Play, TypeOK, CamInfo, hist
  <2>2. CASE Stop(c)
    BY <2>2 DEF Stop, TypeOK, CamInfo, hist
  <2> QED
    BY <2>1, <2>2
<1>2. Shape(d)'
  BY <1>1 DEF CamOK, Shape, Works, Up, Down, Has
<1>3. ThreadOK(d)'
  BY <1>1 DEF CamOK, ThreadOK, Answering
<1>4. OrderedOK(d)'
  BY <1>1 DEF CamOK, OrderedOK, Ordered, Pending, Newer, Works, Late, Fresh, Answering,
     NextCmd, Up, Down, Has
<1>5. SettledOK(d)'
  BY <1>1 DEF CamOK, SettledOK, Ordered, Pending, Newer, Works, Late, Fresh, Answering,
     Up, Down, Has, Opened
<1> QED
  BY <1>2, <1>3, <1>4, <1>5 DEF CamOK

\* What is left of a request that is half written, and what becomes of it.
LEMMA Todo ==
  ASSUME TypeOK, tcp.todo # <<>>, tcp' = [tcp EXCEPT !.todo = Tail(@)],
         Head(tcp.todo) # "ctrl"
  PROVE  /\ tcp.c \in Cams /\ Pending(tcp.c) /\ Pending(tcp.c)'
         /\ tcp'.c = tcp.c /\ tcp'.cmd = tcp.cmd /\ tcp'.todo # <<>>
<1>1. tcp \in TcpInfo /\ tcp.todo \in TcpTodo
  BY DEF TypeOK, TcpInfo
<1>2. /\ tcp.c \in Cams /\ tcp'.c = tcp.c /\ tcp'.cmd = tcp.cmd
      /\ tcp'.todo = Tail(tcp.todo)
  BY <1>1 DEF TcpInfo
<1>3. tcp.todo \in {<<"stat", "ctrl">>, <<"fd", "ctrl">>, <<"stat", "fd", "ctrl">>,
                    <<"fd", "stat", "ctrl">>}
  BY <1>1 DEF TcpTodo
<1>4. Tail(tcp.todo) # <<>>
  <2>1. /\ Tail(<<"stat", "ctrl">>) # <<>>
        /\ Tail(<<"fd", "ctrl">>) # <<>>
        /\ Tail(<<"stat", "fd", "ctrl">>) # <<>>
        /\ Tail(<<"fd", "stat", "ctrl">>) # <<>>
    OBVIOUS
  <2> QED
    BY <1>3, <2>1, Zenon
<1> QED
  BY <1>2, <1>4 DEF Pending

\* The descriptor for the answer is set.
LEMMA TcpFdInv ==
  ASSUME TypeOK, MainOK, TcpFd, NEW d \in Cams, CamOK(d)
  PROVE  CamOK(d)'
<1>c. PICK c \in Cams : c = tcp.c
  BY DEF TypeOK, TcpInfo
<1>1. /\ tcp.todo # <<>> /\ Head(tcp.todo) = "fd"
      /\ cam' = [cam EXCEPT ![c].cmd_fd = tcp.fd]
      /\ tcp' = [tcp EXCEPT !.todo = Tail(@)]
      /\ UNCHANGED <<exist, camdetect, decoder, process, main, asked>>
  BY <1>c DEF TcpFd, hist
<1>2. Pending(c) /\ Pending(c)' /\ tcp'.c = c /\ tcp'.cmd = tcp.cmd
  BY <1>c, <1>1, Todo
<1>4. CASE d # c
  <2>1. Untouched(d)
    BY <1>1, <1>2, <1>4 DEF Untouched, TypeOK
  <2>2. ~Pending(d) /\ ~Pending(d)'
    BY <1>2, <1>4 DEF Pending
  <2> QED
    BY <1>1, <2>1, <2>2, OtherTcp
<1>5. CASE d = c
  <2>1. /\ cam'[c].rtsp_thread = cam[c].rtsp_thread
        /\ cam'[c].process_thread = cam[c].process_thread
        /\ cam'[c].holds = cam[c].holds
        /\ cam'[c].alg = cam[c].alg
        /\ cam'[c].open_alg = cam[c].open_alg
        /\ cam'[c].have_frame_size = cam[c].have_frame_size
        /\ cam'[c].buf = cam[c].buf
        /\ cam'[c].curr_stat = cam[c].curr_stat
        /\ cam'[c].vtype = cam[c].vtype
        /\ cam'[c].cmd = cam[c].cmd
    BY <1>1 DEF TypeOK, CamInfo
  <2>2. /\ Pending(c)' /\ Ordered(c) /\ Ordered(c)' /\ NextCmd(c)' = NextCmd(c)
        /\ Works(c)' <=> Works(c)
        /\ Late' <=> Late
        /\ Newer(c)' <=> Newer(c)
        /\ Fresh(c)' <=> Fresh(c)
        /\ Up(c)' <=> Up(c)
        /\ Down(c)' <=> Down(c)
    BY <1>1, <1>2, <2>1 DEF Pending, Ordered, NextCmd, Works, Late, Newer, Fresh,
       Answering, Up, Down, Has
  <2>3. CamOK(c)
    BY <1>1, <1>5
  <2>4. Shape(c)'
    BY <1>1, <2>1, <2>3 DEF CamOK, Shape, Works, Up, Down, Has
  <2>5. ThreadOK(c)'
    BY <1>1, <2>1, <2>3 DEF CamOK, ThreadOK, Answering
  <2>6. OrderedOK(c)'
    BY <1>1, <2>1, <2>2, <2>3 DEF CamOK, OrderedOK
  <2>7. SettledOK(c)'
    BY <1>1, <1>2, <2>1, <2>2, <2>3 DEF CamOK, OrderedOK, SettledOK, Late
  <2> QED
    BY <1>5, <2>4, <2>5, <2>6, <2>7 DEF CamOK
<1> QED
  BY <1>4, <1>5

\* The status is set: no further request for the camera is taken on.
LEMMA TcpStatusInv ==
  ASSUME TypeOK, MainOK, TcpStatus, NEW d \in Cams, CamOK(d)
  PROVE  CamOK(d)'
<1>c. PICK c \in Cams : c = tcp.c
  BY DEF TypeOK, TcpInfo
<1>1. /\ tcp.todo # <<>> /\ Head(tcp.todo) = "stat"
      /\ cam' = [cam EXCEPT ![c].curr_stat = "COMMAND"]
      /\ tcp' = [tcp EXCEPT !.todo = Tail(@)]
      /\ UNCHANGED <<exist, camdetect, decoder, process, main, asked>>
  BY <1>c DEF TcpStatus, hist
<1>2. Pending(c) /\ Pending(c)' /\ tcp'.c = c /\ tcp'.cmd = tcp.cmd
  BY <1>c, <1>1, Todo
<1>4. CASE d # c
  <2>1. Untouched(d)
    BY <1>1, <1>2, <1>4 DEF Untouched, TypeOK
  <2>2. ~Pending(d) /\ ~Pending(d)'
    BY <1>2, <1>4 DEF Pending
  <2> QED
    BY <1>1, <2>1, <2>2, OtherTcp
<1>5. CASE d = c
  <2>1. /\ cam'[c].rtsp_thread = cam[c].rtsp_thread
        /\ cam'[c].process_thread = cam[c].process_thread
        /\ cam'[c].holds = cam[c].holds
        /\ cam'[c].alg = cam[c].alg
        /\ cam'[c].open_alg = cam[c].open_alg
        /\ cam'[c].have_frame_size = cam[c].have_frame_size
        /\ cam'[c].buf = cam[c].buf
        /\ cam'[c].vtype = cam[c].vtype
        /\ cam'[c].cmd = cam[c].cmd
    BY <1>1, <1>2 DEF TypeOK, CamInfo
  <2>2. /\ Pending(c)' /\ Ordered(c) /\ Ordered(c)' /\ NextCmd(c)' = NextCmd(c)
        /\ Works(c)' <=> Works(c)
        /\ Late' <=> Late
        /\ Newer(c)' <=> Newer(c)
        /\ Fresh(c)' <=> Fresh(c)
        /\ Up(c)' <=> Up(c)
        /\ Down(c)' <=> Down(c)
    BY <1>1, <1>2, <2>1 DEF Pending, Ordered, NextCmd, Works, Late, Newer, Fresh,
       Answering, Up, Down, Has
  <2>3. CamOK(c)
    BY <1>1, <1>5
  <2>4. Shape(c)'
    BY <1>1, <2>1, <2>3 DEF CamOK, Shape, Works, Up, Down, Has
  <2>5. ThreadOK(c)'
    <3>1. Fresh(c) /\ ~(main.at = c /\ main.pc \in {"open_gpu", "open_thread"})
      BY <2>2, <2>3 DEF CamOK, OrderedOK, Works, Late
    <3> QED
      BY <1>1, <2>1, <2>3, <3>1 DEF CamOK, ThreadOK, Answering, Fresh
  <2>6. OrderedOK(c)'
    BY <1>1, <2>1, <2>2, <2>3 DEF CamOK, OrderedOK
  <2>7. SettledOK(c)'
    BY <1>1, <1>2, <2>1, <2>2, <2>3 DEF CamOK, OrderedOK, SettledOK, Late
  <2> QED
    BY <1>5, <2>4, <2>5, <2>6, <2>7 DEF CamOK
<1> QED
  BY <1>4, <1>5

\* The command is posted: camera_main takes it next, or has just carried out the same.
LEMMA TcpCtrlInv ==
  ASSUME TypeOK, MainOK, TcpCtrl, NEW d \in Cams, CamOK(d)
  PROVE  CamOK(d)'
<1>c. PICK c \in Cams : c = tcp.c
  BY DEF TypeOK, TcpInfo
<1>1. /\ tcp.todo # <<>> /\ Head(tcp.todo) = "ctrl"
      /\ cam' = [cam EXCEPT ![c].cmd = tcp.cmd]
      /\ tcp' = NoRequest
      /\ UNCHANGED <<exist, camdetect, decoder, process, main, asked>>
  BY <1>c DEF TcpCtrl, hist
<1>2. Pending(c) /\ tcp'.todo = <<>>
  BY <1>c, <1>1 DEF Pending, NoRequest
<1>3. tcp.cmd # "NULL"
  BY <1>1 DEF MainOK
<1>4. CASE d # c
  <2>1. Untouched(d)
    BY <1>1, <1>2, <1>4 DEF Untouched, TypeOK
  <2>2. ~Pending(d) /\ ~Pending(d)'
    BY <1>2, <1>4 DEF Pending
  <2> QED
    BY <1>1, <2>1, <2>2, OtherTcp
<1>5. CASE d = c
  <2>1. /\ cam'[c].rtsp_thread = cam[c].rtsp_thread
        /\ cam'[c].process_thread = cam[c].process_thread
        /\ cam'[c].holds = cam[c].holds
        /\ cam'[c].alg = cam[c].alg
        /\ cam'[c].open_alg = cam[c].open_alg
        /\ cam'[c].have_frame_size = cam[c].have_frame_size
        /\ cam'[c].buf = cam[c].buf
        /\ cam'[c].curr_stat = cam[c].curr_stat
        /\ cam'[c].vtype = cam[c].vtype
        /\ cam'[c].cmd = tcp.cmd
    BY <1>1, <1>2 DEF TypeOK, CamInfo
  <2>2. /\ ~Pending(c)' /\ Ordered(c) /\ NextCmd(c) = tcp.cmd /\ NextCmd(c)' = tcp.cmd
        /\ Works(c)' <=> Works(c)
        /\ Late' <=> Late
        /\ Newer(c)' <=> (Works(c) => tcp.cmd # main.cmd)
        /\ Ordered(c)' <=> Newer(c)'
        /\ Fresh(c)' <=> Fresh(c)
        /\ Up(c)' <=> Up(c)
        /\ Down(c)' <=> Down(c)
    BY <1>1, <1>2, <1>3, <2>1 DEF Pending, Ordered, NextCmd, Works, Late, Newer, Fresh,
       Answering, Up, Down, Has
  <2>3. CamOK(c)
    BY <1>1, <1>5
  <2>4. Shape(c)'
    BY <1>1, <2>1, <2>3 DEF CamOK, Shape, Works, Up, Down, Has
  <2>5. ThreadOK(c)'
    BY <1>1, <2>1, <2>3 DEF CamOK, ThreadOK, Answering
  <2>6. OrderedOK(c)'
    BY <1>1, <2>1, <2>2, <2>3 DEF CamOK, OrderedOK
  <2>7. SettledOK(c)'
    BY <1>1, <2>1, <2>2, <2>3 DEF CamOK, OrderedOK, SettledOK, Works, Late
  <2> QED
    BY <1>5, <2>4, <2>5, <2>6, <2>7 DEF CamOK
<1> QED
  BY <1>4, <1>5

-----------------------------------------------------------------------------
(* The places on the GPUs *)

\* The cameras that hold a place on slot g.
On(g) == {c \in Cams : cam[c].holds /\ cam[c].gpu_index = g}

\* There are finitely many.
LEMMA OnFinite ==
  \A g \in Gpus : IsFiniteSet(On(g)) /\ Cardinality(On(g)) \in Nat
<1>1. IsFiniteSet(Cams)
  BY CamAssumption, FS_Interval DEF Cams
<1> QED
  BY <1>1, FS_Subset, FS_CardinalityType DEF On

\* As long as no camera takes or gives back a place, the counts stay right.
LEMMA PlacesKept ==
  ASSUME Places, g_gpu_index' = g_gpu_index,
         \A c \in Cams : /\ cam'[c].holds = cam[c].holds
                         /\ cam'[c].gpu_index = cam[c].gpu_index
  PROVE  Places'
<1>1. \A g \in Gpus : {c \in Cams : cam'[c].holds /\ cam'[c].gpu_index = g}
                      = {c \in Cams : cam[c].holds /\ cam[c].gpu_index = g}
  OBVIOUS
<1> QED
  BY <1>1 DEF Places

\* camera_close gives back the one place its camera holds, on the slot it is on.
LEMMA CloseGpuPlaces ==
  ASSUME IInv, AllOrderly, CloseGpu
  PROVE  Places'
<1> DEFINE a == main.at
           s == cam[main.at].gpu_index
<1>1. a \in Cams /\ s \in Gpus /\ cam \in [Cams -> CamInfo]
      /\ g_gpu_index \in [Gpus -> 0..GpuItemMax]
  BY FieldTypes DEF IInv, TypeOK, MainInfo
<1>2. cam[a].holds
  BY <1>1 DEF CloseGpu, At, IInv, AllOrderly, CamOK, Shape, Works, Has
<1>3. a \in On(s)
  BY <1>1, <1>2 DEF On
<1>4. ASSUME NEW c \in Cams
      PROVE  /\ cam'[c].gpu_index = cam[c].gpu_index
             /\ cam'[c].holds <=> (cam[c].holds /\ c # a)
  BY <1>1 DEF CloseGpu, CamInfo
<1>5. ASSUME NEW g \in Gpus
      PROVE  g_gpu_index'[g] = Cardinality({c \in Cams : cam'[c].holds
                                                         /\ cam'[c].gpu_index = g})
  <2> DEFINE R == {c \in Cams : cam'[c].holds /\ cam'[c].gpu_index = g}
  <2>1. g_gpu_index[g] = Cardinality(On(g)) /\ IsFiniteSet(On(g))
    BY OnFinite DEF IInv, Places, On
  <2>2. CASE g = s
    <3>1. R = On(g) \ {a}
      BY <1>4 DEF On
    <3>2. Cardinality(R) = Cardinality(On(g)) - 1
      BY <1>3, <2>1, <2>2, <3>1, FS_RemoveElement
    <3>3. Cardinality(R) \in Nat
      BY <2>1, <3>1, FS_RemoveElement, FS_CardinalityType
    <3>4. g_gpu_index[g] > 0
      BY <2>1, <3>2, <3>3, OnFinite
    <3>5. g_gpu_index'[g] = g_gpu_index[g] - 1
      BY <1>1, <2>2, <3>4 DEF CloseGpu, GivenBack
    <3> QED
      BY <2>1, <3>2, <3>5
  <2>3. CASE g # s
    <3>1. R = On(g)
      BY <1>4, <2>3 DEF On
    <3>2. g_gpu_index'[g] = g_gpu_index[g]
      BY <1>1, <2>3 DEF CloseGpu, GivenBack
    <3> QED
      BY <2>1, <3>1, <3>2
  <2> QED
    BY <2>2, <2>3
<1> QED
  BY <1>5 DEF Places

\* camera_open takes one more.
LEMMA OpenGpuPlaces ==
  ASSUME IInv, AllOrderly, OpenGpu, Room # {}
  PROVE  Places'
<1> DEFINE a == main.at
<1>1. a \in Cams /\ cam \in [Cams -> CamInfo]
      /\ g_gpu_index \in [Gpus -> 0..GpuItemMax]
  BY DEF IInv, TypeOK, MainInfo
<1>2. ~cam[a].holds
  BY <1>1 DEF OpenGpu, IInv, AllOrderly, CamOK, Shape, Works, Has, Down
<1>s. PICK s \in Room :
        /\ g_gpu_index' = [g_gpu_index EXCEPT ![s] = @ + 1]
        /\ cam' = [cam EXCEPT ![main.at].gpu_index = s, ![main.at].holds = TRUE,
                              ![main.at].vtype = camdetect[main.at]]
  BY Zenon DEF OpenGpu, NewType
<1>3. s \in Gpus
  BY DEF Room
<1>4. ASSUME NEW c \in Cams
      PROVE  /\ c # a => cam'[c] = cam[c]
             /\ c = a => cam'[c].gpu_index = s /\ cam'[c].holds
  BY <1>1, <1>s DEF CamInfo
<1>5. ASSUME NEW g \in Gpus
      PROVE  g_gpu_index'[g] = Cardinality({c \in Cams : cam'[c].holds
                                                         /\ cam'[c].gpu_index = g})
  <2> DEFINE R == {c \in Cams : cam'[c].holds /\ cam'[c].gpu_index = g}
  <2>1. g_gpu_index[g] = Cardinality(On(g)) /\ IsFiniteSet(On(g))
    BY OnFinite DEF IInv, Places, On
  <2>2. a \notin On(g)
    BY <1>2 DEF On
  <2>3. CASE g = s
    <3>1. R = On(g) \cup {a}
      BY <1>1, <1>4, <2>3 DEF On
    <3>2. Cardinality(R) = Cardinality(On(g)) + 1
      BY <2>1, <2>2, <3>1, FS_AddElement
    <3>3. g_gpu_index'[g] = g_gpu_index[g] + 1
      BY <1>1, <1>s, <2>3
    <3> QED
      BY <2>1, <3>2, <3>3
  <2>4. CASE g # s
    <3>1. R = On(g)
      BY <1>2, <1>4, <2>4 DEF On
    <3>2. g_gpu_index'[g] = g_gpu_index[g]
      BY <1>1, <1>s, <2>4
    <3> QED
      BY <2>1, <3>1, <3>2
  <2> QED
    BY <2>3, <2>4
<1> QED
  BY <1>5 DEF Places

\* When camera_open looks for a place there is one: all places together are enough for
\* all cameras, and this camera holds none.
LEMMA PlaceLeft ==
  ASSUME IInv, AllOrderly, main.pc = "open_gpu"
  PROVE  Room # {}
<1> SUFFICES ASSUME Room = {} PROVE FALSE
  OBVIOUS
<1> DEFINE a == main.at
           I == 1..GpuItemMax
<1> USE CamAssumption, GpuAssumption
<1>1. a \in Cams /\ g_gpu_index \in [Gpus -> 0..GpuItemMax]
  BY DEF IInv, TypeOK, MainInfo
<1>2. ~cam[a].holds
  BY <1>1 DEF IInv, AllOrderly, CamOK, Shape, Works, Has, Down
<1>3. ASSUME NEW g \in Gpus
      PROVE  \E b : b \in Bijection(I, On(g))
  <2>1. g_gpu_index[g] = GpuItemMax
    BY <1>1 DEF Room
  <2>2. Cardinality(On(g)) = GpuItemMax
    BY <2>1 DEF IInv, Places, On
  <2> QED
    BY <2>2, OnFinite, FS_CardinalityType DEF ExistsBijection
<1> DEFINE b == [g \in Gpus |-> CHOOSE f : f \in Bijection(I, On(g))]
<1>4. \A g \in Gpus : b[g] \in Bijection(I, On(g))
  BY <1>3, Zenon
<1> HIDE DEF b
<1>5. \A g \in Gpus, i \in I : b[g][i] \in On(g)
  BY <1>4 DEF Bijection, Injection
<1>6. \A g \in Gpus, i \in I, j \in I : b[g][i] = b[g][j] => i = j
  BY <1>4 DEF Bijection, Injection, IsInjective
<1> DEFINE f == [p \in Gpus \X I |-> b[p[1]][p[2]]]
<1>7. f \in Injection(Gpus \X I, Cams \ {a})
  <2>1. ASSUME NEW p \in Gpus \X I
        PROVE  f[p] \in Cams \ {a} /\ cam[f[p]].gpu_index = p[1]
    <3>1. p[1] \in Gpus /\ p[2] \in I
      OBVIOUS
    <3> QED
      BY <1>2, <1>5, <3>1 DEF On
  <2>2. ASSUME NEW p \in Gpus \X I, NEW q \in Gpus \X I, f[p] = f[q]
        PROVE  p = q
    <3>1. /\ p[1] \in Gpus /\ p[2] \in I /\ q[1] \in Gpus /\ q[2] \in I
          /\ p = <<p[1], p[2]>> /\ q = <<q[1], q[2]>>
      OBVIOUS
    <3>2. p[1] = q[1]
      BY <2>1, <2>2
    <3>3. p[2] = q[2]
      BY <1>6, <2>2, <3>1, <3>2
    <3> QED
      BY <3>1, <3>2, <3>3
  <2> HIDE DEF f
  <2>3. f \in [Gpus \X I -> Cams \ {a}]
    <3>1. f = [p \in Gpus \X I |-> f[p]]
      BY DEF f
    <3> QED
      BY <2>1, <3>1
  <2> QED
    BY <2>2, <2>3 DEF Injection, IsInjective
<1>8. /\ IsFiniteSet(Cams) /\ Cardinality(Cams) = NCams
      /\ IsFiniteSet(Gpus) /\ Cardinality(Gpus) = GpuMax
      /\ IsFiniteSet(I) /\ Cardinality(I) = GpuItemMax
  BY FS_Interval DEF Cams, Gpus
<1>9. IsFiniteSet(Cams \ {a}) /\ Cardinality(Cams \ {a}) = NCams - 1
  BY <1>1, <1>8, FS_RemoveElement
<1>10. Cardinality(Gpus \X I) = GpuMax * GpuItemMax
  BY <1>8, FS_Product
<1> HIDE DEF f, I
<1>11. Cardinality(Gpus \X I) <= Cardinality(Cams \ {a})
  BY <1>7, <1>9, FS_Injection
<1> QED
  BY <1>9, <1>10, <1>11, PlaceAssumption

-----------------------------------------------------------------------------
(* The steps of camera_main and of the requests taken together *)

\* Every step of camera_main is one of a command that leads to it, and the commands of
\* the cameras are only ever reset by camera_main.
LEMMA MainOKMain ==
  ASSUME TypeOK, MainOK, MainStep
  PROVE  MainOK'
<1>0. /\ main \in MainInfo /\ main.at \in Cams /\ cam \in [Cams -> CamInfo]
      /\ MainOK /\ cam[main.at] \in CamInfo
  BY DEF TypeOK, MainInfo
<1>a. SUFFICES
        /\ /\ main'.pc \in CloseSteps => main'.cmd \in {"CLOSE", "RESET"}
           /\ main'.pc \in {"close_stat", "close_reply", "close_fd"} =>
                main'.cmd = "CLOSE"
           /\ main'.pc \in OpenSteps => main'.cmd \in {"OPEN", "RESET", "BOOT"}
           /\ main'.pc = "finish" => main'.cmd \in {"OPEN", "CLOSE", "RESET", "BOOT"}
        /\ UNCHANGED tcp
        /\ main'.cmd = "BOOT" => main.cmd = "BOOT"
        /\ main'.cmd = "BOOT" => \A c \in Cams : cam'[c].cmd = cam[c].cmd
  BY <1>0 DEF MainOK
<1> USE DEF CloseSteps, OpenSteps, MainInfo, CamInfo
<1>1. CASE Skip
  BY <1>0, <1>1 DEF Skip, env, hist
<1>2. CASE Take
  <2>1. cam[main.at].cmd # "NULL" /\ main.cmd # "BOOT" =>
           cam[main.at].cmd \in {"OPEN", "CLOSE", "RESET"}
    BY <1>0, FieldTypes DEF Commands
  <2>2. CASE main.cmd = "BOOT"
    <3>1. main' = [main EXCEPT !.pc = "open"] /\ UNCHANGED <<tcp, cam>>
      BY <1>2, <2>2 DEF Take, env, hist
    <3> QED
      BY <1>0, <2>2, <3>1
  <2>3. CASE main.cmd # "BOOT"
    <3>1. /\ cam[main.at].cmd # "NULL" /\ UNCHANGED <<tcp, cam>>
          /\ main' = [main EXCEPT !.cmd = cam[main.at].cmd,
                                  !.pc = FirstStep(cam[main.at].cmd)]
      BY <1>2, <2>3 DEF Take, env, hist
    <3> QED
      BY <1>0, <2>1, <2>3, <3>1 DEF FirstStep
  <2> QED
    BY <2>2, <2>3
<1>3. CASE Finish
  <2>1. /\ main'.pc = "scan" /\ UNCHANGED tcp
        /\ main'.cmd = "BOOT" => main.cmd = "BOOT"
    BY <1>0, <1>3 DEF Finish, env, hist
  <2>2. main.cmd = "BOOT" => cam' = cam
    BY <1>3 DEF Finish
  <2> QED
    BY <2>1, <2>2
<1>4. CASE CloseFlags
  BY <1>0, <1>4 DEF CloseFlags, env, hist, MainOK
<1>5. CASE CloseGpu
  BY <1>0, <1>5 DEF CloseGpu, At, env, hist, MainOK
<1>6. CASE CloseWait
  BY <1>0, <1>6 DEF CloseWait, At, env, hist, MainOK
<1>7. CASE CloseJoinDecode
  BY <1>0, <1>7 DEF CloseJoinDecode, At, env, hist, MainOK
<1>8. CASE CloseJoinAlg
  BY <1>0, <1>8 DEF CloseJoinAlg, At, env, hist, MainOK
<1>9. CASE CloseRelease
  BY <1>0, <1>9 DEF CloseRelease, At, env, hist, MainOK
<1>10. CASE CloseFree
  BY <1>0, <1>10 DEF CloseFree, At, env, hist, MainOK, Answers
<1>11. CASE CloseStatus
  BY <1>0, <1>11 DEF CloseStatus, At, env, hist, MainOK
<1>12. CASE CloseReply
  BY <1>0, <1>12 DEF CloseReply, MainOK
<1>13. CASE CloseFd
  BY <1>0, <1>13 DEF CloseFd, At, env, hist, MainOK
<1>14. CASE CloseDone
  BY <1>0, <1>14 DEF CloseDone, At, env, hist, MainOK
<1>15. CASE OpenStatus
  BY <1>0, <1>15 DEF OpenStatus, At, env, hist, MainOK
<1>16. CASE OpenThread
  BY <1>0, <1>16 DEF OpenThread, At, env, hist, MainOK
<1>17. CASE OpenAlg
  BY <1>0, <1>17 DEF OpenAlg, At, env, hist, MainOK
<1>18. CASE OpenRun
  BY <1>0, <1>18 DEF OpenRun, At, env, hist, MainOK
<1>19. CASE OpenGpu
  <2>1. CASE Room = {}
    <3>1. /\ main.pc = "open_gpu" /\ main' = [main EXCEPT !.pc = "finish"]
          /\ UNCHANGED <<tcp, cam>>
      BY <1>19, <2>1 DEF OpenGpu
    <3> QED
      BY <1>0, <3>1 DEF MainOK
  <2>2. CASE Room # {}
    <3>1. /\ main.pc = "open_gpu" /\ main' = [main EXCEPT !.pc = "open_thread"]
          /\ UNCHANGED tcp
          /\ \E g \in Room : cam' = [cam EXCEPT ![main.at].gpu_index = g,
                                                ![main.at].holds = TRUE,
                                                ![main.at].vtype = camdetect[main.at]]
      BY <1>19, <2>2 DEF OpenGpu, NewType
    <3> QED
      BY <1>0, <3>1 DEF MainOK
  <2> QED
    BY <2>1, <2>2
<1> QED
  BY <1>1, <1>2, <1>3, <1>4, <1>5, <1>6, <1>7, <1>8, <1>9, <1>10, <1>11, <1>12,
     <1>13, <1>14, <1>15, <1>16, <1>17, <1>18, <1>19 DEF MainStep

\* camera_main only disturbs the order of a camera that it finds no place for.
LEMMA MainDisorder ==
  ASSUME TypeOK, MainStep, NEW c \in Cams, Orderly(c)'
  PROVE  Orderly(c) /\ (OpenGpu /\ main.at = c => Room # {})
<1>1. CASE OpenGpu /\ Room = {}
  BY <1>1 DEF OpenGpu, Orderly, TypeOK, MainInfo
<1>2. CASE OpenGpu /\ Room # {}
  BY <1>2 DEF OpenGpu, Orderly
<1>3. CASE ~OpenGpu
  <2>1. UNCHANGED disorder
    BY <1>3 DEF MainStep, env, hist, Skip, Take, Finish, CloseFlags, CloseGpu, CloseWait,
       CloseJoinDecode, CloseJoinAlg, CloseRelease, CloseFree, CloseStatus, CloseReply,
       CloseFd, CloseDone, OpenStatus, OpenThread, OpenAlg, OpenRun
  <2> QED
    BY <1>3, <2>1 DEF Orderly
<1> QED
  BY <1>1, <1>2, <1>3

\* No step of camera_main breaks what the cameras rely on.
LEMMA MainInv ==
  ASSUME IInv, MainStep, NEW c \in Cams, Orderly(c)'
  PROVE  CamOK(c)'
<1>0. main.at \in Cams /\ main \in MainInfo /\ cam \in [Cams -> CamInfo]
  BY DEF IInv, TypeOK, MainInfo
<1>a. TypeOK /\ MainOK /\ CamOK(c) /\ (OpenGpu /\ main.at = c => Room # {})
  BY MainDisorder DEF IInv
<1>1. CASE Skip \/ Take \/ Finish
  BY <1>a, <1>1, SkipInv, TakeInv, FinishInv
<1>2. CASE ~(Skip \/ Take \/ Finish) /\ c = main.at
  <2>1. InHand(c)
    BY <1>a, <1>2 DEF InHand
  <2> QED
    BY <1>a, <1>2, <2>1, CloseFlagsInv, CloseGpuInv, CloseWaitInv, CloseJoinDecodeInv,
       CloseJoinAlgInv, CloseReleaseInv, CloseFreeInv, CloseStatusInv, CloseReplyInv,
       CloseFdInv, CloseDoneInv, OpenStatusInv, OpenGpuInv, OpenThreadInv, OpenAlgInv,
       OpenRunInv DEF MainStep
<1>3. CASE ~(Skip \/ Take \/ Finish) /\ c # main.at
  <2>1. Continues /\ Untouched(c)
    <3> USE <1>0, <1>3 DEF Continues, Untouched, MainInfo, env, hist, threads, At
    <3>1. CASE CloseFlags
      BY <3>1 DEF CloseFlags
    <3>2. CASE CloseGpu
      BY <3>2 DEF CloseGpu
    <3>3. CASE CloseWait
      BY <3>3 DEF CloseWait
    <3>4. CASE CloseJoinDecode
      BY <3>4 DEF CloseJoinDecode
    <3>5. CASE CloseJoinAlg
      BY <3>5 DEF CloseJoinAlg
    <3>6. CASE CloseRelease
      BY <3>6 DEF CloseRelease
    <3>7. CASE CloseFree
      BY <3>7 DEF CloseFree
    <3>8. CASE CloseStatus
      BY <3>8 DEF CloseStatus
    <3>9. CASE CloseReply
      BY <3>9 DEF CloseReply
    <3>10. CASE CloseFd
      BY <3>10 DEF CloseFd
    <3>11. CASE CloseDone
      BY <3>11 DEF CloseDone
    <3>12. CASE OpenStatus
      BY <3>12 DEF OpenStatus
    <3>13. CASE OpenThread
      BY <3>13 DEF OpenThread
    <3>14. CASE OpenAlg
      BY <3>14 DEF OpenAlg
    <3>15. CASE OpenRun
      BY <3>15 DEF OpenRun
    <3>16. CASE OpenGpu
      <4>1. /\ main.pc = "open_gpu"
            /\ \E pc \in {"open_thread", "finish"} : main' = [main EXCEPT !.pc = pc]
            /\ UNCHANGED <<exist, camdetect, tcp, asked, threads>>
            /\ \/ cam' = cam
               \/ \E g \in Room : cam' = [cam EXCEPT ![main.at].gpu_index = g,
                                              ![main.at].holds = TRUE,
                                              ![main.at].vtype = camdetect[main.at]]
        BY <3>16 DEF OpenGpu, NewType
      <4>2. cam'[c] = cam[c]
        BY <4>1
      <4> QED
        BY <4>1, <4>2
    <3> QED
      BY <1>3, <3>1, <3>2, <3>3, <3>4, <3>5, <3>6, <3>7, <3>8, <3>9, <3>10, <3>11,
         <3>12, <3>13, <3>14, <3>15, <3>16 DEF MainStep
  <2> QED
    BY <1>a, <1>3, <2>1, OtherCam
<1> QED
  BY <1>1, <1>2, <1>3

\* The places stay counted.
LEMMA MainPlaces ==
  ASSUME IInv, AllOrderly, MainStep
  PROVE  Places'
<1>0. main.at \in Cams /\ cam \in [Cams -> CamInfo] /\ Places
  BY DEF IInv, TypeOK, MainInfo
<1>a. OpenGpu => Room # {}
  BY PlaceLeft DEF OpenGpu
<1>b. CASE CloseGpu \/ OpenGpu
  BY <1>a, <1>b, CloseGpuPlaces, OpenGpuPlaces
<1>c. CASE ~(CloseGpu \/ OpenGpu)
  <2>1. /\ g_gpu_index' = g_gpu_index
        /\ \A c \in Cams : /\ cam'[c].holds = cam[c].holds
                           /\ cam'[c].gpu_index = cam[c].gpu_index
    <3> USE <1>0 DEF CamInfo, threads
    <3>1. CASE Skip
      BY <3>1 DEF Skip
    <3>2. CASE Take
      BY <3>2 DEF Take
    <3>3. CASE Finish
      BY <3>3 DEF Finish
    <3>4. CASE CloseFlags
      BY <3>4 DEF CloseFlags
    <3>5. CASE CloseWait
      BY <3>5 DEF CloseWait
    <3>6. CASE CloseJoinDecode
      BY <3>6 DEF CloseJoinDecode
    <3>7. CASE CloseJoinAlg
      BY <3>7 DEF CloseJoinAlg
    <3>8. CASE CloseRelease
      BY <3>8 DEF CloseRelease
    <3>9. CASE CloseFree
      BY <3>9 DEF CloseFree
    <3>10. CASE CloseStatus
      BY <3>10 DEF CloseStatus
    <3>11. CASE CloseReply
      BY <3>11 DEF CloseReply
    <3>12. CASE CloseFd
      BY <3>12 DEF CloseFd
    <3>13. CASE CloseDone
      BY <3>13 DEF CloseDone
    <3>14. CASE OpenStatus
      BY <3>14 DEF OpenStatus
    <3>15. CASE OpenThread
      BY <3>15 DEF OpenThread
    <3>16. CASE OpenAlg
      BY <3>16 DEF OpenAlg
    <3>17. CASE OpenRun
      BY <3>17 DEF OpenRun
    <3> QED
      BY <1>c, <3>1, <3>2, <3>3, <3>4, <3>5, <3>6, <3>7, <3>8, <3>9, <3>10, <3>11,
         <3>12, <3>13, <3>14, <3>15, <3>16, <3>17 DEF MainStep
  <2> QED
    BY <1>0, <2>1, PlacesKept
<1> QED
  BY <1>b, <1>c
-----------------------------------------------------------------------------
(* The invariant *)

\* The program starts with no camera open and the ones that exist still to be opened.
LEMMA InitInv == Init => IInv
<1> SUFFICES ASSUME Init PROVE IInv
  OBVIOUS
<1>1. TypeOK
  BY InitType
<1>2. MainOK
  BY DEF Init, MainOK, CloseSteps, OpenSteps, InitCam, NoRequest
<1>3. Places
  <2>1. \A g \in Gpus : {c \in Cams : cam[c].holds /\ cam[c].gpu_index = g} = {}
    BY DEF Init, InitCam
  <2> QED
    BY <2>1, FS_EmptySet DEF Init, Places
<1>4. ExistWithinLimit
  <2>1. {c \in Cams : exist[c] /\ Orderly(c)} = {c \in Cams : exist[c]}
    BY DEF Init, Orderly
  <2>2. /\ exist \in [Cams -> BOOLEAN] /\ Cardinality({c \in Cams : exist[c]}) <= RunMax
        /\ CamCount
    BY DEF Init, CamCount
  <2> QED
    BY <2>1, <2>2 DEF ExistWithinLimit
<1>5. ASSUME NEW c \in Cams PROVE CamOK(c)
  <2>1. /\ cam[c] = InitCam /\ ~Works(c) /\ ~Pending(c)
        /\ \A k \in Tids : decoder[c][k].pc = "none" /\ process[c][k] = "none"
        /\ main.cmd = "BOOT" /\ main.at = 0 /\ main.pc = "scan"
    BY <1>5 DEF Init, Works, Pending, NoDecoder, NoRequest
  <2>2. ~Ordered(c)
    BY <2>1 DEF Ordered, Newer, InitCam
  <2>3. ~(c < main.at)
    BY <2>1, CamAssumption DEF Cams
  <2>4. Shape(c)
    BY <2>1 DEF Shape
  <2>5. ThreadOK(c)
    BY <2>1 DEF ThreadOK, Answering, InitCam
  <2>6. OrderedOK(c)
    BY <2>2 DEF OrderedOK
  <2>7. SettledOK(c)
    <3>1. Down(c)
      BY <2>1 DEF Down, Has, InitCam
    <3>2. ~Opened(c)
      BY <2>1, <2>3 DEF Opened
    <3> QED
      BY <2>1, <2>2, <2>3, <3>1, <3>2 DEF SettledOK
  <2> QED
    BY <2>4, <2>5, <2>6, <2>7 DEF CamOK
<1> QED
  BY <1>1, <1>2, <1>3, <1>4, <1>5 DEF IInv

\* A camera that was out of order stays so.
LEMMA OrderlyBefore ==
  ASSUME TypeOK, [Next]_vars, NEW d \in Cams, Orderly(d)'
  PROVE  Orderly(d)
<1>1. ASSUME NEW c \in Cams, NEW odd \in BOOLEAN, Record(c, odd)
      PROVE  Orderly(d)
  <2>1. disorder[d] <= disorder'[d] /\ disorder[d] \in Nat
    BY <1>1, RecordType DEF TypeOK
  <2> QED
    BY <2>1 DEF Orderly
<1>2. ASSUME NEW c \in Cams, NEW fd \in Clients, NEW v \in Vtypes, SetAlg(c, v, fd)
      PROVE  Orderly(d)
  BY <1>1, <1>2 DEF SetAlg
<1>3. ASSUME NEW c \in Cams, NEW fd \in Clients, DelCamera(c, fd)
      PROVE  Orderly(d)
  <2>1. PICK odd \in BOOLEAN : Record(c, odd)
    BY <1>3 DEF DelCamera
  <2> QED
    BY <1>1, <2>1
<1>4. ASSUME NEW c \in Cams, NEW fd \in Clients, SetEvent(c, fd)
      PROVE  Orderly(d)
  <2>1. PICK odd \in BOOLEAN : Record(c, odd)
    BY <1>4 DEF SetEvent
  <2> QED
    BY <1>1, <2>1
<1>5. ASSUME NEW c \in Cams, Play(c) \/ Stop(c) PROVE Orderly(d)
  BY <1>5 DEF Play, Stop, hist, Orderly
<1>6. CASE TcpStep
  BY <1>6 DEF TcpStep, TcpFd, TcpStatus, TcpCtrl, hist, Orderly
<1>7. CASE MainStep
  BY <1>7, MainDisorder
<1>8. ASSUME NEW c \in Cams, NEW k \in Tids, DecodeStep(c, k) PROVE Orderly(d)
  BY <1>8, DecodeSteps DEF DecodeEffect, Orderly
<1>9. ASSUME NEW c \in Cams, NEW k \in Tids, ProcessStep(c, k) PROVE Orderly(d)
  BY <1>9, RunSteps DEF ProcessEffect, env, hist, Orderly
<1>10. CASE UNCHANGED vars
  BY <1>10 DEF vars, Orderly
<1> QED
  BY <1>2, <1>3, <1>4, <1>5, <1>6, <1>7, <1>8, <1>9, <1>10 DEF Next, TcpRequest

\* The cameras that exist and whose requests came in order.
InOrder == {c \in Cams : exist[c] /\ Orderly(c)}

\* There are finitely many, and a set of cameras within another has no more members.
LEMMA CamSets ==
  /\ \A S \in SUBSET Cams : IsFiniteSet(S) /\ Cardinality(S) \in Nat
  /\ \A S \in SUBSET Cams, T \in SUBSET Cams :
        S \subseteq T => Cardinality(S) <= Cardinality(T)
  /\ \A S \in SUBSET Cams, c \in Cams : Cardinality(S \cup {c}) <= Cardinality(S) + 1
<1>1. IsFiniteSet(Cams)
  BY CamAssumption, FS_Interval DEF Cams
<1>2. \A S \in SUBSET Cams : IsFiniteSet(S) /\ Cardinality(S) \in Nat
  BY <1>1, FS_Subset, FS_CardinalityType
<1>3. ASSUME NEW S \in SUBSET Cams, NEW T \in SUBSET Cams, S \subseteq T
      PROVE  Cardinality(S) <= Cardinality(T)
  BY <1>2, <1>3, FS_Subset
<1>4. ASSUME NEW S \in SUBSET Cams, NEW c \in Cams
      PROVE  Cardinality(S \cup {c}) <= Cardinality(S) + 1
  <2>1. IsFiniteSet(S) /\ Cardinality(S) \in Nat
    BY <1>2
  <2>2. Cardinality(S \cup {c}) = IF c \in S THEN Cardinality(S) ELSE Cardinality(S) + 1
    BY <2>1, FS_AddElement
  <2> QED
    BY <2>1, <2>2
<1> QED
  BY <1>2, <1>3, <1>4

\* A camera that is added in order is new to the limit test as well: its close cannot
\* be unfinished.  So the cameras in order stay within the limit.
LEMMA SetAlgLimit ==
  ASSUME IInv, NEW c \in Cams, NEW fd \in Clients, NEW v \in Vtypes, SetAlg(c, v, fd)
  PROVE  Cardinality(InOrder)' <= RunMax
<1> USE CamAssumption
<1>1. /\ Accepts(c) /\ Record(c, FALSE) /\ exist' = [exist EXCEPT ![c] = TRUE]
      /\ ~(~exist[c] /\ ~cam[c].open_alg /\ Limit)
  BY DEF SetAlg
<1>2. /\ TypeOK /\ MainOK /\ CamCount /\ Cardinality(InOrder) <= RunMax
      /\ exist \in [Cams -> BOOLEAN] /\ cam_num \in Int
  BY DEF IInv, ExistWithinLimit, InOrder, TypeOK
<1>3. \A d \in Cams : Orderly(d)' => Orderly(d)
  <2>1. Next
    BY DEF Next, TcpRequest
  <2> QED
    BY <1>2, <2>1, OrderlyBefore
<1>4. InOrder' \subseteq InOrder \cup {c}
  BY <1>1, <1>2, <1>3 DEF InOrder
<1>5. /\ InOrder \in SUBSET Cams /\ InOrder' \in SUBSET Cams
      /\ {d \in Cams : exist[d]} \in SUBSET Cams
      /\ Cardinality(InOrder') \in Nat /\ Cardinality(InOrder) \in Nat
  BY CamSets DEF InOrder
<1>6. CASE exist[c] \/ ~Orderly(c)'
  <2>1. InOrder' \subseteq InOrder
    BY <1>1, <1>2, <1>3, <1>6 DEF InOrder
  <2>2. Cardinality(InOrder') <= Cardinality(InOrder)
    BY <1>5, <2>1, CamSets
  <2> QED
    BY <1>2, <1>5, <2>2
<1>7. CASE ~exist[c] /\ Orderly(c)'
  <2>1. ~Unfinished(c) /\ CamOK(c)
    BY <1>1, <1>2, <1>3, <1>7, RecordType DEF Orderly, IInv
  <2>2. ~cam[c].open_alg
    BY <1>1, <1>2, <1>7, <2>1, Accepted DEF Down, Has
  <2>3. cam_num < RunMax
    BY <1>1, <1>2, <1>7, <2>2 DEF Limit
  <2>4. Cardinality(InOrder') <= Cardinality({d \in Cams : exist[d]} \cup {c})
    <3>1. InOrder' \subseteq {d \in Cams : exist[d]} \cup {c}
      BY <1>4 DEF InOrder
    <3>2. {d \in Cams : exist[d]} \cup {c} \in SUBSET Cams
      OBVIOUS
    <3> QED
      BY <1>5, <3>1, <3>2, CamSets
  <2>5. Cardinality({d \in Cams : exist[d]} \cup {c}) <= cam_num + 1
    BY <1>2, <1>5, CamSets DEF CamCount
  <2>6. Cardinality({d \in Cams : exist[d]} \cup {c}) \in Nat
    <3>1. {d \in Cams : exist[d]} \cup {c} \in SUBSET Cams
      OBVIOUS
    <3> QED
      BY <3>1, CamSets
  <2> QED
    BY <1>2, <1>5, <2>3, <2>4, <2>5, <2>6
<1> QED
  BY <1>6, <1>7

\* No other step adds a camera.
LEMMA OtherLimit ==
  ASSUME IInv, [Next]_vars, \A c \in Cams : exist'[c] => exist[c]
  PROVE  Cardinality(InOrder)' <= RunMax
<1>1. TypeOK /\ Cardinality(InOrder) <= RunMax
  BY DEF IInv, ExistWithinLimit, InOrder
<1>2. \A d \in Cams : Orderly(d)' => Orderly(d)
  BY <1>1, OrderlyBefore
<1>3. InOrder' \subseteq InOrder /\ InOrder \in SUBSET Cams /\ InOrder' \in SUBSET Cams
  BY <1>2 DEF InOrder
<1>4. /\ Cardinality(InOrder') <= Cardinality(InOrder)
      /\ Cardinality(InOrder') \in Nat /\ Cardinality(InOrder) \in Nat
  BY <1>3, CamSets
<1> QED
  BY <1>1, <1>4, CamAssumption

\* A request that is posted is one of camera_main's commands.
LEMMA PostMainOK ==
  ASSUME MainOK, NEW c \in Cams, Accepts(c), NEW fd \in Clients,
         NEW cmd \in {"OPEN", "CLOSE", "RESET"}, Post(c, cmd, fd), UNCHANGED <<main, cam>>
  PROVE  MainOK'
<1>1. tcp'.cmd # "NULL" /\ main.cmd # "BOOT"
  BY DEF Post, Accepts, Idle
<1> QED
  BY <1>1 DEF MainOK

\* Every step keeps the invariant.
LEMMA StepInv ==
  ASSUME IInv, [Next]_vars
  PROVE  IInv'
<1>0. TypeOK /\ MainOK /\ CamCount
  BY DEF IInv, ExistWithinLimit
<1>o. \A c \in Cams : Orderly(c)' => Orderly(c) /\ CamOK(c)
  BY <1>0, OrderlyBefore DEF IInv
<1>p. AllOrderly' => AllOrderly /\ Places
  BY <1>o DEF AllOrderly, IInv
<1>1. TypeOK'
  <2>1. CASE Next
    BY <1>0, <2>1, TcpType, MainType, DecodeType, ProcessType DEF Next
  <2>2. CASE UNCHANGED vars
    BY <1>0, <2>2 DEF TypeOK, vars
  <2> QED
    BY <2>1, <2>2
<1>2. CamCount'
  <2>1. CASE UNCHANGED vars
    BY <1>0, <2>1 DEF CamCount, vars
  <2> QED
    BY <1>0, <2>1, CountInv
<1> SUFFICES /\ MainOK' /\ Cardinality(InOrder)' <= RunMax
             /\ AllOrderly' => Places'
             /\ \A c \in Cams : Orderly(c)' => CamOK(c)'
  BY <1>1, <1>2 DEF IInv, ExistWithinLimit, InOrder
<1>l. UNCHANGED exist => Cardinality(InOrder)' <= RunMax
  BY OtherLimit
<1>3. ASSUME NEW c \in Cams, NEW fd \in Clients, NEW v \in Vtypes, SetAlg(c, v, fd)
      PROVE  /\ MainOK' /\ Cardinality(InOrder)' <= RunMax
             /\ AllOrderly' => Places'
             /\ \A d \in Cams : Orderly(d)' => CamOK(d)'
  <2>1. \A d \in Cams : Orderly(d)' => CamOK(d)'
    BY <1>0, <1>o, <1>3, SetAlgInv
  <2>2. AllOrderly' => Places'
    BY <1>p, <1>3, PlacesKept DEF SetAlg
  <2>3. MainOK'
    <3>1. PICK cmd \in {"OPEN", "RESET"} : Post(c, cmd, fd)
      BY <1>3 DEF SetAlg
    <3> QED
      BY <1>0, <1>3, <3>1, PostMainOK DEF SetAlg
  <2>4. Cardinality(InOrder)' <= RunMax
    BY <1>3, SetAlgLimit
  <2> QED
    BY <2>1, <2>2, <2>3, <2>4
<1>4. ASSUME NEW c \in Cams, NEW fd \in Clients, DelCamera(c, fd)
      PROVE  /\ MainOK' /\ Cardinality(InOrder)' <= RunMax
             /\ AllOrderly' => Places'
             /\ \A d \in Cams : Orderly(d)' => CamOK(d)'
  <2>1. \A d \in Cams : Orderly(d)' => CamOK(d)'
    BY <1>0, <1>o, <1>4, DelCameraInv
  <2>2. AllOrderly' => Places'
    BY <1>p, <1>4, PlacesKept DEF DelCamera
  <2>3. MainOK'
    BY <1>0, <1>4, PostMainOK DEF DelCamera
  <2>4. Cardinality(InOrder)' <= RunMax
    <3>1. \A d \in Cams : exist'[d] => exist[d]
      BY <1>0, <1>4 DEF DelCamera, TypeOK
    <3> QED
      BY <3>1, OtherLimit
  <2> QED
    BY <2>1, <2>2, <2>3, <2>4
<1>5. ASSUME NEW c \in Cams, NEW fd \in Clients, SetEvent(c, fd)
      PROVE  /\ MainOK' /\ Cardinality(InOrder)' <= RunMax
             /\ AllOrderly' => Places'
             /\ \A d \in Cams : Orderly(d)' => CamOK(d)'
  <2>1. \A d \in Cams : Orderly(d)' => CamOK(d)'
    BY <1>0, <1>o, <1>5, SetEventInv
  <2>2. AllOrderly' => Places'
    BY <1>p, <1>5, PlacesKept DEF SetEvent
  <2>3. MainOK'
    BY <1>0, <1>5, PostMainOK DEF SetEvent
  <2> QED
    BY <1>5, <1>l, <2>1, <2>2, <2>3 DEF SetEvent
<1>6. ASSUME NEW c \in Cams, Play(c) \/ Stop(c)
      PROVE  /\ MainOK' /\ UNCHANGED exist
             /\ AllOrderly' => Places'
             /\ \A d \in Cams : Orderly(d)' => CamOK(d)'
  <2>1. \A d \in Cams : Orderly(d)' => CamOK(d)'
    BY <1>0, <1>o, <1>6, PlayInv
  <2>2. \A d \in Cams : /\ cam'[d].holds = cam[d].holds
                        /\ cam'[d].gpu_index = cam[d].gpu_index
                        /\ cam'[d].cmd = cam[d].cmd
    <3>1. CASE Play(c)
      BY <1>0, <3>1 DEF Play, TypeOK, CamInfo
    <3>2. CASE Stop(c)
      BY <1>0, <3>2 DEF Stop, TypeOK, CamInfo
    <3> QED
      BY <1>6, <3>1, <3>2
  <2>3. UNCHANGED <<main, tcp, g_gpu_index, exist>>
    BY <1>6 DEF Play, Stop
  <2>4. AllOrderly' => Places'
    BY <1>p, <2>2, <2>3, PlacesKept
  <2>5. MainOK'
    BY <1>0, <2>2, <2>3 DEF MainOK
  <2> QED
    BY <2>1, <2>3, <2>4, <2>5
<1>7. ASSUME TcpStep
      PROVE  /\ MainOK' /\ UNCHANGED exist
             /\ AllOrderly' => Places'
             /\ \A d \in Cams : Orderly(d)' => CamOK(d)'
  <2>1. \A d \in Cams : Orderly(d)' => CamOK(d)'
    BY <1>0, <1>o, <1>7, TcpFdInv, TcpStatusInv, TcpCtrlInv DEF TcpStep
  <2>2. /\ tcp.todo # <<>>
        /\ tcp' = [tcp EXCEPT !.todo = Tail(@)] \/ tcp' = NoRequest
        /\ UNCHANGED <<main, g_gpu_index, exist>>
    BY <1>7 DEF TcpStep, TcpFd, TcpStatus, TcpCtrl
  <2>3. tcp'.todo # <<>> => tcp'.cmd = tcp.cmd
    BY <1>0, <2>2 DEF TypeOK, TcpInfo, NoRequest
  <2>4. \A d \in Cams : /\ cam'[d].holds = cam[d].holds
                        /\ cam'[d].gpu_index = cam[d].gpu_index
    <3>1. CASE TcpFd
      BY <1>0, <3>1 DEF TcpFd, TypeOK, CamInfo
    <3>2. CASE TcpStatus
      BY <1>0, <3>2 DEF TcpStatus, TypeOK, CamInfo
    <3>3. CASE TcpCtrl
      BY <1>0, <3>3 DEF TcpCtrl, TypeOK, CamInfo
    <3> QED
      BY <1>7, <3>1, <3>2, <3>3 DEF TcpStep
  <2>5. AllOrderly' => Places'
    BY <1>p, <2>2, <2>4, PlacesKept
  <2>6. MainOK'
    BY <1>0, <2>2, <2>3 DEF MainOK
  <2> QED
    BY <2>1, <2>2, <2>5, <2>6
<1>8. ASSUME MainStep
      PROVE  /\ MainOK' /\ UNCHANGED exist
             /\ AllOrderly' => Places'
             /\ \A d \in Cams : Orderly(d)' => CamOK(d)'
  <2>1. \A d \in Cams : Orderly(d)' => CamOK(d)'
    BY <1>8, MainInv
  <2>2. AllOrderly' => Places'
    BY <1>p, <1>8, MainPlaces
  <2>3. MainOK'
    BY <1>0, <1>8, MainOKMain
  <2>4. UNCHANGED exist
    BY <1>8 DEF MainStep, env, Skip, Take, Finish, CloseFlags, CloseGpu, CloseWait,
       CloseJoinDecode, CloseJoinAlg, CloseRelease, CloseFree, CloseStatus, CloseReply,
       CloseFd, CloseDone, OpenStatus, OpenGpu, OpenThread, OpenAlg, OpenRun
  <2> QED
    BY <2>1, <2>2, <2>3, <2>4
<1>9. ASSUME NEW c \in Cams, NEW k \in Tids, DecodeStep(c, k)
      PROVE  /\ MainOK' /\ UNCHANGED exist
             /\ AllOrderly' => Places'
             /\ \A d \in Cams : Orderly(d)' => CamOK(d)'
  <2>1. DecodeEffect(c, k)
    BY <1>0, <1>9, DecodeSteps
  <2>2. ASSUME NEW d \in Cams, Orderly(d)' PROVE CamOK(d)'
    <3>1. CASE d = c
      BY <1>0, <1>o, <1>9, <2>2, <3>1, DecodeInv
    <3>2. CASE d # c
      <4>1. Untouched(d) /\ UNCHANGED <<main, tcp>>
        BY <2>1, <3>2 DEF Untouched, DecodeEffect
      <4> QED
        BY <1>o, <2>2, <4>1, Alone
    <3> QED
      BY <3>1, <3>2
  <2>3. /\ UNCHANGED <<main, tcp, g_gpu_index, exist>>
        /\ \A d \in Cams : /\ cam'[d].holds = cam[d].holds
                           /\ cam'[d].gpu_index = cam[d].gpu_index
                           /\ cam'[d].cmd = cam[d].cmd
    BY <2>1 DEF DecodeEffect
  <2>4. AllOrderly' => Places'
    BY <1>p, <2>3, PlacesKept
  <2>5. MainOK'
    BY <1>0, <2>3 DEF MainOK
  <2> QED
    BY <2>2, <2>3, <2>4, <2>5
<1>10. ASSUME NEW c \in Cams, NEW k \in Tids, ProcessStep(c, k)
       PROVE  /\ MainOK' /\ UNCHANGED exist
              /\ AllOrderly' => Places'
              /\ \A d \in Cams : Orderly(d)' => CamOK(d)'
  <2>1. ProcessEffect(c, k)
    BY <1>0, <1>10, RunSteps
  <2>2. ASSUME NEW d \in Cams, Orderly(d)' PROVE CamOK(d)'
    <3>1. CASE d = c
      BY <1>0, <1>o, <1>10, <2>2, <3>1, ProcessInv
    <3>2. CASE d # c
      <4>1. Untouched(d) /\ UNCHANGED <<main, tcp>>
        BY <2>1, <3>2 DEF Untouched, ProcessEffect, env, hist
      <4> QED
        BY <1>o, <2>2, <4>1, Alone
    <3> QED
      BY <3>1, <3>2
  <2>3. /\ UNCHANGED <<main, tcp, g_gpu_index, exist>>
        /\ \A d \in Cams : /\ cam'[d].holds = cam[d].holds
                           /\ cam'[d].gpu_index = cam[d].gpu_index
                           /\ cam'[d].cmd = cam[d].cmd
    BY <1>0, <2>1 DEF ProcessEffect, env, TypeOK, CamInfo
  <2>4. AllOrderly' => Places'
    BY <1>p, <2>3, PlacesKept
  <2>5. MainOK'
    BY <1>0, <2>3 DEF MainOK
  <2> QED
    BY <2>2, <2>3, <2>4, <2>5
<1>11. ASSUME UNCHANGED vars
       PROVE  /\ MainOK' /\ UNCHANGED exist
              /\ AllOrderly' => Places'
              /\ \A d \in Cams : Orderly(d)' => CamOK(d)'
  <2>1. \A d \in Cams : Orderly(d)' => CamOK(d)'
    BY <1>o, <1>11, Alone DEF vars, Untouched
  <2>2. AllOrderly' => Places'
    BY <1>p, <1>11, PlacesKept DEF vars
  <2>3. MainOK'
    BY <1>0, <1>11 DEF MainOK, vars
  <2> QED
    BY <1>11, <2>1, <2>2, <2>3 DEF vars
<1> QED
  BY <1>l, <1>3, <1>4, <1>5, <1>6, <1>7, <1>8, <1>9, <1>10, <1>11 DEF Next, TcpRequest

\* So it holds in every execution.
LEMMA Invariance == Spec => []IInv
<1>1. IInv /\ [Next]_vars => IInv'
  BY StepInv
<1> QED
  BY InitInv, <1>1, PTL DEF Spec

\* As long as no request was out of order, the count of each GPU slot is exactly the
\* number of cameras that hold a place on it, and camera_open always finds a place, for
\* any number of cameras and slots that fit together.
THEOREM PlacesCorrect == Spec => []GpuExact
<1>1. IInv => GpuExact
  BY PlaceLeft DEF IInv, AllOrderly, Places, GpuExact
<1> QED
  BY Invariance, <1>1, PTL

\* cam_num counts the cameras in every order of requests, and those whose own requests
\* came in order stay within the limit of handle_change, whatever is asked for others:
\* none of them is taken for an old one because its close is unfinished.
THEOREM LimitKept == Spec => []ExistWithinLimit
<1>1. IInv => ExistWithinLimit
  BY DEF IInv
<1> QED
  BY Invariance, <1>1, PTL

\* No thread of a camera is left behind a handle that was overwritten, unless a request
\* for that camera was out of order: none for another camera can do it.
THEOREM HandlesKnown == Spec => []ThreadsKnown
<1>1. IInv => ThreadsKnown
  BY DEF IInv, CamOK, ThreadOK, ThreadsKnown
<1> QED
  BY Invariance, <1>1, PTL

\* A frame is copied, and the algorithm run, only through buffers and an instance that
\* are allocated, unless a request for that very camera was out of order.
THEOREM BuffersCorrect == Spec => []BuffersLive
<1>1. IInv => BuffersLive
  <2> SUFFICES ASSUME IInv, NEW c \in Cams, NEW k \in Tids, Orderly(c)
               PROVE  /\ decoder[c][k].pc = "store" /\ cam[c].have_frame_size =>
                            cam[c].buf /\ decoder[c][k].yuv
                      /\ process[c][k] = "run" => cam[c].buf /\ cam[c].alg
    BY DEF BuffersLive
  <2>0. CamOK(c)
    BY DEF IInv
  <2>1. decoder[c][k].pc = "store" /\ cam[c].have_frame_size =>
           cam[c].buf /\ decoder[c][k].yuv
    BY <2>0 DEF CamOK, ThreadOK
  <2>2. ASSUME process[c][k] = "run" PROVE cam[c].buf /\ cam[c].alg
    <3>1. cam[c].buf /\ cam[c].process_thread # 0
      BY <2>0, <2>2 DEF CamOK, ThreadOK, Tids
    <3>2. CASE Works(c)
      <4>1. main.pc \in MainSteps
        BY DEF IInv, TypeOK, MainInfo
      <4> QED
        BY <2>0, <3>1, <3>2, <4>1 DEF CamOK, Shape, Works, Up, Down, Has, MainSteps
    <3>3. CASE ~Works(c)
      BY <2>0, <3>1, <3>3 DEF CamOK, OrderedOK, SettledOK, Up, Down, Has
    <3> QED
      BY <3>1, <3>2, <3>3
  <2> QED
    BY <2>1, <2>2
<1> QED
  BY Invariance, <1>1, PTL

\* When the requests for a camera came in order and the last one was answered, the
\* camera runs with the configuration that was saved last.
THEOREM ConfigCorrect == Spec => []ConfigInEffect
<1>1. IInv => ConfigInEffect
  BY DEF IInv, CamOK, SettledOK, ConfigInEffect, Settled, Opened
<1> QED
  BY Invariance, <1>1, PTL

\* When nothing is pending for a camera whose requests came in order, it runs exactly if
\* it exists, and if it was deleted it holds neither threads nor buffers, instance or
\* place.
THEOREM RunningCorrect == Spec => []ExistingRun
<1>1. IInv => ExistingRun
  <2> SUFFICES ASSUME IInv, NEW c \in Cams, Orderly(c), Settled(c)
               PROVE  /\ exist[c] <=> Running(c)
                      /\ ~exist[c] => /\ cam[c].rtsp_thread = 0
                                      /\ cam[c].process_thread = 0
                                      /\ ~cam[c].buf /\ ~cam[c].alg /\ ~cam[c].holds
    BY DEF ExistingRun
  <2>1. CamOK(c) /\ ~Works(c) /\ ~Ordered(c) /\ main.cmd # "BOOT"
    BY DEF IInv, Settled, Works, Ordered, Pending, Newer
  <2>2. IF exist[c] THEN Up(c) ELSE Down(c)
    BY <2>1 DEF CamOK, SettledOK
  <2>3. cam[c].have_frame_size <=> cam[c].buf
    BY <2>1 DEF CamOK, ThreadOK
  <2> QED
    BY <2>2, <2>3 DEF Up, Down, Has, Running
<1> QED
  BY Invariance, <1>1, PTL
=============================================================================
