------------------------ MODULE EventRecorder_proofs ------------------------
(* What holds of the event recorder (zen_rtsp/cam_event.c) for any number of *)
(* frames and videos, any window and any size of the queue.  The frames and  *)
(* the writers are exact whenever camera_close and the recorder meet, and    *)
(* whatever the clock does; the nodes are as long as the clock is not set    *)
(* back with a video open.  What a video holds, and that nothing is used     *)
(* after it was freed, also needs that the recorder is done with the camera  *)
(* when its queues are emptied.                                              *)
EXTENDS EventRecorder, TLAPS, SequenceTheorems, WellFoundedInduction

-----------------------------------------------------------------------------
(* What holds throughout                                                     *)

\* The types of all but the flags and the number of closes.
Types ==
    /\ clock \in Times /\ backs \in 0..MaxBack
    /\ exist \in BOOLEAN /\ close \in CloseSteps
    /\ p_f_e_queue \in Seq([frame : Frames, events : 0..MaxVideos])
    /\ Len(p_f_e_queue) <= QueueMax
    /\ p_5s_frame_queue \in Seq([frame : Frames, ts : Times])
    /\ p_file_queue \in Seq(Videos)
    /\ rec \in [pc : RecSteps, frame : Frames \cup {0}, events : 0..MaxVideos,
                ts : Times \cup {0}, cur : Videos \cup {0}]
    /\ frames \subseteq Frames /\ nodes \subseteq Videos /\ writers \subseteq Videos
    /\ videos \in Seq([ts : Times, start : Nat, frames : Seq(Frames)])
    /\ made \in 0..MaxFrames /\ events \in 0..MaxVideos
    /\ taken \in [Frames -> Times \cup {0}]
    /\ start \in 1..(MaxFrames + 1) /\ cut \subseteq Videos

Flags == /\ closes \in 0..MaxCloses
         /\ passed \in BOOLEAN /\ late \in BOOLEAN /\ shifted \in BOOLEAN

Working == rec.pc \in {"keep", "file", "event"}

\* The frames are in order: the last seconds, then the one in hand, then those that wait.
QueuesOK ==
    /\ \A i \in 1..Len(p_f_e_queue) : p_f_e_queue[i].frame <= made
    /\ \A i \in 1..Len(p_5s_frame_queue) : p_5s_frame_queue[i].frame <= made
    /\ \A i, j \in 1..Len(p_f_e_queue) :
          i < j => p_f_e_queue[i].frame < p_f_e_queue[j].frame
    /\ \A i, j \in 1..Len(p_5s_frame_queue) :
          i < j => p_5s_frame_queue[i].frame < p_5s_frame_queue[j].frame
    /\ \A i \in 1..Len(p_5s_frame_queue), j \in 1..Len(p_f_e_queue) :
          p_5s_frame_queue[i].frame < p_f_e_queue[j].frame
    /\ rec.pc = "idle" => rec.events = 0
    /\ Working => rec.frame > 0 /\ rec.frame <= made /\ rec.ts > 0
    /\ rec.pc = "keep" =>
          /\ \A i \in 1..Len(p_5s_frame_queue) : p_5s_frame_queue[i].frame < rec.frame
          /\ \A j \in 1..Len(p_f_e_queue) : rec.frame < p_f_e_queue[j].frame

\* Which frames are allocated.
HeapOK == rec.pc # "broken" =>
             frames = FramesOf(p_f_e_queue) \cup FramesOf(p_5s_frame_queue)
                      \cup IF rec.pc = "keep" THEN {rec.frame} ELSE {}

\* There are no more videos than events so far, those still to come included.
EventsOK == \E S \in [0..Len(p_f_e_queue) -> 0..MaxVideos] :
    /\ S[0] = Len(videos) + rec.events
    /\ \A i \in 1..Len(p_f_e_queue) : S[i] = S[i - 1] + p_f_e_queue[i].events
    /\ \A i \in 0..Len(p_f_e_queue) : S[i] <= events

\* The open videos are listed in the order they were opened, each with its writer.
ListOK ==
    /\ writers = Elems(p_file_queue)
    /\ nodes \subseteq 1..Len(videos)
    /\ \A i \in 1..Len(p_file_queue) : p_file_queue[i] \in 1..Len(videos)
    /\ \A i, j \in 1..Len(p_file_queue) : i < j => p_file_queue[i] < p_file_queue[j]

Base == Types /\ QueuesOK /\ HeapOK /\ EventsOK /\ ListOK

-----------------------------------------------------------------------------
(* What holds as long as the clock is not set back with a video open         *)

\* The time up to which frames were taken.
Now == IF rec.pc = "idle" THEN clock ELSE rec.ts

\* The videos in the list have their nodes and their times in order; those before the one
\* in hand are not due.
TimesOK ==
    /\ nodes = Elems(p_file_queue)
    /\ rec.pc # "idle" => rec.ts <= clock
    /\ \A i \in 1..Len(p_file_queue) : videos[p_file_queue[i]].ts <= Now
    /\ \A i, j \in 1..Len(p_file_queue) :
          i < j => videos[p_file_queue[i]].ts <= videos[p_file_queue[j]].ts
    /\ rec.pc = "file" /\ rec.cur \in nodes => \E p \in 1..Len(p_file_queue) :
         /\ p_file_queue[p] = rec.cur
         /\ \A j \in 1..(p - 1) : ~Expired(videos[p_file_queue[j]].ts)

-----------------------------------------------------------------------------
(* What holds as long as the recorder is idle, too, while the queues are     *)
(* emptied                                                                   *)

\* The frame the recorder took last, and the end of the last seconds.
Last == made - Len(p_f_e_queue)
End == IF rec.pc = "keep" THEN Last - 1 ELSE Last

\* camera_close has not emptied one of the queues without the next.
Live == close \notin {"clear_5s", "clear_file"}

\* The frame in hand is still to be written to video v.
Unwritten(v) == rec.pc = "keep" \/ (rec.pc = "file" /\ v >= rec.cur)
Listed(v) == v \in Elems(p_file_queue)

\* The frames that wait are the last ones that were made, in order; the recorder holds
\* the one before them, and is idle while camera_close empties the queues.
FeOK == /\ Last >= 0
        /\ \A i \in 1..Len(p_f_e_queue) : p_f_e_queue[i].frame = Last + i
        /\ ~Live => rec.pc = "idle" /\ p_f_e_queue = <<>>
        /\ rec.pc # "idle" => /\ rec.pc # "broken"
                              /\ rec.frame = Last /\ Last > 0
                              /\ taken[rec.frame] = rec.ts

\* The frames of the last seconds are the ones before the end, in order, with the times
\* they were taken; camera_close empties them before it closes the videos.
KeptOK == /\ Live => \A i \in 1..Len(p_5s_frame_queue) :
                       p_5s_frame_queue[i].frame = End - Len(p_5s_frame_queue) + i
          /\ \A i \in 1..Len(p_5s_frame_queue) :
                p_5s_frame_queue[i].ts = taken[p_5s_frame_queue[i].frame]
          /\ rec.pc \in {"file", "event"} => p_5s_frame_queue # <<>>
          /\ rec.pc = "file" => rec.cur \in nodes
          /\ close = "clear_file" => p_5s_frame_queue = <<>>

\* A video is a run of frames; an open one has all up to the present frame.
RunsOK == \A v \in 1..Len(videos) :
    /\ \A i \in 2..Len(videos[v].frames) :
         videos[v].frames[i] = videos[v].frames[i - 1] + 1
    /\ Live /\ Listed(v) =>
         /\ videos[v].frames # <<>>
         /\ videos[v].frames[Len(videos[v].frames)]
              = IF Unwritten(v) THEN Last - 1 ELSE Last

\* Only frames up to the present one were taken, and those that count not later than
\* now; one that is kept no longer is out of the window.
TakenOK == \A f \in Frames : taken[f] # 0 =>
    /\ f <= Last
    /\ f >= start =>
         /\ taken[f] <= Now
         /\ \/ f \in FramesOf(p_5s_frame_queue)
            \/ rec.pc = "keep" /\ f = rec.frame
            \/ taken[f] + Window < Now

\* A video has the frames of its window, but for the one in hand; a closed one is out of
\* the window.
CoversOK == \A v \in (1..Len(videos)) \ cut :
    /\ \A f \in Frames :
         /\ taken[f] # 0 /\ f >= videos[v].start
         /\ taken[f] <= videos[v].ts + Window /\ videos[v].ts <= taken[f] + Window
         => \/ f \in Elems(videos[v].frames)
            \/ Listed(v) /\ Unwritten(v) /\ f = rec.frame
    /\ ~Listed(v) => videos[v].ts + Window < Now

Core == FeOK /\ KeptOK /\ RunsOK /\ TakenOK /\ CoversOK

IInv == /\ Flags /\ Base
        /\ ~shifted => TimesOK
        /\ ~late /\ ~shifted => Core

-----------------------------------------------------------------------------
(* Sequences *)

\* What Tail and Head leave and take, as the provers need it.
LEMMA TailFacts ==
  ASSUME NEW S, NEW s \in Seq(S), s # <<>>
  PROVE  /\ Len(s) \in Nat \ {0}
         /\ Head(s) = s[1] /\ Head(s) \in S
         /\ Tail(s) \in Seq(S)
         /\ Len(Tail(s)) = Len(s) - 1
         /\ \A i \in 1..(Len(s) - 1) : Tail(s)[i] = s[i + 1]
         /\ Tail(s) = <<>> <=> Len(s) = 1
<1>1. Len(s) \in Nat \ {0}
  BY EmptySeq, LenProperties
<1>2. /\ Head(s) \in S /\ Tail(s) \in Seq(S) /\ Len(Tail(s)) = Len(s) - 1
      /\ \A i \in 1..(Len(s) - 1) : Tail(s)[i] = s[i + 1]
  BY HeadTailProperties
<1>3. Head(s) = s[1]
  BY <1>1
<1>4. Tail(s) = <<>> <=> Len(Tail(s)) = 0
  BY <1>2, EmptySeq
<1> QED
  BY <1>1, <1>2, <1>3, <1>4

\* What Append adds.
LEMMA AppendFacts ==
  ASSUME NEW S, NEW s \in Seq(S), NEW n \in S
  PROVE  /\ Len(s) \in Nat
         /\ Append(s, n) \in Seq(S) /\ Append(s, n) # <<>>
         /\ Len(Append(s, n)) = Len(s) + 1
         /\ \A i \in 1..Len(s) : Append(s, n)[i] = s[i]
         /\ Append(s, n)[Len(s) + 1] = n
  BY LenProperties, AppendProperties

\* The elements of a sequence with one more.
LEMMA ElemsAppend ==
  ASSUME NEW S, NEW s \in Seq(S), NEW n \in S
  PROVE  Elems(Append(s, n)) = Elems(s) \cup {n}
<1> DEFINE a == Append(s, n)
<1>1. /\ Len(s) \in Nat /\ Len(a) = Len(s) + 1
      /\ \A i \in 1..Len(s) : a[i] = s[i]
      /\ a[Len(s) + 1] = n
  BY AppendFacts
<1> HIDE DEF a
<1>2. Elems(a) = Elems(s) \cup {n}
  BY <1>1 DEF Elems
<1> QED
  BY <1>2 DEF a

\* The elements of a sequence without its first.
LEMMA ElemsTail ==
  ASSUME NEW S, NEW s \in Seq(S), s # <<>>
  PROVE  Elems(s) = Elems(Tail(s)) \cup {Head(s)}
<1> DEFINE a == Tail(s)
           h == Head(s)
<1>1. /\ Len(s) \in Nat \ {0} /\ Len(a) = Len(s) - 1 /\ h = s[1]
      /\ \A i \in 1..(Len(s) - 1) : a[i] = s[i + 1]
  BY TailFacts
<1> HIDE DEF a, h
<1>2. Elems(s) \subseteq Elems(a) \cup {h}
  <2> SUFFICES ASSUME NEW i \in 1..Len(s) PROVE s[i] \in Elems(a) \cup {h}
    BY DEF Elems
  <2>1. CASE i = 1
    BY <1>1, <2>1
  <2>2. CASE i # 1
    <3>1. i - 1 \in 1..Len(a) /\ a[i - 1] = s[i]
      BY <1>1, <2>2
    <3> QED
      BY <3>1 DEF Elems
  <2> QED
    BY <2>1, <2>2
<1>3. Elems(a) \cup {h} \subseteq Elems(s)
  BY <1>1 DEF Elems
<1> QED
  BY <1>2, <1>3 DEF a, h

\* The frames of a queue with one entry more.
LEMMA FramesAppend ==
  ASSUME NEW S, NEW s \in Seq(S), NEW n \in S
  PROVE  FramesOf(Append(s, n)) = FramesOf(s) \cup {n.frame}
<1> DEFINE a == Append(s, n)
<1>1. /\ Len(s) \in Nat /\ Len(a) = Len(s) + 1
      /\ \A i \in 1..Len(s) : a[i] = s[i]
      /\ a[Len(s) + 1] = n
  BY AppendFacts
<1> HIDE DEF a
<1>2. \A i \in 1..Len(a) : a[i].frame \in FramesOf(s) \cup {n.frame}
  <2> TAKE i \in 1..Len(a)
  <2>1. CASE i = Len(s) + 1
    BY <1>1, <2>1
  <2>2. CASE i # Len(s) + 1
    <3>1. i \in 1..Len(s) /\ a[i] = s[i]
      BY <1>1, <2>2
    <3> QED
      BY <3>1 DEF FramesOf
  <2> QED
    BY <2>1, <2>2
<1>3. \A i \in 1..Len(s) : s[i].frame \in FramesOf(a)
  <2> TAKE i \in 1..Len(s)
  <2>1. i \in 1..Len(a) /\ a[i] = s[i]
    BY <1>1
  <2> QED
    BY <2>1 DEF FramesOf
<1>4. n.frame \in FramesOf(a)
  <2>1. Len(s) + 1 \in 1..Len(a)
    BY <1>1
  <2> QED
    BY <1>1, <2>1 DEF FramesOf
<1>5. FramesOf(a) \subseteq FramesOf(s) \cup {n.frame}
  BY <1>2 DEF FramesOf
<1>6. FramesOf(s) \subseteq FramesOf(a)
  BY <1>3 DEF FramesOf
<1>7. FramesOf(a) = FramesOf(s) \cup {n.frame}
  BY <1>4, <1>5, <1>6
<1> QED
  BY <1>7 DEF a

\* The same for a queue without its first entry.
LEMMA FramesTail ==
  ASSUME NEW S, NEW s \in Seq(S), s # <<>>
  PROVE  FramesOf(s) = FramesOf(Tail(s)) \cup {Head(s).frame}
<1> DEFINE a == Tail(s)
           h == Head(s)
<1>1. /\ Len(s) \in Nat \ {0} /\ Len(a) = Len(s) - 1 /\ h = s[1]
      /\ \A i \in 1..(Len(s) - 1) : a[i] = s[i + 1]
  BY TailFacts
<1> HIDE DEF a, h
<1>2. \A i \in 1..Len(s) : s[i].frame \in FramesOf(a) \cup {h.frame}
  <2> TAKE i \in 1..Len(s)
  <2>1. CASE i = 1
    BY <1>1, <2>1
  <2>2. CASE i # 1
    <3>1. i - 1 \in 1..Len(a) /\ a[i - 1] = s[i]
      BY <1>1, <2>2
    <3> QED
      BY <3>1 DEF FramesOf
  <2> QED
    BY <2>1, <2>2
<1>3. \A i \in 1..Len(a) : a[i].frame \in FramesOf(s)
  <2> TAKE i \in 1..Len(a)
  <2>1. i + 1 \in 1..Len(s) /\ a[i] = s[i + 1]
    BY <1>1
  <2> QED
    BY <2>1 DEF FramesOf
<1>4. h.frame \in FramesOf(s)
  <2>1. 1 \in 1..Len(s)
    BY <1>1
  <2> QED
    BY <1>1, <2>1 DEF FramesOf
<1>5. FramesOf(s) \subseteq FramesOf(a) \cup {h.frame}
  BY <1>2 DEF FramesOf
<1>6. FramesOf(a) \subseteq FramesOf(s)
  BY <1>3 DEF FramesOf
<1>7. FramesOf(s) = FramesOf(a) \cup {h.frame}
  BY <1>4, <1>5, <1>6
<1> QED
  BY <1>7 DEF a, h

\* A set of numbers that is not empty has a least one.
LEMMA Least ==
  ASSUME NEW T, T \subseteq Nat, T # {}
  PROVE  \E x \in T : \A y \in T : x <= y
<1>1. \E x \in T : \A y \in T : ~(<<y, x>> \in OpToRel(<, Nat))
  BY NatLessThanWellFounded, WFMin
<1>2. \A x, y \in T : y < x => <<y, x>> \in OpToRel(<, Nat)
  BY DEF OpToRel
<1>3. PICK x \in T : \A y \in T : ~(<<y, x>> \in OpToRel(<, Nat))
  BY <1>1
<1>4. \A y \in T : ~(y < x)
  BY <1>2, <1>3
<1>5. \A y \in T : x <= y
  <2> SUFFICES ASSUME NEW y \in T PROVE x <= y
    OBVIOUS
  <2>1. x \in Nat /\ y \in Nat /\ ~(y < x)
    BY <1>4
  <2> QED
    BY <2>1
<1> QED
  BY <1>5

-----------------------------------------------------------------------------
(* The types, one fact at a time *)

\* The types of the elements of the sequences.
LEMMA Parts ==
  ASSUME Types
  PROVE  /\ clock \in Nat /\ made \in Nat /\ events \in Nat /\ start \in Nat
         /\ MaxVideos \in Nat /\ Window \in Nat /\ MaxFrames \in Nat
         /\ Len(p_f_e_queue) \in Nat /\ Len(p_5s_frame_queue) \in Nat
         /\ Len(p_file_queue) \in Nat /\ Len(videos) \in Nat
         /\ rec.frame \in Nat /\ rec.events \in Nat /\ rec.ts \in Nat /\ rec.cur \in Nat
         /\ \A i \in 1..Len(p_f_e_queue) : /\ p_f_e_queue[i].frame \in Frames
                                           /\ p_f_e_queue[i].events \in 0..MaxVideos
         /\ \A i \in 1..Len(p_5s_frame_queue) : /\ p_5s_frame_queue[i].frame \in Frames
                                                /\ p_5s_frame_queue[i].ts \in Nat
         /\ \A i \in 1..Len(p_file_queue) : p_file_queue[i] \in Videos
         /\ \A v \in 1..Len(videos) : /\ videos[v].ts \in Nat /\ videos[v].start \in Nat
                                      /\ videos[v].frames \in Seq(Frames)
                                      /\ Len(videos[v].frames) \in Nat
         /\ \A f \in Frames : taken[f] \in Nat
<1>1. /\ clock \in Nat /\ made \in Nat /\ events \in Nat /\ start \in Nat
      /\ MaxVideos \in Nat /\ Window \in Nat /\ MaxFrames \in Nat
      /\ rec.frame \in Nat /\ rec.events \in Nat /\ rec.ts \in Nat /\ rec.cur \in Nat
      /\ \A f \in Frames : taken[f] \in Nat
  BY SizeAssumption, BoundAssumption, SMTT(30) DEF Types, Times, Frames, Videos
<1>2. /\ Len(p_f_e_queue) \in Nat /\ Len(p_5s_frame_queue) \in Nat
      /\ Len(p_file_queue) \in Nat /\ Len(videos) \in Nat
  BY LenProperties DEF Types
<1>3. \A i \in 1..Len(p_f_e_queue) : p_f_e_queue[i] \in [frame : Frames, events : 0..MaxVideos]
  BY ElementOfSeq DEF Types
<1>4. \A i \in 1..Len(p_5s_frame_queue) : p_5s_frame_queue[i] \in [frame : Frames, ts : Times]
  BY ElementOfSeq DEF Types
<1>5. \A i \in 1..Len(p_file_queue) : p_file_queue[i] \in Videos
  BY ElementOfSeq DEF Types
<1>6. \A v \in 1..Len(videos) : videos[v] \in [ts : Times, start : Nat, frames : Seq(Frames)]
  BY ElementOfSeq DEF Types
<1>7. \A v \in 1..Len(videos) : Len(videos[v].frames) \in Nat
  BY <1>6, LenProperties
<1> QED
  BY <1>1, <1>2, <1>3, <1>4, <1>5, <1>6, <1>7, SMTT(30) DEF Times

\* ConditionDeleteQueue finds the frames it frees at the old end; all are expired.
LEMMA StaleFacts ==
  ASSUME Types
  PROVE  \E n \in 0..Len(p_5s_frame_queue) :
           /\ Len(Stale) = n
           /\ \A i \in 1..n : /\ Stale[i] = p_5s_frame_queue[i]
                              /\ Expired(p_5s_frame_queue[i].ts)
<1> DEFINE L == Len(p_5s_frame_queue)
           E(i) == Expired(p_5s_frame_queue[i].ts)
           P(n) == (\A i \in 1..n : E(i)) /\ (n < L => ~E(n + 1))
           T == {n \in 0..L : n < L => ~E(n + 1)}
<1>1. L \in Nat
  BY LenProperties DEF Types
<1>2. PICK m \in T : \A y \in T : m <= y
  <2>1. T \subseteq Nat /\ L \in T
    BY <1>1
  <2> QED
    BY <2>1, Least
<1>3. \A i \in 1..m : E(i)
  <2> SUFFICES ASSUME NEW i \in 1..m, ~E(i) PROVE FALSE
    OBVIOUS
  <2>1. m \in 0..L
    BY <1>2
  <2>2. i - 1 \in 0..L /\ (i - 1) + 1 = i /\ ~(m <= i - 1)
    BY <1>1, <2>1
  <2>3. i - 1 \in T
    BY <2>2
  <2> QED
    BY <2>2, <2>3, <1>2
<1>4. P(m)
  BY <1>2, <1>3
<1> DEFINE n == CHOOSE k \in 0..L : P(k)
<1>5. n \in 0..L /\ P(n)
  <2>1. \E k \in 0..L : P(k)
    BY <1>2, <1>4
  <2> HIDE DEF P
  <2> QED
    BY <2>1
<1>6. Stale = SubSeq(p_5s_frame_queue, 1, n)
  BY DEF Stale
<1> HIDE DEF n
<1>7. /\ Len(SubSeq(p_5s_frame_queue, 1, n)) = n
      /\ \A i \in 1..n : SubSeq(p_5s_frame_queue, 1, n)[i] = p_5s_frame_queue[i]
  <2>1. \A i \in 1..n : p_5s_frame_queue[i] \in [frame : Frames, ts : Times]
    <3>1. \A i \in 1..L : p_5s_frame_queue[i] \in [frame : Frames, ts : Times]
      BY ElementOfSeq DEF Types
    <3>2. \A i \in 1..n : i \in 1..L
      BY <1>1, <1>5
    <3> QED
      BY <3>1, <3>2
  <2>2. n \in Int /\ 1 \in Int
    BY <1>1, <1>5
  <2> QED
    BY <1>1, <1>5, <2>1, <2>2, SubSeqProperties
<1> QED
  BY <1>5, <1>6, <1>7

-----------------------------------------------------------------------------
(* What holds throughout: every step keeps it                                *)

\* The frames in the queues are numbers.
LEMMA FrameNumbers ==
  ASSUME Types
  PROVE  /\ \A i \in 1..Len(p_f_e_queue) : p_f_e_queue[i].frame \in Nat
         /\ \A i \in 1..Len(p_5s_frame_queue) : p_5s_frame_queue[i].frame \in Nat
         /\ rec.frame \in Nat
<1>1. \A f \in Frames : f \in Nat
  BY BoundAssumption DEF Frames
<1>2. rec.frame \in Nat
  BY Parts
<1>3. \A i \in 1..Len(p_f_e_queue) : p_f_e_queue[i].frame \in Frames
  BY Parts
<1>4. \A i \in 1..Len(p_5s_frame_queue) : p_5s_frame_queue[i].frame \in Frames
  BY Parts
<1> QED
  BY <1>1, <1>2, <1>3, <1>4, Zenon

\* The frames in the two queues and in hand are all different.
LEMMA Disjoint ==
  ASSUME Types, QueuesOK
  PROVE  /\ \A x \in FramesOf(p_5s_frame_queue) : x \notin FramesOf(p_f_e_queue)
         /\ rec.pc = "keep" => /\ rec.frame \notin FramesOf(p_f_e_queue)
                               /\ rec.frame \notin FramesOf(p_5s_frame_queue)
<1>1. /\ \A i \in 1..Len(p_f_e_queue) : p_f_e_queue[i].frame \in Nat
      /\ \A i \in 1..Len(p_5s_frame_queue) : p_5s_frame_queue[i].frame \in Nat
      /\ rec.frame \in Nat
  BY FrameNumbers
<1>2. \A x \in FramesOf(p_5s_frame_queue) : x \notin FramesOf(p_f_e_queue)
  <2> SUFFICES ASSUME NEW i \in 1..Len(p_5s_frame_queue), NEW j \in 1..Len(p_f_e_queue)
               PROVE  p_5s_frame_queue[i].frame # p_f_e_queue[j].frame
    BY DEF FramesOf
  <2>1. p_5s_frame_queue[i].frame < p_f_e_queue[j].frame
    BY DEF QueuesOK
  <2> QED
    BY <1>1, <2>1
<1>3. ASSUME rec.pc = "keep"
      PROVE  /\ rec.frame \notin FramesOf(p_f_e_queue)
             /\ rec.frame \notin FramesOf(p_5s_frame_queue)
  <2>1. /\ \A i \in 1..Len(p_5s_frame_queue) : p_5s_frame_queue[i].frame < rec.frame
        /\ \A j \in 1..Len(p_f_e_queue) : rec.frame < p_f_e_queue[j].frame
    BY <1>3 DEF QueuesOK
  <2> QED
    BY <1>1, <2>1 DEF FramesOf
<1> QED
  BY <1>2, <1>3

\* There are no more videos, those to come included, than MaxVideos.
LEMMA VideosBound ==
  ASSUME Types, EventsOK
  PROVE  Len(videos) + rec.events <= events /\ Len(videos) + rec.events \in 0..MaxVideos
<1>1. /\ Len(videos) \in Nat /\ rec.events \in Nat /\ Len(p_f_e_queue) \in Nat
  BY Parts
<1>2. 0 \in 0..Len(p_f_e_queue)
  BY <1>1
<1> QED
  BY <1>1, <1>2 DEF EventsOK

\* Initially.
LEMMA InitBase == Init => Base
<1> SUFFICES ASSUME Init PROVE Base
  OBVIOUS
<1>1. /\ clock = 1 /\ close = "on"
      /\ p_f_e_queue = <<>> /\ p_5s_frame_queue = <<>> /\ p_file_queue = <<>>
      /\ rec = Idle /\ frames = {} /\ nodes = {} /\ writers = {} /\ videos = <<>>
      /\ made = 0 /\ events = 0 /\ taken = [f \in Frames |-> 0] /\ start = 1 /\ cut = {}
  BY DEF Init
<1>2. /\ Len(p_f_e_queue) = 0 /\ Len(p_5s_frame_queue) = 0 /\ Len(p_file_queue) = 0
      /\ Len(videos) = 0
  BY <1>1
<1>3. Types
  <2>1. \A S : <<>> \in Seq(S)
    OBVIOUS
  <2>2. rec \in [pc : RecSteps, frame : Frames \cup {0}, events : 0..MaxVideos,
                 ts : Times \cup {0}, cur : Videos \cup {0}]
    BY <1>1, BoundAssumption DEF Idle, RecSteps
  <2>3. clock \in Times /\ backs \in 0..MaxBack /\ exist \in BOOLEAN /\ close \in CloseSteps
    BY BoundAssumption DEF Init, Times, CloseSteps
  <2>4. /\ made \in 0..MaxFrames /\ events \in 0..MaxVideos /\ start \in 1..(MaxFrames + 1)
        /\ QueueMax >= 0
    BY <1>1, BoundAssumption, SizeAssumption
  <2> QED
    BY <1>1, <1>2, <2>1, <2>2, <2>3, <2>4 DEF Types
<1>4. QueuesOK
  BY <1>1, <1>2 DEF QueuesOK, Working, Idle
<1>5. HeapOK
  BY <1>1, <1>2 DEF HeapOK, FramesOf, Idle
<1>6. ListOK
  BY <1>1, <1>2 DEF ListOK, Elems
<1>7. EventsOK
  <2> DEFINE S == [i \in 0..Len(p_f_e_queue) |-> 0]
  <2>1. S \in [0..Len(p_f_e_queue) -> 0..MaxVideos]
    BY BoundAssumption
  <2>2. /\ S[0] = Len(videos) + rec.events
        /\ \A i \in 1..Len(p_f_e_queue) : S[i] = S[i - 1] + p_f_e_queue[i].events
        /\ \A i \in 0..Len(p_f_e_queue) : S[i] <= events
    BY <1>1, <1>2 DEF Idle
  <2> QED
    BY <2>1, <2>2 DEF EventsOK
<1> QED
  BY <1>3, <1>4, <1>5, <1>6, <1>7 DEF Base

\* The queues, the recorder and the heap stay, and what was written; the clock does not
\* go back, and camera_close is as far as before with the queues.
Calm == /\ UNCHANGED <<queues, rec, heap, history>>
        /\ clock' \in Times /\ clock' >= clock
        /\ (Live' <=> Live)
        /\ close' = "clear_file" => close = "clear_file"
        /\ backs' \in 0..MaxBack /\ exist' \in BOOLEAN /\ close' \in CloseSteps

LEMMA CalmSteps ==
  ASSUME Base, Tick \/ Look \/ Miss \/ Delete \/ CloseBegin \/ CloseJoin \/ CloseFlag
               \/ Open \/ UNCHANGED vars
  PROVE  Calm
<1>1. /\ Types /\ clock \in Times /\ backs \in 0..MaxBack /\ exist \in BOOLEAN
      /\ close \in CloseSteps /\ clock \in Nat /\ MaxTime \in Nat
  BY BoundAssumption DEF Base, Types, Times
<1>2. UNCHANGED <<queues, rec, heap, history>> /\ clock' \in Times /\ clock' >= clock
      /\ backs' \in 0..MaxBack
  BY <1>1 DEF Tick, Look, Miss, Delete, CloseBegin, CloseJoin, CloseFlag, Open, vars, Times
<1>3. exist' = exist \/ exist' = FALSE \/ exist' = TRUE
  BY Zenon DEF Tick, Look, Miss, Delete, CloseBegin, CloseJoin, CloseFlag, Open, vars, camera
<1>4. exist' \in BOOLEAN
  BY <1>1, <1>3, Zenon
<1>5. \/ close' = close
      \/ close \in {"on", "closing", "joined", "off"}
         /\ close' \in {"on", "closing", "joined", "clear_fe"}
  BY DEF Tick, Look, Miss, Delete, CloseBegin, CloseJoin, CloseFlag, Open, vars, camera
<1>6. /\ (Live' <=> Live) /\ close' \in CloseSteps
      /\ close' = "clear_file" => close = "clear_file"
  BY <1>1, <1>5 DEF Live, CloseSteps
<1> QED
  BY <1>2, <1>4, <1>6 DEF Calm

LEMMA CalmBase ==
  ASSUME Base, Calm
  PROVE  Base'
<1>1. /\ p_f_e_queue' = p_f_e_queue /\ p_5s_frame_queue' = p_5s_frame_queue
      /\ p_file_queue' = p_file_queue /\ rec' = rec
      /\ frames' = frames /\ nodes' = nodes /\ writers' = writers
      /\ videos' = videos /\ made' = made /\ events' = events /\ taken' = taken
      /\ start' = start /\ cut' = cut
  BY DEF Calm, queues, heap, history
<1>2. Types'
  BY <1>1 DEF Base, Types, Calm
<1>3. QueuesOK' /\ HeapOK'
  BY <1>1 DEF Base, QueuesOK, Working, HeapOK, FramesOf
<1>4. EventsOK'
  BY <1>1 DEF Base, EventsOK
<1>5. ListOK'
  BY <1>1 DEF Base, ListOK, Elems
<1> QED
  BY <1>2, <1>3, <1>4, <1>5 DEF Base

\* The clock is set back.
LEMMA SetDateBase ==
  ASSUME Base, SetDate
  PROVE  Base'
<1>1. /\ p_f_e_queue' = p_f_e_queue /\ p_5s_frame_queue' = p_5s_frame_queue
      /\ p_file_queue' = p_file_queue /\ rec' = rec
      /\ frames' = frames /\ nodes' = nodes /\ writers' = writers
      /\ videos' = videos /\ made' = made /\ events' = events /\ taken' = taken
      /\ close' = close /\ exist' = exist
      /\ start' = made + 1 /\ cut' = 1..Len(videos)
      /\ clock > 1 /\ clock' = clock - 1 /\ backs < MaxBack /\ backs' = backs + 1
  BY DEF SetDate, queues, heap, camera
<1>2. Types'
  <2>1. clock' \in Times /\ backs' \in 0..MaxBack /\ start' \in 1..(MaxFrames + 1)
    BY <1>1, BoundAssumption DEF Base, Types, Times
  <2>2. cut' \subseteq Videos
    <3>1. Len(videos) \in Nat /\ rec.events \in Nat /\ Len(videos) + rec.events \in 0..MaxVideos
      BY Parts, VideosBound DEF Base
    <3> QED
      BY <1>1, <3>1, BoundAssumption DEF Videos
  <2> QED
    BY <1>1, <2>1, <2>2 DEF Base, Types
<1>3. QueuesOK' /\ HeapOK'
  BY <1>1 DEF Base, QueuesOK, Working, HeapOK, FramesOf
<1>4. EventsOK'
  BY <1>1 DEF Base, EventsOK
<1>5. ListOK'
  BY <1>1 DEF Base, ListOK, Elems
<1> QED
  BY <1>2, <1>3, <1>4, <1>5 DEF Base

\* A frame is put at the end of the queue: it comes after all the others, and its events
\* are still to come.
LEMMA AddFrameBase ==
  ASSUME Base, NEW n \in 0..MaxVideos, AddFrame(n)
  PROVE  Base'
<1> DEFINE f == made + 1
           e == [frame |-> f, events |-> n]
           L == Len(p_f_e_queue)
<1>1. /\ p_5s_frame_queue' = p_5s_frame_queue /\ p_file_queue' = p_file_queue /\ rec' = rec
      /\ nodes' = nodes /\ writers' = writers /\ clock' = clock /\ backs' = backs
      /\ videos' = videos /\ taken' = taken /\ start' = start /\ cut' = cut
      /\ close' = close /\ exist' = exist
      /\ p_f_e_queue' = Append(p_f_e_queue, e) /\ frames' = frames \cup {f}
      /\ made' = f /\ events' = events + n
      /\ close \in {"on", "closing"} /\ f \in Frames /\ events + n <= MaxVideos
      /\ Len(p_f_e_queue) < QueueMax
  BY DEF AddFrame, camera, Room
<1>2. Types /\ QueuesOK /\ HeapOK /\ EventsOK /\ ListOK
  BY DEF Base
<1>3. /\ made \in Nat /\ events \in Nat /\ Len(p_f_e_queue) \in Nat /\ MaxVideos \in Nat
      /\ MaxFrames \in Nat /\ QueueMax \in Nat
      /\ \A i \in 1..L : p_f_e_queue[i].frame \in Nat
      /\ \A i \in 1..Len(p_5s_frame_queue) : p_5s_frame_queue[i].frame \in Nat
      /\ rec.frame \in Nat
  BY <1>2, Parts, FrameNumbers, SizeAssumption
<1>4. /\ e \in [frame : Frames, events : 0..MaxVideos]
      /\ p_f_e_queue \in Seq([frame : Frames, events : 0..MaxVideos])
      /\ e.frame = f /\ e.events = n
  BY <1>1, <1>2 DEF Types
<1> HIDE DEF e
<1>5. /\ p_f_e_queue' \in Seq([frame : Frames, events : 0..MaxVideos])
      /\ Len(p_f_e_queue') = Len(p_f_e_queue) + 1
      /\ \A i \in 1..Len(p_f_e_queue) : p_f_e_queue'[i] = p_f_e_queue[i]
      /\ p_f_e_queue'[Len(p_f_e_queue) + 1] = e
  BY <1>1, <1>4, AppendFacts
<1>7. Types'
  <2>1. /\ made' \in 0..MaxFrames /\ events' \in 0..MaxVideos /\ frames' \subseteq Frames
        /\ Len(p_f_e_queue') <= QueueMax
    <3>1. made' \in 0..MaxFrames
      BY <1>1, <1>3 DEF Frames
    <3>2. events' \in 0..MaxVideos
      BY <1>1, <1>3
    <3>3. frames' \subseteq Frames
      BY <1>1, <1>2 DEF Types
    <3>4. Len(p_f_e_queue') <= QueueMax
      BY <1>1, <1>3, <1>5
    <3> QED
      BY <3>1, <3>2, <3>3, <3>4
  <2> QED
    BY <1>1, <1>2, <1>5, <2>1 DEF Types
<1>8. \A i \in 1..Len(p_f_e_queue') :
         \/ i \in 1..L /\ p_f_e_queue'[i].frame = p_f_e_queue[i].frame
                       /\ p_f_e_queue'[i].frame <= made
         \/ i = L + 1 /\ p_f_e_queue'[i].frame = f
  <2> TAKE i \in 1..Len(p_f_e_queue')
  <2>1. i \in 1..L \/ i = L + 1
    BY <1>3, <1>5
  <2> QED
    BY <1>2, <1>4, <1>5, <2>1 DEF QueuesOK
<1>9. QueuesOK'
  <2>1. /\ \A i \in 1..Len(p_f_e_queue') : p_f_e_queue'[i].frame <= f
        /\ \A i \in 1..Len(p_5s_frame_queue) : p_5s_frame_queue[i].frame <= f
    <3>1. made <= f /\ \A i \in 1..Len(p_5s_frame_queue) : p_5s_frame_queue[i].frame <= made
      BY <1>2, <1>3 DEF QueuesOK
    <3>2. \A i \in 1..Len(p_f_e_queue') : p_f_e_queue'[i].frame <= f
      BY <1>3, <1>8
    <3> QED
      BY <1>3, <3>1, <3>2
  <2>2. \A i, j \in 1..Len(p_f_e_queue') :
           i < j => p_f_e_queue'[i].frame < p_f_e_queue'[j].frame
    <3> SUFFICES ASSUME NEW i \in 1..Len(p_f_e_queue'), NEW j \in 1..Len(p_f_e_queue'), i < j
                 PROVE  p_f_e_queue'[i].frame < p_f_e_queue'[j].frame
      OBVIOUS
    <3>1. i \in 1..L
      BY <1>3, <1>5
    <3>2. CASE j \in 1..L
      <4>1. p_f_e_queue[i].frame < p_f_e_queue[j].frame
        BY <1>2, <3>1, <3>2 DEF QueuesOK
      <4> QED
        BY <1>5, <3>1, <3>2, <4>1
    <3>3. CASE j = L + 1
      BY <1>2, <1>3, <1>4, <1>5, <3>1, <3>3, SMTT(30) DEF QueuesOK
    <3> QED
      BY <1>8, <3>2, <3>3
  <2>3. \A i \in 1..Len(p_5s_frame_queue), j \in 1..Len(p_f_e_queue') :
           p_5s_frame_queue[i].frame < p_f_e_queue'[j].frame
    <3> TAKE i \in 1..Len(p_5s_frame_queue), j \in 1..Len(p_f_e_queue')
    <3>1. p_5s_frame_queue[i].frame <= made
      BY <1>2 DEF QueuesOK
    <3>2. j \in 1..L => p_5s_frame_queue[i].frame < p_f_e_queue[j].frame
      BY <1>2 DEF QueuesOK
    <3> QED
      BY <1>3, <1>8, <3>1, <3>2
  <2>4. rec.pc = "keep" => \A j \in 1..Len(p_f_e_queue') : rec.frame < p_f_e_queue'[j].frame
    <3> SUFFICES ASSUME rec.pc = "keep", NEW j \in 1..Len(p_f_e_queue')
                 PROVE  rec.frame < p_f_e_queue'[j].frame
      OBVIOUS
    <3>1. rec.frame <= made
      BY <1>2 DEF QueuesOK, Working
    <3>2. j \in 1..L => rec.frame < p_f_e_queue[j].frame
      BY <1>2 DEF QueuesOK
    <3> QED
      BY <1>3, <1>8, <3>1, <3>2
  <2> QED
    BY <1>1, <1>2, <1>3, <2>1, <2>2, <2>3, <2>4, SMTT(30) DEF QueuesOK, Working
<1>10. HeapOK'
  <2>1. FramesOf(p_f_e_queue)' = FramesOf(p_f_e_queue) \cup {f}
    BY <1>1, <1>4, FramesAppend, SMTT(30) DEF FramesOf
  <2>2. FramesOf(p_5s_frame_queue)' = FramesOf(p_5s_frame_queue)
    BY <1>1
  <2> QED
    BY <1>1, <1>2, <2>1, <2>2 DEF HeapOK
<1>14. EventsOK'
  <2>1. PICK S \in [0..L -> 0..MaxVideos] :
          /\ S[0] = Len(videos) + rec.events
          /\ \A i \in 1..L : S[i] = S[i - 1] + p_f_e_queue[i].events
          /\ \A i \in 0..L : S[i] <= events
    BY <1>2 DEF EventsOK
  <2> DEFINE R == [i \in 0..(L + 1) |-> IF i = L + 1 THEN S[L] + n ELSE S[i]]
  <2>2. \A i \in 0..L : S[i] \in Nat /\ S[i] <= events /\ S[i] <= MaxVideos
    BY <1>3, <2>1
  <2>3. /\ R[L + 1] = S[L] + n /\ \A i \in 0..L : R[i] = S[i]
    BY <1>3
  <2>4. R \in [0..(L + 1) -> 0..MaxVideos]
    <3>1. S[L] + n \in 0..MaxVideos
      BY <1>1, <1>3, <2>2, SMTT(30)
    <3> QED
      BY <1>3, <2>2, <3>1
  <2> HIDE DEF R
  <2>5. \A i \in 1..(L + 1) : R[i] = R[i - 1] + p_f_e_queue'[i].events
    <3> TAKE i \in 1..(L + 1)
    <3>1. CASE i = L + 1
      <4>1. i - 1 = L /\ L \in 0..L
        BY <1>3, <3>1
      <4>2. R[i - 1] = S[L] /\ R[i] = S[L] + n
        BY <4>1, <2>3, <3>1
      <4>3. p_f_e_queue'[i].events = n
        BY <1>4, <1>5, <3>1
      <4> QED
        BY <4>2, <4>3
    <3>2. CASE i # L + 1
      <4>1. i \in 1..L /\ i - 1 \in 0..L
        BY <1>3, <3>2
      <4> QED
        BY <4>1, <1>5, <2>1, <2>3, SMTT(60)
    <3> QED
      BY <3>1, <3>2
  <2>6. \A i \in 0..(L + 1) : R[i] <= events + n
    BY <1>3, <2>2, <2>3, SMTT(30)
  <2>7. R[0] = Len(videos) + rec.events
    BY <1>3, <2>1, <2>3
  <2> QED
    BY <1>1, <1>5, <2>4, <2>5, <2>6, <2>7 DEF EventsOK
<1>15. ListOK'
  BY <1>1, <1>2 DEF ListOK, Elems
<1> QED
  BY <1>7, <1>9, <1>10, <1>14, <1>15 DEF Base


\* The recorder takes the first frame that waits.
LEMMA TakeBase ==
  ASSUME Base, Take
  PROVE  Base'
<1> DEFINE h == Head(p_f_e_queue)
           L == Len(p_f_e_queue)
<1>1. /\ p_5s_frame_queue' = p_5s_frame_queue /\ p_file_queue' = p_file_queue
      /\ frames' = frames /\ nodes' = nodes /\ writers' = writers
      /\ clock' = clock /\ backs' = backs /\ videos' = videos /\ made' = made
      /\ events' = events /\ start' = start /\ cut' = cut
      /\ close' = close /\ exist' = exist
      /\ rec.pc = "idle" /\ p_f_e_queue # <<>>
      /\ rec' = [pc |-> "keep", frame |-> h.frame, events |-> h.events, ts |-> clock,
                 cur |-> 0]
      /\ p_f_e_queue' = Tail(p_f_e_queue)
      /\ taken' = [taken EXCEPT ![h.frame] = clock]
  BY DEF Take, camera, heap
<1>2. Types /\ QueuesOK /\ HeapOK /\ EventsOK /\ ListOK
  BY DEF Base
<1>3. /\ made \in Nat /\ events \in Nat /\ L \in Nat /\ MaxVideos \in Nat
      /\ MaxFrames \in Nat /\ clock \in Nat /\ clock \in Times /\ clock > 0
      /\ Len(p_5s_frame_queue) \in Nat
      /\ rec.events \in Nat /\ Len(videos) \in Nat
      /\ taken \in [Frames -> Times \cup {0}]
      /\ \A f \in Frames : f \in Nat /\ f > 0
      /\ \A i \in 1..Len(p_5s_frame_queue) : p_5s_frame_queue[i].frame \in Nat
      /\ \A i \in 1..L : p_f_e_queue[i].frame \in Nat
  <2>1. clock \in Times /\ taken \in [Frames -> Times \cup {0}]
    BY <1>2 DEF Types
  <2>2. clock > 0 /\ \A f \in Frames : f \in Nat /\ f > 0
    BY <2>1, BoundAssumption DEF Times, Frames
  <2> QED
    BY <1>2, <2>1, <2>2, Parts
<1>4. /\ p_f_e_queue \in Seq([frame : Frames, events : 0..MaxVideos])
      /\ h \in [frame : Frames, events : 0..MaxVideos]
      /\ p_f_e_queue' \in Seq([frame : Frames, events : 0..MaxVideos])
      /\ L > 0 /\ Len(p_f_e_queue') = L - 1
      /\ \A i \in 1..(L - 1) : p_f_e_queue'[i] = p_f_e_queue[i + 1]
      /\ h = p_f_e_queue[1]
  <2>1. p_f_e_queue \in Seq([frame : Frames, events : 0..MaxVideos]) /\ p_f_e_queue # <<>>
    BY <1>1, <1>2 DEF Types
  <2>2. /\ L \in Nat \ {0}
        /\ h = p_f_e_queue[1] /\ h \in [frame : Frames, events : 0..MaxVideos]
        /\ Tail(p_f_e_queue) \in Seq([frame : Frames, events : 0..MaxVideos])
        /\ Len(Tail(p_f_e_queue)) = L - 1
        /\ \A i \in 1..(L - 1) : Tail(p_f_e_queue)[i] = p_f_e_queue[i + 1]
    BY <2>1, TailFacts
  <2> QED
    BY <1>1, <2>1, <2>2
<1>5. /\ h.frame \in Frames /\ h.events \in 0..MaxVideos /\ h.frame \in Nat
      /\ h.frame > 0 /\ h.frame <= made /\ 1 \in 1..L
  <2>1. h.frame \in Frames /\ h.events \in 0..MaxVideos /\ 1 \in 1..L
    BY <1>3, <1>4
  <2> QED
    BY <1>2, <1>3, <1>4, <2>1 DEF QueuesOK
<1> HIDE DEF h
<1>6. /\ rec'.pc = "keep" /\ rec'.frame = h.frame /\ rec'.events = h.events
      /\ rec'.ts = clock /\ rec'.cur = 0
  BY <1>1
<1>7. /\ \A i \in 1..Len(p_f_e_queue') : i \in 1..(L - 1) /\ i + 1 \in 1..L
      /\ \A i \in 1..Len(p_f_e_queue') : p_f_e_queue'[i] = p_f_e_queue[i + 1]
  <2> SUFFICES ASSUME NEW i \in 1..(L - 1) PROVE i + 1 \in 1..L
    BY <1>4
  <2> QED
    BY <1>3
<1>8. taken' \in [Frames -> Times \cup {0}]
  BY <1>1, <1>3, <1>5
<1>9. Types'
  <2>1. rec' \in [pc : RecSteps, frame : Frames \cup {0}, events : 0..MaxVideos,
                  ts : Times \cup {0}, cur : Videos \cup {0}]
    BY <1>1, <1>3, <1>5 DEF RecSteps
  <2>2. Len(p_f_e_queue') <= QueueMax
    BY <1>2, <1>3, <1>4, SizeAssumption DEF Types
  <2> QED
    BY <1>1, <1>2, <1>4, <1>8, <2>1, <2>2 DEF Types
<1>10. QueuesOK'
  <2>1. \A i \in 1..Len(p_f_e_queue') : p_f_e_queue'[i].frame <= made
    BY <1>2, <1>7 DEF QueuesOK
  <2>2. \A i, j \in 1..Len(p_f_e_queue') :
           i < j => p_f_e_queue'[i].frame < p_f_e_queue'[j].frame
    <3> SUFFICES ASSUME NEW i \in 1..Len(p_f_e_queue'), NEW j \in 1..Len(p_f_e_queue'), i < j
                 PROVE  p_f_e_queue'[i].frame < p_f_e_queue'[j].frame
      OBVIOUS
    <3>1. i + 1 \in 1..L /\ j + 1 \in 1..L /\ i + 1 < j + 1
      BY <1>3, <1>4, <1>7
    <3>2. p_f_e_queue[i + 1].frame < p_f_e_queue[j + 1].frame
      BY <1>2, <3>1 DEF QueuesOK
    <3> QED
      BY <1>7, <3>2
  <2>3. \A i \in 1..Len(p_5s_frame_queue), j \in 1..Len(p_f_e_queue') :
           p_5s_frame_queue[i].frame < p_f_e_queue'[j].frame
    BY <1>2, <1>7 DEF QueuesOK
  <2>4. \A i \in 1..Len(p_5s_frame_queue) : p_5s_frame_queue[i].frame < h.frame
    BY <1>2, <1>4, <1>5 DEF QueuesOK
  <2>5. \A j \in 1..Len(p_f_e_queue') : h.frame < p_f_e_queue'[j].frame
    <3> TAKE j \in 1..Len(p_f_e_queue')
    <3>1. 1 \in 1..L /\ j + 1 \in 1..L /\ 1 < j + 1
      BY <1>5, <1>7
    <3>2. p_f_e_queue[1].frame < p_f_e_queue[j + 1].frame
      BY <1>2, <3>1 DEF QueuesOK
    <3> QED
      BY <1>4, <1>7, <3>2
  <2> QED
    BY <1>1, <1>2, <1>3, <1>5, <1>6, <2>1, <2>2, <2>3, <2>4, <2>5 DEF QueuesOK, Working
<1>13. HeapOK'
  <2>1. FramesOf(p_f_e_queue) = FramesOf(p_f_e_queue') \cup {h.frame}
    BY <1>1, <1>4, FramesTail DEF h
  <2>2. FramesOf(p_5s_frame_queue)' = FramesOf(p_5s_frame_queue)
        /\ FramesOf(p_f_e_queue)' = FramesOf(p_f_e_queue')
    BY <1>1 DEF FramesOf
  <2> QED
    BY <1>1, <1>2, <1>6, <2>1, <2>2 DEF HeapOK
<1>17. EventsOK'
  <2>1. PICK S \in [0..L -> 0..MaxVideos] :
          /\ S[0] = Len(videos) + rec.events
          /\ \A i \in 1..L : S[i] = S[i - 1] + p_f_e_queue[i].events
          /\ \A i \in 0..L : S[i] <= events
    BY <1>2 DEF EventsOK
  <2> DEFINE R == [i \in 0..(L - 1) |-> S[i + 1]]
  <2>2. R \in [0..(L - 1) -> 0..MaxVideos] /\ \A i \in 0..(L - 1) : R[i] = S[i + 1]
    <3>1. \A i \in 0..(L - 1) : i + 1 \in 0..L
      BY <1>3
    <3>2. \A i \in 0..(L - 1) : S[i + 1] \in 0..MaxVideos
      BY <2>1, <3>1
    <3> QED
      BY <3>2
  <2> HIDE DEF R
  <2>3. R[0] = Len(videos) + rec'.events
    <3>1. rec.events = 0
      BY <1>1, <1>2 DEF QueuesOK
    <3>2. S[1] = S[0] + h.events /\ R[0] = S[1]
      <4>1. 1 \in 1..L /\ 1 - 1 = 0 /\ 0 \in 0..(L - 1) /\ 0 + 1 = 1
        BY <1>3, <1>4
      <4>2. S[1] = S[1 - 1] + p_f_e_queue[1].events /\ R[0] = S[0 + 1]
        BY <2>1, <2>2, <4>1
      <4> QED
        BY <4>1, <4>2, <1>4
    <3> QED
      BY <1>3, <1>6, <2>1, <3>1, <3>2
  <2>4. \A i \in 1..(L - 1) : R[i] = R[i - 1] + p_f_e_queue'[i].events
    <3> TAKE i \in 1..(L - 1)
    <3>1. i + 1 \in 1..L /\ i - 1 \in 0..(L - 1) /\ i \in 0..(L - 1) /\ (i + 1) - 1 = i
          /\ (i - 1) + 1 = i
      BY <1>3
    <3>2. S[i + 1] = S[i] + p_f_e_queue[i + 1].events
      BY <2>1, <3>1
    <3> QED
      BY <3>1, <3>2, <1>4, <2>2
  <2>5. \A i \in 0..(L - 1) : R[i] <= events
    BY <1>3, <2>1, <2>2
  <2> QED
    BY <1>1, <1>4, <2>2, <2>3, <2>4, <2>5 DEF EventsOK
<1>18. ListOK'
  BY <1>1, <1>2 DEF ListOK, Elems
<1> QED
  BY <1>9, <1>10, <1>13, <1>17, <1>18 DEF Base

\* The recorder keeps the frame in hand, and drops those of the last seconds that are
\* expired.
LEMMA KeepBase ==
  ASSUME Base, Keep
  PROVE  Base'
<1> DEFINE L == Len(p_5s_frame_queue)
           e == [frame |-> rec.frame, ts |-> rec.ts]
           E == [frame : Frames, ts : Times]
<1>1. /\ p_f_e_queue' = p_f_e_queue /\ p_file_queue' = p_file_queue
      /\ nodes' = nodes /\ writers' = writers
      /\ clock' = clock /\ backs' = backs /\ videos' = videos /\ made' = made
      /\ events' = events /\ start' = start /\ cut' = cut /\ taken' = taken
      /\ close' = close /\ exist' = exist
      /\ rec.pc = "keep"
      /\ p_5s_frame_queue' = Append(SubSeq(p_5s_frame_queue, Len(Stale) + 1, L), e)
      /\ frames' = frames \ FramesOf(Stale)
      /\ rec' = [rec EXCEPT !.pc = IF p_file_queue = <<>> THEN "event" ELSE "file",
                            !.cur = IF p_file_queue = <<>> THEN 0 ELSE Head(p_file_queue)]
  BY DEF Keep, camera, history
<1>2. Types /\ QueuesOK /\ HeapOK /\ EventsOK /\ ListOK
  BY DEF Base
<1>3. /\ made \in Nat /\ L \in Nat /\ p_file_queue \in Seq(Videos)
      /\ \A i \in 1..L : p_5s_frame_queue[i].frame \in Nat
      /\ \A i \in 1..Len(p_f_e_queue) : p_f_e_queue[i].frame \in Nat
      /\ rec.frame \in Nat
  BY <1>2, Parts, FrameNumbers DEF Types
<1>4. /\ rec.frame > 0 /\ rec.frame <= made /\ rec.ts > 0
      /\ rec.frame \in Frames /\ rec.ts \in Times /\ rec.events \in 0..MaxVideos
  <2>1. rec.frame > 0 /\ rec.frame <= made /\ rec.ts > 0
    BY <1>1, <1>2 DEF QueuesOK, Working
  <2>2. /\ rec.frame \in Frames \cup {0} /\ rec.ts \in Times \cup {0}
        /\ rec.events \in 0..MaxVideos
    BY <1>2 DEF Types
  <2> QED
    BY <2>1, <2>2
<1>5. PICK n \in 0..L : /\ Len(Stale) = n
                        /\ \A i \in 1..n : /\ Stale[i] = p_5s_frame_queue[i]
                                           /\ Expired(p_5s_frame_queue[i].ts)
  BY <1>2, StaleFacts
<1> DEFINE K == SubSeq(p_5s_frame_queue, n + 1, L)
<1>6. /\ K \in Seq(E) /\ Len(K) = L - n
      /\ \A i \in 1..(L - n) : K[i] = p_5s_frame_queue[n + i]
  <2>1. \A i \in (n + 1)..L : p_5s_frame_queue[i] \in E
    <3>1. \A i \in 1..L : p_5s_frame_queue[i] \in E
      BY <1>2, ElementOfSeq DEF Types
    <3>2. \A i \in (n + 1)..L : i \in 1..L
      BY <1>3
    <3> QED
      BY <3>1, <3>2
  <2>2. n + 1 \in Int /\ L \in Int
    BY <1>3
  <2>3. /\ K \in Seq(E) /\ Len(K) = IF n + 1 <= L THEN L - (n + 1) + 1 ELSE 0
        /\ \A i \in 1..(L - (n + 1) + 1) : K[i] = p_5s_frame_queue[n + 1 + i - 1]
    BY <2>1, <2>2, SubSeqProperties
  <2>4. Len(K) = L - n /\ L - (n + 1) + 1 = L - n
    BY <1>3, <2>3
  <2>5. \A i \in 1..(L - n) : n + 1 + i - 1 = n + i
    BY <1>3
  <2> QED
    BY <2>3, <2>4, <2>5
<1>7. e \in E /\ e.frame = rec.frame /\ e.ts = rec.ts
  BY <1>4
<1>8. p_5s_frame_queue' = Append(K, e)
  BY <1>1, <1>5
<1> HIDE DEF K, e, E
<1>9. /\ p_5s_frame_queue' \in Seq(E) /\ p_5s_frame_queue' # <<>>
      /\ Len(p_5s_frame_queue') = L - n + 1
      /\ \A i \in 1..(L - n) : p_5s_frame_queue'[i] = K[i]
      /\ p_5s_frame_queue'[L - n + 1] = e
      /\ FramesOf(p_5s_frame_queue)' = FramesOf(K) \cup {rec.frame}
  <2>1. FramesOf(Append(K, e)) = FramesOf(K) \cup {e.frame}
    BY <1>6, <1>7, FramesAppend
  <2>2. FramesOf(p_5s_frame_queue)' = FramesOf(Append(K, e))
    BY <1>8 DEF FramesOf
  <2>3. /\ Append(K, e) \in Seq(E) /\ Append(K, e) # <<>>
        /\ Len(Append(K, e)) = Len(K) + 1
        /\ \A i \in 1..Len(K) : Append(K, e)[i] = K[i]
        /\ Append(K, e)[Len(K) + 1] = e
    <3>1. K \in Seq(E) /\ e \in E
      BY <1>6, <1>7
    <3> QED
      BY <3>1, AppendFacts
  <2> QED
    BY <1>6, <1>7, <1>8, <2>1, <2>2, <2>3
<1>10. /\ rec'.pc = (IF p_file_queue = <<>> THEN "event" ELSE "file")
       /\ rec'.frame = rec.frame /\ rec'.ts = rec.ts /\ rec'.events = rec.events
       /\ rec'.cur = (IF p_file_queue = <<>> THEN 0 ELSE Head(p_file_queue))
  BY <1>1, <1>2 DEF Types
<1>11. p_file_queue # <<>> => Head(p_file_queue) \in Videos
  BY <1>3, TailFacts
<1>14. /\ \A i \in 1..n : i \in 1..L
       /\ \A i \in 1..(L - n) : n + i \in 1..L
       /\ \A i \in 1..L : i \notin 1..n => i - n \in 1..(L - n) /\ n + (i - n) = i
  BY <1>3
<1>15. Types'
  <2>1. rec' \in [pc : RecSteps, frame : Frames \cup {0}, events : 0..MaxVideos,
                  ts : Times \cup {0}, cur : Videos \cup {0}]
    <3>1. /\ rec'.pc \in RecSteps /\ rec'.cur \in Videos \cup {0}
      BY <1>10, <1>11 DEF RecSteps
    <3> QED
      BY <1>1, <1>2, <3>1, <1>10 DEF Types
  <2>2. frames' \subseteq Frames
    BY <1>1, <1>2 DEF Types
  <2> QED
    BY <1>1, <1>2, <1>9, <2>1, <2>2 DEF Types, E
<1>16. QueuesOK'
  \* an entry of the new list is one of the old, further on, or the frame in hand
  <2>1. \A i \in 1..Len(p_5s_frame_queue') :
           \/ /\ i \in 1..(L - n) /\ n + i \in 1..L
              /\ p_5s_frame_queue'[i].frame = p_5s_frame_queue[n + i].frame
           \/ i = L - n + 1 /\ p_5s_frame_queue'[i].frame = rec.frame
    <3> TAKE i \in 1..Len(p_5s_frame_queue')
    <3>1. i \in 1..(L - n) \/ i = L - n + 1
      BY <1>3, <1>9
    <3> QED
      BY <1>6, <1>7, <1>9, <1>14, <3>1
  <2>2. /\ \A i \in 1..L : p_5s_frame_queue[i].frame < rec.frame
        /\ \A j \in 1..Len(p_f_e_queue) : rec.frame < p_f_e_queue[j].frame
        /\ \A i \in 1..L : p_5s_frame_queue[i].frame <= made
        /\ \A i \in 1..L, j \in 1..Len(p_f_e_queue) :
              p_5s_frame_queue[i].frame < p_f_e_queue[j].frame
    BY <1>1, <1>2 DEF QueuesOK
  <2>3. \A i \in 1..Len(p_5s_frame_queue') : p_5s_frame_queue'[i].frame <= made
    BY <1>4, <2>1, <2>2
  <2>4. \A i, j \in 1..Len(p_5s_frame_queue') :
           i < j => p_5s_frame_queue'[i].frame < p_5s_frame_queue'[j].frame
    <3> SUFFICES ASSUME NEW i \in 1..Len(p_5s_frame_queue'),
                        NEW j \in 1..Len(p_5s_frame_queue'), i < j
                 PROVE  p_5s_frame_queue'[i].frame < p_5s_frame_queue'[j].frame
      OBVIOUS
    <3>1. /\ i \in 1..(L - n) /\ n + i \in 1..L
          /\ p_5s_frame_queue'[i].frame = p_5s_frame_queue[n + i].frame
      BY <1>3, <1>9, <2>1
    <3>2. CASE j \in 1..(L - n)
      <4>1. n + j \in 1..L /\ n + i < n + j
        BY <1>3, <1>14, <3>2
      <4>2. p_5s_frame_queue[n + i].frame < p_5s_frame_queue[n + j].frame
        BY <1>2, <3>1, <4>1 DEF QueuesOK
      <4>3. p_5s_frame_queue'[j].frame = p_5s_frame_queue[n + j].frame
        BY <1>3, <2>1, <3>2
      <4> QED
        BY <3>1, <4>2, <4>3
    <3>3. CASE j = L - n + 1
      <4>1. p_5s_frame_queue'[j].frame = rec.frame
        BY <1>7, <1>9, <3>3
      <4> QED
        BY <2>2, <3>1, <4>1
    <3> QED
      BY <2>1, <3>2, <3>3
  <2>5. \A i \in 1..Len(p_5s_frame_queue'), j \in 1..Len(p_f_e_queue) :
           p_5s_frame_queue'[i].frame < p_f_e_queue[j].frame
    BY <2>1, <2>2
  <2>6. rec'.pc \in {"event", "file"}
    BY <1>10
  <2> QED
    BY <1>1, <1>2, <1>4, <1>10, <2>3, <2>4, <2>5, <2>6 DEF QueuesOK, Working
<1>18. /\ \A i \in 1..n : p_5s_frame_queue[i].frame \in FramesOf(Stale)
       /\ \A x \in FramesOf(Stale) : \E i \in 1..n : x = p_5s_frame_queue[i].frame
       /\ \A i \in 1..(L - n) : p_5s_frame_queue[n + i].frame \in FramesOf(K)
       /\ \A x \in FramesOf(K) : \E i \in 1..(L - n) : x = p_5s_frame_queue[n + i].frame
       /\ \A x \in FramesOf(p_5s_frame_queue) : \E i \in 1..L : x = p_5s_frame_queue[i].frame
       /\ \A i \in 1..L : p_5s_frame_queue[i].frame \in FramesOf(p_5s_frame_queue)
  <2>3. /\ \A i \in 1..n : p_5s_frame_queue[i].frame \in FramesOf(Stale)
        /\ \A x \in FramesOf(Stale) : \E i \in 1..n : x = p_5s_frame_queue[i].frame
    BY <1>5 DEF FramesOf
  <2>4. /\ \A i \in 1..(L - n) : p_5s_frame_queue[n + i].frame \in FramesOf(K)
        /\ \A x \in FramesOf(K) : \E i \in 1..(L - n) : x = p_5s_frame_queue[n + i].frame
    BY <1>6 DEF FramesOf
  <2> QED
    BY <2>3, <2>4 DEF FramesOf
<1>19. FramesOf(p_5s_frame_queue) = FramesOf(Stale) \cup FramesOf(K)
  <2>1. \A i \in 1..L : p_5s_frame_queue[i].frame \in FramesOf(Stale) \cup FramesOf(K)
    <3> TAKE i \in 1..L
    <3>1. CASE i \in 1..n
      BY <1>18, <3>1
    <3>2. CASE i \notin 1..n
      BY <1>14, <1>18, <3>2
    <3> QED
      BY <3>1, <3>2
  <2>2. \A x \in FramesOf(Stale) : x \in FramesOf(p_5s_frame_queue)
    BY <1>14, <1>18
  <2>3. \A x \in FramesOf(K) : x \in FramesOf(p_5s_frame_queue)
    BY <1>14, <1>18
  <2> QED
    BY <1>18, <2>1, <2>2, <2>3
<1>20. \A x \in FramesOf(Stale) : /\ x \notin FramesOf(K) /\ x # rec.frame
                                 /\ x \notin FramesOf(p_f_e_queue)
  <2> SUFFICES ASSUME NEW x \in FramesOf(Stale)
               PROVE  x \notin FramesOf(K) /\ x # rec.frame /\ x \notin FramesOf(p_f_e_queue)
    OBVIOUS
  <2>1. PICK i \in 1..n : x = p_5s_frame_queue[i].frame
    BY <1>18
  <2>2. i \in 1..L /\ x \in FramesOf(p_5s_frame_queue)
    BY <1>14, <1>18, <2>1
  <2>3. x \notin FramesOf(K)
    <3> SUFFICES ASSUME x \in FramesOf(K) PROVE FALSE
      OBVIOUS
    <3>1. PICK j \in 1..(L - n) : x = p_5s_frame_queue[n + j].frame
      BY <1>18
    <3>2. n + j \in 1..L /\ i < n + j
      BY <1>3, <1>14
    <3>3. p_5s_frame_queue[i].frame < p_5s_frame_queue[n + j].frame
      BY <1>2, <2>2, <3>2 DEF QueuesOK
    <3> QED
      BY <1>3, <2>1, <2>2, <3>1, <3>3
  <2> QED
    BY <1>1, <1>2, <2>2, <2>3, Disjoint
<1>21. HeapOK'
  <2>1. frames = FramesOf(p_f_e_queue) \cup FramesOf(p_5s_frame_queue) \cup {rec.frame}
    BY <1>1, <1>2 DEF HeapOK
  <2>2. frames' = FramesOf(p_f_e_queue) \cup (FramesOf(K) \cup {rec.frame})
    BY <1>1, <1>19, <1>20, <2>1
  <2>3. FramesOf(p_f_e_queue)' = FramesOf(p_f_e_queue) /\ rec'.pc # "keep"
    BY <1>1, <1>10 DEF FramesOf
  <2> QED
    BY <1>9, <2>2, <2>3 DEF HeapOK
<1>22. EventsOK'
  BY <1>1, <1>2, <1>10 DEF EventsOK
<1>23. ListOK'
  BY <1>1, <1>2 DEF ListOK, Elems
<1> QED
  BY <1>15, <1>16, <1>21, <1>22, <1>23 DEF Base

\* The recorder uses memory that is freed.
LEMMA BreakBase ==
  ASSUME Base, Break, rec.pc # "idle",
         UNCHANGED <<clock, backs, camera, made, events, taken, start, cut>>
  PROVE  Base'
<1>1. /\ p_f_e_queue' = p_f_e_queue /\ p_5s_frame_queue' = p_5s_frame_queue
      /\ p_file_queue' = p_file_queue
      /\ frames' = frames /\ nodes' = nodes /\ writers' = writers
      /\ clock' = clock /\ backs' = backs /\ videos' = videos /\ made' = made
      /\ events' = events /\ start' = start /\ cut' = cut /\ taken' = taken
      /\ close' = close /\ exist' = exist
      /\ rec' = [rec EXCEPT !.pc = "broken"]
  BY DEF Break, queues, heap, camera
<1>2. Types /\ QueuesOK /\ HeapOK /\ EventsOK /\ ListOK
  BY DEF Base
<1>3. /\ rec'.pc = "broken" /\ rec'.events = rec.events
      /\ rec' \in [pc : RecSteps, frame : Frames \cup {0}, events : 0..MaxVideos,
                   ts : Times \cup {0}, cur : Videos \cup {0}]
  BY <1>1, <1>2 DEF Types, RecSteps
<1>4. Types'
  BY <1>1, <1>2, <1>3 DEF Types
<1>5. QueuesOK' /\ HeapOK'
  BY <1>1, <1>2, <1>3 DEF QueuesOK, Working, HeapOK
<1>6. EventsOK'
  <2>1. /\ p_f_e_queue' = p_f_e_queue /\ videos' = videos /\ events' = events
        /\ rec'.events = rec.events
    BY <1>1, <1>3
  <2> QED
    BY <1>2, <2>1, ZenonT(60) DEF EventsOK
<1>7. ListOK'
  BY <1>1, <1>2, ZenonT(60) DEF ListOK, Elems
<1> QED
  BY <1>4, <1>5, <1>6, <1>7 DEF Base

\* front->next is one of the list, or none.
LEMMA NextFileType ==
  ASSUME Types, NEW v
  PROVE  NextFile(v) \in Videos \cup {0}
<1> DEFINE later == {i \in 2..Len(p_file_queue) : p_file_queue[i - 1] = v}
<1>1. ASSUME later # {}
      PROVE  (CHOOSE i \in later : TRUE) \in 2..Len(p_file_queue)
  <2>1. \E i \in later : TRUE
    BY <1>1
  <2>2. (CHOOSE i \in later : TRUE) \in later
    BY <2>1
  <2> QED
    BY <2>2
<1>2. \A i \in 2..Len(p_file_queue) : p_file_queue[i] \in Videos
  BY Parts
<1> QED
  BY <1>1, <1>2 DEF NextFile

\* The frame in hand is written to one video, which may be closed then.
LEMMA TurnBase ==
  ASSUME Base, rec.pc = "file", ~TurnDangles, Turn,
         UNCHANGED <<clock, backs, camera, made, events, taken, start, cut>>
  PROVE  /\ Base' /\ nodes' \subseteq nodes
         /\ rec'.pc \in {"file", "event"}
         /\ rec'.frame = rec.frame /\ rec'.ts = rec.ts /\ rec'.events = rec.events
         /\ Len(videos') = Len(videos)
         /\ \A v \in 1..Len(videos) :
              /\ videos'[v].ts = videos[v].ts /\ videos'[v].start = videos[v].start
              /\ v # rec.cur => videos'[v].frames = videos[v].frames
         /\ rec.cur \in 1..Len(videos)
         /\ videos'[rec.cur].frames = Append(videos[rec.cur].frames, rec.frame)
<1>0. PICK c, N : c = rec.cur /\ N = Len(p_file_queue)
  OBVIOUS
<1> DEFINE V == [ts : Times, start : Nat, frames : Seq(Frames)]
<1>1. /\ p_f_e_queue' = p_f_e_queue /\ p_5s_frame_queue' = p_5s_frame_queue
      /\ frames' = frames /\ clock' = clock /\ backs' = backs /\ made' = made
      /\ events' = events /\ start' = start /\ cut' = cut /\ taken' = taken
      /\ close' = close /\ exist' = exist
      /\ videos' = [videos EXCEPT ![c].frames = Append(@, rec.frame)]
      /\ IF Expired(videos[c].ts) THEN CloseVideo
                                  ELSE UNCHANGED <<p_file_queue, nodes, writers>>
      /\ rec' = [rec EXCEPT !.cur = NextFile(c),
                            !.pc = IF NextFile(c) = 0 THEN "event" ELSE "file"]
  BY <1>0 DEF Turn, camera
<1>2. Types /\ QueuesOK /\ HeapOK /\ EventsOK /\ ListOK
  BY DEF Base
<1>3. /\ N \in Nat /\ Len(videos) \in Nat
      /\ p_file_queue \in Seq(Videos) /\ videos \in Seq(V)
      /\ c \in 1..Len(videos) /\ rec.frame \in Frames
      /\ Expired(videos[c].ts) => p_file_queue # <<>>
      /\ \A i \in 1..N : p_file_queue[i] \in 1..Len(videos)
      /\ \A i \in 1..N : p_file_queue[i] \in Nat
      /\ \A i, j \in 1..N : i < j => p_file_queue[i] < p_file_queue[j]
      /\ writers = Elems(p_file_queue)
      /\ nodes \subseteq Videos /\ writers \subseteq Videos
  <2>1. /\ c \in nodes /\ rec.frame \in frames
        /\ Expired(videos[c].ts) => p_file_queue # <<>>
    BY <1>0 DEF TurnDangles
  <2>2. c \in 1..Len(videos) /\ rec.frame \in Frames
    BY <1>2, <2>1 DEF ListOK, Types
  <2>3. N \in Nat /\ Len(videos) \in Nat
    BY <1>0, <1>2, Parts
  <2>4. /\ \A i \in 1..N : p_file_queue[i] \in 1..Len(videos)
        /\ \A i, j \in 1..N : i < j => p_file_queue[i] < p_file_queue[j]
        /\ writers = Elems(p_file_queue)
    BY <1>0, <1>2 DEF ListOK
  <2>5. \A i \in 1..N : p_file_queue[i] \in Nat
    BY <2>3, <2>4
  <2> QED
    BY <1>2, <2>1, <2>2, <2>3, <2>4, <2>5 DEF Types
<1>4. /\ rec'.frame = rec.frame /\ rec'.ts = rec.ts /\ rec'.events = rec.events
      /\ rec'.pc \in {"event", "file"}
      /\ rec' \in [pc : RecSteps, frame : Frames \cup {0}, events : 0..MaxVideos,
                   ts : Times \cup {0}, cur : Videos \cup {0}]
  <2>1. NextFile(c) \in Videos \cup {0}
    BY <1>2, NextFileType
  <2> QED
    BY <1>1, <1>2, <2>1 DEF Types, RecSteps
<1>5. /\ videos' \in Seq(V) /\ Len(videos') = Len(videos)
      /\ \A v \in 1..Len(videos) : /\ videos'[v].ts = videos[v].ts
                                   /\ videos'[v].start = videos[v].start
                                   /\ v # c => videos'[v].frames = videos[v].frames
      /\ videos'[c].frames = Append(videos[c].frames, rec.frame)
  <2> DEFINE w == [videos[c] EXCEPT !.frames = Append(videos[c].frames, rec.frame)]
  <2>1. videos' = [videos EXCEPT ![c] = w]
    BY <1>1
  <2>2. videos[c] \in V /\ Append(videos[c].frames, rec.frame) \in Seq(Frames)
    <3>1. videos[c] \in V
      BY <1>3, ElementOfSeq
    <3>2. videos[c].frames \in Seq(Frames)
      BY <3>1
    <3> QED
      BY <1>3, <3>1, <3>2, AppendFacts
  <2>3. /\ w \in V /\ w.ts = videos[c].ts /\ w.start = videos[c].start
        /\ w.frames = Append(videos[c].frames, rec.frame)
    BY <2>2
  <2> HIDE DEF w, V
  <2>4. /\ videos' \in Seq(V) /\ Len(videos') = Len(videos)
        /\ \A v \in 1..Len(videos) : videos'[v] = IF v = c THEN w ELSE videos[v]
    BY <1>3, <2>1, <2>3, ExceptSeq
  <2> QED
    BY <1>3, <2>3, <2>4
<1>6. /\ p_file_queue' \in Seq(Videos) /\ nodes' \subseteq nodes
      /\ writers' \subseteq Videos /\ writers' = Elems(p_file_queue')
      /\ \A i \in 1..Len(p_file_queue') : p_file_queue'[i] \in 1..Len(videos)
      /\ \A i, j \in 1..Len(p_file_queue') : i < j => p_file_queue'[i] < p_file_queue'[j]
  <2>1. CASE ~Expired(videos[c].ts)
    <3>1. p_file_queue' = p_file_queue /\ nodes' = nodes /\ writers' = writers
      BY <1>1, <2>1
    <3> QED
      BY <1>0, <1>3, <3>1
  <2>2. CASE Expired(videos[c].ts)
    \* the first leaves the list; its writer is no other's
    <3>1. /\ p_file_queue' = Tail(p_file_queue)
          /\ writers' = writers \ {Head(p_file_queue)} /\ nodes' = nodes \ {c}
      BY <1>0, <1>1, <2>2 DEF CloseVideo
    <3>2. /\ N > 0 /\ Head(p_file_queue) = p_file_queue[1]
          /\ Tail(p_file_queue) \in Seq(Videos) /\ Len(Tail(p_file_queue)) = N - 1
          /\ \A i \in 1..(N - 1) : Tail(p_file_queue)[i] = p_file_queue[i + 1]
          /\ Elems(p_file_queue) = Elems(Tail(p_file_queue)) \cup {Head(p_file_queue)}
      BY <1>0, <1>3, <2>2, TailFacts, ElemsTail
    <3>3. \A i \in 1..(N - 1) : /\ i + 1 \in 1..N
                                /\ p_file_queue[1] < p_file_queue[i + 1]
                                /\ p_file_queue[1] # p_file_queue[i + 1]
      <4> TAKE i \in 1..(N - 1)
      <4>1. i + 1 \in 1..N /\ 1 \in 1..N /\ 1 < i + 1
        BY <1>3
      <4> QED
        BY <1>3, <4>1
    <3>4. Head(p_file_queue) \notin Elems(Tail(p_file_queue))
      BY <3>2, <3>3 DEF Elems
    <3>5. \A i \in 1..(N - 1) : Tail(p_file_queue)[i] \in 1..Len(videos)
      BY <1>3, <3>2, <3>3
    <3>6. ASSUME NEW i \in 1..(N - 1), NEW j \in 1..(N - 1), i < j
          PROVE  Tail(p_file_queue)[i] < Tail(p_file_queue)[j]
      <4>1. i + 1 \in 1..N /\ j + 1 \in 1..N /\ i + 1 < j + 1
        BY <1>3, <3>3, <3>6
      <4> QED
        BY <1>3, <3>2, <4>1
    <3> QED
      BY <1>3, <3>1, <3>2, <3>4, <3>5, <3>6
  <2> QED
    BY <2>1, <2>2
<1>7. Types'
  BY <1>1, <1>2, <1>3, <1>4, <1>5, <1>6 DEF Types
<1>8. QueuesOK'
  BY <1>1, <1>2, <1>4 DEF QueuesOK, Working
<1>9. HeapOK'
  <2>1. FramesOf(p_f_e_queue)' = FramesOf(p_f_e_queue)
        /\ FramesOf(p_5s_frame_queue)' = FramesOf(p_5s_frame_queue)
    BY <1>1 DEF FramesOf
  <2> QED
    BY <1>1, <1>2, <1>4, <2>1 DEF HeapOK
<1>10. EventsOK'
  <2>1. Len(videos') + rec'.events = Len(videos) + rec.events
    BY <1>4, <1>5
  <2> QED
    BY <1>1, <1>2, <2>1 DEF EventsOK
<1>11. ListOK'
  <2>1. Elems(p_file_queue)' = Elems(p_file_queue')
    BY DEF Elems
  <2>2. nodes' \subseteq 1..Len(videos')
    BY <1>2, <1>5, <1>6 DEF ListOK
  <2> QED
    BY <1>5, <1>6, <2>1, <2>2 DEF ListOK
<1> QED
  BY <1>0, <1>3, <1>4, <1>5, <1>6, <1>7, <1>8, <1>9, <1>10, <1>11 DEF Base

LEMMA FileBase ==
  ASSUME Base, File
  PROVE  Base'
<1>1. /\ rec.pc = "file"
      /\ UNCHANGED <<clock, backs, camera, made, events, taken, start, cut>>
  BY DEF File
<1>2. CASE TurnDangles
  <2>1. Break
    BY <1>2 DEF File
  <2> QED
    BY <1>1, <2>1, BreakBase
<1>3. CASE ~TurnDangles
  <2>1. Turn
    BY <1>3 DEF File
  <2> QED
    BY <1>1, <1>3, <2>1, TurnBase
<1> QED
  BY <1>2, <1>3

\* A video of the last seconds is opened, for one event of the frame in hand.
LEMMA RecordBase ==
  ASSUME Base, rec.pc = "event", rec.events > 0, Record,
         UNCHANGED <<clock, backs, camera, made, events, taken, start, cut>>
  PROVE  Base'
<1>0. PICK v, L, N : v = Len(videos) + 1 /\ L = Len(p_5s_frame_queue) /\ N = Len(p_file_queue)
  OBVIOUS
<1> DEFINE V == [ts : Times, start : Nat, frames : Seq(Frames)]
<1>1. Types /\ QueuesOK /\ HeapOK /\ EventsOK /\ ListOK
  BY DEF Base
<1>2. PICK b, w : /\ b = [i \in 1..L |-> p_5s_frame_queue[i].frame]
                  /\ w = [ts |-> rec.ts, start |-> start, frames |-> b]
  OBVIOUS
<1>3. /\ p_f_e_queue' = p_f_e_queue /\ p_5s_frame_queue' = p_5s_frame_queue
      /\ frames' = frames /\ clock' = clock /\ backs' = backs /\ made' = made
      /\ events' = events /\ start' = start /\ cut' = cut /\ taken' = taken
      /\ close' = close /\ exist' = exist
      /\ rec' = [rec EXCEPT !.events = @ - 1]
      /\ videos' = Append(videos, w)
      /\ p_file_queue' = Append(p_file_queue, v)
      /\ nodes' = nodes \cup {v} /\ writers' = writers \cup {v}
  BY <1>0, <1>2 DEF Record, Before, camera
<1>4. /\ N \in Nat /\ L \in Nat /\ Len(videos) \in Nat
      /\ MaxVideos \in Nat /\ rec.events \in Nat
      /\ \A i \in 1..L : p_5s_frame_queue[i].frame \in Frames
      /\ p_file_queue \in Seq(Videos) /\ videos \in Seq(V) /\ start \in Nat
      /\ Len(videos) + rec.events \in 0..MaxVideos /\ rec.events <= MaxVideos
      /\ rec.ts \in Times
  <2>1. /\ p_file_queue \in Seq(Videos) /\ videos \in Seq(V)
        /\ rec.events \in 0..MaxVideos /\ rec.ts \in Times \cup {0}
    BY <1>1 DEF Types
  <2>2. /\ N \in Nat /\ L \in Nat /\ Len(videos) \in Nat
        /\ MaxVideos \in Nat /\ rec.events \in Nat /\ start \in Nat
    BY <1>0, <1>1, Parts
  <2>3. \A i \in 1..L : p_5s_frame_queue[i].frame \in Frames
    BY <1>0, <1>1, Parts
  <2>4. Len(videos) + rec.events \in 0..MaxVideos
    BY <1>1, VideosBound
  <2>5. rec.ts > 0
    BY <1>1 DEF QueuesOK, Working
  <2> QED
    BY <2>1, <2>2, <2>3, <2>4, <2>5
<1>5. b \in Seq(Frames)
  <2>1. b \in [1..L -> Frames]
    BY <1>2, <1>4
  <2> QED
    BY <1>4, <2>1
<1>6. /\ rec'.pc = "event" /\ rec'.frame = rec.frame /\ rec'.ts = rec.ts
      /\ rec'.events = rec.events - 1 /\ rec'.cur = rec.cur
  BY <1>1, <1>3 DEF Types
<1>9. w \in V
  BY <1>2, <1>4, <1>5
<1> HIDE DEF V
<1>10. videos' \in Seq(V) /\ Len(videos') = v
  BY <1>0, <1>3, <1>4, <1>9, AppendFacts
<1>11. /\ v \in Videos /\ v \in Nat
       /\ \A u \in 1..Len(videos) : u \in 1..v /\ u < v
       /\ v \in 1..v
  BY <1>0, <1>4, SMTT(30) DEF Videos
<1>12. /\ p_file_queue' \in Seq(Videos) /\ Len(p_file_queue') = N + 1
       /\ \A i \in 1..N : p_file_queue'[i] = p_file_queue[i]
       /\ p_file_queue'[N + 1] = v
       /\ Elems(p_file_queue') = Elems(p_file_queue) \cup {v}
  BY <1>0, <1>3, <1>4, <1>11, AppendFacts, ElemsAppend, SMTT(30)
<1>13. Types'
  <2>1. rec' \in [pc : RecSteps, frame : Frames \cup {0}, events : 0..MaxVideos,
                  ts : Times \cup {0}, cur : Videos \cup {0}]
    <3>1. rec.events - 1 \in 0..MaxVideos
      BY <1>4, SMTT(30)
    <3> QED
      BY <1>1, <1>3, <3>1 DEF Types
  <2>2. nodes' \subseteq Videos /\ writers' \subseteq Videos
    BY <1>1, <1>3, <1>11 DEF Types
  <2> QED
    BY <1>1, <1>3, <1>10, <1>12, <2>1, <2>2 DEF Types, V
<1>14. QueuesOK'
  BY <1>1, <1>3, <1>6 DEF QueuesOK, Working
<1>16. HeapOK'
  <2>1. FramesOf(p_f_e_queue)' = FramesOf(p_f_e_queue)
        /\ FramesOf(p_5s_frame_queue)' = FramesOf(p_5s_frame_queue)
    BY <1>3 DEF FramesOf
  <2> QED
    BY <1>1, <1>3, <1>6, <2>1 DEF HeapOK
<1>17. ListOK'
  <2>1. Elems(p_file_queue)' = Elems(p_file_queue')
    BY DEF Elems
  <2>2. writers' = Elems(p_file_queue')
    BY <1>1, <1>3, <1>12 DEF ListOK
  <2>3. nodes' \subseteq 1..v
    BY <1>1, <1>3, <1>11 DEF ListOK
  <2>4. \A i \in 1..N : /\ p_file_queue'[i] = p_file_queue[i]
                        /\ p_file_queue[i] \in 1..v /\ p_file_queue[i] < v
    BY <1>0, <1>1, <1>11, <1>12 DEF ListOK
  <2>5. \A i \in 1..(N + 1) : i \in 1..N \/ i = N + 1
    BY <1>4
  <2>6. \A i \in 1..(N + 1) : p_file_queue'[i] \in 1..v
    BY <1>11, <1>12, <2>4, <2>5
  <2>7. ASSUME NEW i \in 1..(N + 1), NEW j \in 1..(N + 1), i < j
        PROVE  p_file_queue'[i] < p_file_queue'[j]
    <3>1. i \in 1..N
      BY <1>4, <2>7
    <3>2. CASE j \in 1..N
      <4>1. p_file_queue[i] < p_file_queue[j]
        BY <1>0, <1>1, <2>7, <3>1, <3>2 DEF ListOK
      <4> QED
        BY <2>4, <3>1, <3>2, <4>1
    <3>3. CASE j = N + 1
      BY <1>12, <2>4, <3>1, <3>3
    <3> QED
      BY <2>5, <3>2, <3>3
  <2> QED
    BY <1>10, <1>12, <2>1, <2>2, <2>3, <2>6, <2>7 DEF ListOK
<1>20. EventsOK'
  <2>1. Len(videos) + rec.events = Len(videos') + rec'.events
    <3>1. Len(videos') = Len(videos) + 1 /\ rec'.events = rec.events - 1
      BY <1>0, <1>6, <1>10
    <3>2. Len(videos) \in Nat /\ rec.events \in Nat
      BY <1>4
    <3> QED
      BY <3>1, <3>2
  <2> QED
    BY <1>1, <1>3, <2>1 DEF EventsOK
<1> QED
  BY <1>13, <1>14, <1>16, <1>17, <1>20 DEF Base

LEMMA EventBase ==
  ASSUME Base, Event
  PROVE  Base'
<1>1. /\ rec.pc = "event" /\ rec.events > 0
      /\ UNCHANGED <<clock, backs, camera, made, events, taken, start, cut>>
  BY DEF Event
<1>2. CASE EventDangles
  <2>1. Break
    BY <1>2 DEF Event
  <2> QED
    BY <1>1, <2>1, BreakBase
<1>3. CASE ~EventDangles
  <2>1. Record
    BY <1>3 DEF Event
  <2> QED
    BY <1>1, <2>1, RecordBase
<1> QED
  BY <1>2, <1>3

\* The recorder is done with the frame.
LEMMA DoneBase ==
  ASSUME Base, Done
  PROVE  Base'
<1>1. /\ p_f_e_queue' = p_f_e_queue /\ p_5s_frame_queue' = p_5s_frame_queue
      /\ p_file_queue' = p_file_queue
      /\ frames' = frames /\ nodes' = nodes /\ writers' = writers
      /\ clock' = clock /\ backs' = backs /\ videos' = videos /\ made' = made
      /\ events' = events /\ start' = start /\ cut' = cut /\ taken' = taken
      /\ close' = close /\ exist' = exist
      /\ rec.pc = "event" /\ rec.events = 0 /\ rec' = Idle
  BY DEF Done, queues, heap, history, camera
<1>2. Types /\ QueuesOK /\ HeapOK /\ EventsOK /\ ListOK
  BY DEF Base
<1>3. /\ rec'.pc = "idle" /\ rec'.frame = 0 /\ rec'.events = 0 /\ rec'.ts = 0 /\ rec'.cur = 0
  BY <1>1 DEF Idle
<1>6. Types'
  <2>1. rec' \in [pc : RecSteps, frame : Frames \cup {0}, events : 0..MaxVideos,
                  ts : Times \cup {0}, cur : Videos \cup {0}]
    BY <1>1, BoundAssumption DEF Idle, RecSteps
  <2> QED
    BY <1>1, <1>2, <2>1 DEF Types
<1>7. QueuesOK'
  BY <1>1, <1>2, <1>3 DEF QueuesOK, Working
<1>8. HeapOK'
  BY <1>1, <1>2, <1>3 DEF HeapOK, FramesOf
<1>9. ListOK'
  BY <1>1, <1>2 DEF ListOK, Elems
<1>12. EventsOK'
  BY <1>1, <1>2, <1>3 DEF EventsOK
<1> QED
  BY <1>6, <1>7, <1>8, <1>9, <1>12 DEF Base

\* camera_close empties the first queue; the recorder may be on a frame.
LEMMA ClearFeBase ==
  ASSUME Base, ClearFe
  PROVE  Base'
<1>1. /\ p_f_e_queue' = <<>> /\ p_5s_frame_queue' = p_5s_frame_queue
      /\ p_file_queue' = p_file_queue /\ rec' = rec
      /\ frames' = frames \ FramesOf(p_f_e_queue) /\ nodes' = nodes /\ writers' = writers
      /\ clock' = clock /\ backs' = backs /\ videos' = videos /\ made' = made
      /\ events' = events /\ start' = start /\ cut' = cut /\ taken' = taken
      /\ close' = "clear_5s" /\ exist' = exist
      /\ Len(p_f_e_queue') = 0
  BY DEF ClearFe, history
<1>2. Types /\ QueuesOK /\ HeapOK /\ EventsOK /\ ListOK
  BY DEF Base
<1>3. Len(p_f_e_queue) \in Nat /\ QueueMax \in Nat /\ 0 \in 0..Len(p_f_e_queue)
  BY <1>2, Parts, SizeAssumption
<1>5. Types'
  <2>1. \A S : p_f_e_queue' \in Seq(S)
    BY <1>1
  <2> QED
    BY <1>1, <1>2, <1>3, <2>1 DEF Types, CloseSteps
<1>6. QueuesOK'
  BY <1>1, <1>2 DEF QueuesOK, Working
<1>8. HeapOK'
  <2>1. FramesOf(p_f_e_queue)' = {} /\ FramesOf(p_5s_frame_queue)' = FramesOf(p_5s_frame_queue)
    BY <1>1 DEF FramesOf
  <2>2. /\ \A x \in FramesOf(p_5s_frame_queue) : x \notin FramesOf(p_f_e_queue)
        /\ rec.pc = "keep" => rec.frame \notin FramesOf(p_f_e_queue)
    BY <1>2, Disjoint
  <2> QED
    BY <1>1, <1>2, <2>1, <2>2 DEF HeapOK
<1>9. ListOK'
  BY <1>1, <1>2 DEF ListOK, Elems
<1>12. EventsOK'
  <2>1. PICK S \in [0..Len(p_f_e_queue) -> 0..MaxVideos] :
          /\ S[0] = Len(videos) + rec.events
          /\ \A i \in 0..Len(p_f_e_queue) : S[i] <= events
    BY <1>2 DEF EventsOK
  <2> DEFINE R == [i \in 0..0 |-> S[0]]
  <2>2. R \in [0..0 -> 0..MaxVideos] /\ R[0] = S[0] /\ S[0] <= events
    BY <1>3, <2>1
  <2> HIDE DEF R
  <2>3. \A i \in 0..0 : R[i] <= events
    BY <2>2
  <2> QED
    BY <1>1, <2>1, <2>2, <2>3 DEF EventsOK
<1> QED
  BY <1>5, <1>6, <1>8, <1>9, <1>12 DEF Base

\* camera_close drops the last seconds; the recorder may be on a frame.
LEMMA Clear5sBase ==
  ASSUME Base, Clear5s
  PROVE  Base'
<1>1. /\ p_f_e_queue' = p_f_e_queue /\ p_5s_frame_queue' = <<>>
      /\ p_file_queue' = p_file_queue /\ rec' = rec
      /\ frames' = frames \ FramesOf(p_5s_frame_queue) /\ nodes' = nodes
      /\ writers' = writers
      /\ clock' = clock /\ backs' = backs /\ videos' = videos /\ made' = made
      /\ events' = events /\ start' = made + 1 /\ cut' = cut /\ taken' = taken
      /\ close' = "clear_file" /\ exist' = exist
      /\ Len(p_5s_frame_queue') = 0
  BY DEF Clear5s
<1>2. Types /\ QueuesOK /\ HeapOK /\ EventsOK /\ ListOK
  BY DEF Base
<1>3. start' \in 1..(MaxFrames + 1) /\ frames' \subseteq Frames
  <2>1. made \in 0..MaxFrames /\ MaxFrames \in Nat /\ frames \subseteq Frames
    BY <1>2, BoundAssumption DEF Types
  <2> QED
    BY <1>1, <2>1
<1>5. Types'
  <2>1. \A S : p_5s_frame_queue' \in Seq(S)
    BY <1>1
  <2> QED
    BY <1>1, <1>2, <1>3, <2>1 DEF Types, CloseSteps
<1>6. QueuesOK'
  BY <1>1, <1>2 DEF QueuesOK, Working
<1>8. HeapOK'
  <2>1. FramesOf(p_5s_frame_queue)' = {} /\ FramesOf(p_f_e_queue)' = FramesOf(p_f_e_queue)
    BY <1>1 DEF FramesOf
  <2>2. /\ \A x \in FramesOf(p_5s_frame_queue) : x \notin FramesOf(p_f_e_queue)
        /\ rec.pc = "keep" => rec.frame \notin FramesOf(p_5s_frame_queue)
    BY <1>2, Disjoint
  <2> QED
    BY <1>1, <1>2, <2>1, <2>2 DEF HeapOK
<1>9. ListOK'
  BY <1>1, <1>2 DEF ListOK, Elems
<1>12. EventsOK'
  BY <1>1, <1>2 DEF EventsOK
<1> QED
  BY <1>5, <1>6, <1>8, <1>9, <1>12 DEF Base

\* camera_close closes the videos; the recorder may be on one, or one freed before.
LEMMA ClearFileBase ==
  ASSUME Base, ClearFile
  PROVE  Base'
<1>1. /\ p_f_e_queue' = p_f_e_queue /\ p_5s_frame_queue' = p_5s_frame_queue
      /\ p_file_queue' = <<>> /\ frames' = frames
      /\ nodes' = nodes \ Elems(p_file_queue) /\ writers' = writers \ Elems(p_file_queue)
      /\ clock' = clock /\ backs' = backs /\ videos' = videos /\ made' = made
      /\ events' = events /\ start' = start /\ cut' = cut \cup Elems(p_file_queue)
      /\ taken' = taken
      /\ close' = "off" /\ exist' = exist
      /\ Len(p_file_queue') = 0
      /\ rec' = rec \/ rec' = [rec EXCEPT !.pc = "broken"]
  BY DEF ClearFile
<1>2. Types /\ QueuesOK /\ HeapOK /\ EventsOK /\ ListOK
  BY DEF Base
<1>3. /\ rec' \in [pc : RecSteps, frame : Frames \cup {0}, events : 0..MaxVideos,
                   ts : Times \cup {0}, cur : Videos \cup {0}]
      /\ rec'.events = rec.events
      /\ rec' = rec \/ rec'.pc = "broken"
  BY <1>1, <1>2 DEF Types, RecSteps
<1>4. Elems(p_file_queue) \subseteq Videos
  BY <1>2, Parts DEF Elems
<1>5. Types'
  <2>1. \A S : p_file_queue' \in Seq(S)
    BY <1>1
  <2>2. cut' \subseteq Videos /\ nodes' \subseteq Videos /\ writers' \subseteq Videos
    BY <1>1, <1>2, <1>4 DEF Types
  <2> QED
    BY <1>1, <1>2, <1>3, <2>1, <2>2 DEF Types, CloseSteps
<1>6. QueuesOK'
  <2>1. CASE rec' = rec
    BY <1>1, <1>2, <2>1 DEF QueuesOK, Working
  <2>2. CASE rec'.pc = "broken"
    BY <1>1, <1>2, <2>2 DEF QueuesOK, Working
  <2> QED
    BY <1>3, <2>1, <2>2
<1>8. HeapOK'
  BY <1>1, <1>2, <1>3 DEF HeapOK, FramesOf
<1>9. ListOK'
  <2>1. writers = Elems(p_file_queue)
    BY <1>2 DEF ListOK
  <2>2. Elems(p_file_queue)' = {}
    BY <1>1 DEF Elems
  <2> QED
    BY <1>1, <1>2, <2>1, <2>2 DEF ListOK
<1>12. EventsOK'
  <2>1. Len(videos') + rec'.events = Len(videos) + rec.events
    BY <1>1, <1>3
  <2> QED
    BY <1>1, <1>2, <2>1 DEF EventsOK
<1> QED
  BY <1>5, <1>6, <1>8, <1>9, <1>12 DEF Base

\* Every step keeps what holds throughout.
LEMMA StepBase ==
  ASSUME Base, [Next]_vars
  PROVE  Base'
<1>1. CASE Tick \/ Look \/ Miss \/ Delete \/ CloseBegin \/ CloseJoin \/ CloseFlag \/ Open
           \/ UNCHANGED vars
  BY <1>1, CalmSteps, CalmBase
<1>2. CASE SetDate
  BY <1>2, SetDateBase
<1>3. ASSUME NEW n \in 0..MaxVideos, AddFrame(n) PROVE Base'
  BY <1>3, AddFrameBase
<1>4. CASE Take
  BY <1>4, TakeBase
<1>5. CASE Keep
  BY <1>5, KeepBase
<1>6. CASE File
  BY <1>6, FileBase
<1>7. CASE Event
  BY <1>7, EventBase
<1>8. CASE Done
  BY <1>8, DoneBase
<1>9. CASE ClearFe
  BY <1>9, ClearFeBase
<1>10. CASE Clear5s
  BY <1>10, Clear5sBase
<1>11. CASE ClearFile
  BY <1>11, ClearFileBase
<1> QED
  BY <1>1, <1>2, <1>3, <1>4, <1>5, <1>6, <1>7, <1>8, <1>9, <1>10, <1>11
     DEF Next, RecStep, CloseStep

-----------------------------------------------------------------------------
(* What holds as long as the clock is not set back with a video open: every  *)
(* step keeps it                                                             *)

LEMMA InitTimes == Init => TimesOK
<1> SUFFICES ASSUME Init PROVE TimesOK
  OBVIOUS
<1>1. /\ p_file_queue = <<>> /\ Len(p_file_queue) = 0 /\ nodes = {} /\ rec.pc = "idle"
  BY DEF Init, Idle
<1> QED
  BY <1>1 DEF TimesOK, Elems

LEMMA CalmTimes ==
  ASSUME Base, TimesOK, Calm
  PROVE  TimesOK'
<1>1. /\ p_file_queue' = p_file_queue /\ rec' = rec /\ nodes' = nodes /\ videos' = videos
      /\ clock' >= clock /\ clock' \in Nat /\ clock \in Nat /\ rec.ts \in Nat
      /\ Len(p_file_queue) \in Nat
  BY Parts DEF Calm, queues, heap, history, Base, Times
<1>2. Now' >= Now /\ Now \in Nat /\ Now' \in Nat
  BY <1>1 DEF Now
<1>3. \A i \in 1..Len(p_file_queue) : videos[p_file_queue[i]].ts \in Nat
  BY Parts DEF Base, ListOK
<1>4. \A i \in 1..Len(p_file_queue) : videos[p_file_queue[i]].ts <= Now'
  BY <1>2, <1>3 DEF TimesOK
<1>5. rec.pc # "idle" => rec.ts <= clock'
  BY <1>1 DEF TimesOK
<1>6. \A t : Expired(t)' <=> Expired(t)
  BY <1>1 DEF Expired
<1> QED
  BY <1>1, <1>4, <1>5, <1>6 DEF TimesOK, Elems

\* The clock may go back while no video is open or begun.
LEMMA SetDateTimes ==
  ASSUME TimesOK, SetDate, ~shifted'
  PROVE  TimesOK'
<1>1. /\ p_file_queue = <<>> /\ p_file_queue' = p_file_queue /\ nodes' = nodes
      /\ rec.pc = "idle" /\ rec' = rec /\ Len(p_file_queue) = 0
  BY DEF SetDate, queues, heap
<1> QED
  BY <1>1 DEF TimesOK, Elems

LEMMA AddFrameTimes ==
  ASSUME TimesOK, NEW n \in 0..MaxVideos, AddFrame(n)
  PROVE  TimesOK'
<1>1. /\ p_file_queue' = p_file_queue /\ rec' = rec /\ nodes' = nodes /\ videos' = videos
      /\ clock' = clock
  BY DEF AddFrame
<1> QED
  BY <1>1 DEF TimesOK, Elems, Now, Expired

LEMMA TakeTimes ==
  ASSUME TimesOK, Take, clock \in Nat
  PROVE  TimesOK'
<1>1. /\ p_file_queue' = p_file_queue /\ nodes' = nodes /\ videos' = videos
      /\ clock' = clock /\ rec.pc = "idle" /\ rec'.pc = "keep" /\ rec'.ts = clock
  BY DEF Take, heap
<1>2. Now = clock /\ Now' = clock
  BY <1>1 DEF Now
<1> QED
  BY <1>1, <1>2 DEF TimesOK, Elems

\* The walk begins with the first video.
LEMMA KeepTimes ==
  ASSUME Base, TimesOK, Keep
  PROVE  TimesOK'
<1>1. /\ p_file_queue' = p_file_queue /\ nodes' = nodes /\ videos' = videos
      /\ clock' = clock /\ rec.pc = "keep"
      /\ rec' = [rec EXCEPT !.pc = IF p_file_queue = <<>> THEN "event" ELSE "file",
                            !.cur = IF p_file_queue = <<>> THEN 0 ELSE Head(p_file_queue)]
      /\ Types
  BY DEF Keep, history, Base
<1>2. /\ rec'.pc = (IF p_file_queue = <<>> THEN "event" ELSE "file")
      /\ rec'.ts = rec.ts
      /\ rec'.cur = (IF p_file_queue = <<>> THEN 0 ELSE Head(p_file_queue))
  BY <1>1 DEF Types
<1>3. Now = rec.ts /\ Now' = rec.ts
  BY <1>1, <1>2 DEF Now
<1>4. rec'.pc = "file" => 1 \in 1..Len(p_file_queue) /\ p_file_queue[1] = rec'.cur
  <2> SUFFICES ASSUME p_file_queue # <<>>
               PROVE  1 \in 1..Len(p_file_queue) /\ p_file_queue[1] = Head(p_file_queue)
    BY <1>2
  <2>1. p_file_queue \in Seq(Videos)
    BY <1>1 DEF Types
  <2> QED
    BY <2>1, TailFacts
<1>5. rec'.pc = "file" => \E p \in 1..Len(p_file_queue) :
         /\ p_file_queue[p] = rec'.cur
         /\ \A j \in 1..(p - 1) : ~Expired(videos[p_file_queue[j]].ts)'
  <2> SUFFICES ASSUME rec'.pc = "file"
               PROVE  /\ 1 \in 1..Len(p_file_queue) /\ p_file_queue[1] = rec'.cur
                      /\ \A j \in 1..(1 - 1) : ~Expired(videos[p_file_queue[j]].ts)'
    OBVIOUS
  <2> QED
    BY <1>4
<1> QED
  BY <1>1, <1>2, <1>3, <1>5 DEF TimesOK, Elems

\* Whatever is freed already, the lists stay as they are.
LEMMA BreakTimes ==
  ASSUME Types, TimesOK, Break, rec.pc # "idle", UNCHANGED clock
  PROVE  TimesOK'
<1>1. /\ p_file_queue' = p_file_queue /\ nodes' = nodes /\ videos' = videos
      /\ clock' = clock /\ rec'.pc = "broken" /\ rec'.ts = rec.ts
  BY DEF Break, queues, heap, Types
<1>2. Now' = Now
  BY <1>1 DEF Now
<1> QED
  BY <1>1, <1>2 DEF TimesOK, Elems

\* A turn of the walk: the video in hand is the first one that may be due, so the video
\* that leaves the list is the one whose node is freed.
LEMMA TurnFacts ==
  ASSUME Base, TimesOK, rec.pc = "file", ~TurnDangles, Turn,
         UNCHANGED <<clock, backs, camera, made, events, taken, start, cut>>
  PROVE  /\ TimesOK'
         /\ \A v : Listed(v)' => Listed(v)
         /\ \A v : v # rec.cur /\ Listed(v) => Listed(v)'
         /\ \A v : v = rec.cur /\ ~Listed(v)' => videos[v].ts + Window < rec.ts
         /\ Listed(rec.cur) /\ Unwritten(rec.cur) /\ \A v : v = rec.cur => ~Unwritten(v)'
         /\ \A v : v # rec.cur /\ Listed(v) => (Unwritten(v)' <=> Unwritten(v))
         /\ rec'.pc = "file" => rec'.cur \in nodes'
<1>0. PICK c, N : c = rec.cur /\ N = Len(p_file_queue)
  OBVIOUS
<1>1. /\ clock' = clock
      /\ IF Expired(videos[c].ts) THEN CloseVideo
                                  ELSE UNCHANGED <<p_file_queue, nodes, writers>>
      /\ rec' = [rec EXCEPT !.cur = NextFile(c),
                            !.pc = IF NextFile(c) = 0 THEN "event" ELSE "file"]
  BY <1>0 DEF Turn
<1>2. Types /\ ListOK
  BY DEF Base
<1>3. /\ Window \in Nat /\ N \in Nat /\ Len(videos) \in Nat
      /\ \A v \in 1..Len(videos) : videos[v].ts \in Nat
      /\ p_file_queue \in Seq(Videos)
      /\ \A v \in Videos : v \in Nat /\ v > 0
  <2>1. p_file_queue \in Seq(Videos) /\ \A v \in Videos : v \in Nat /\ v > 0
    BY <1>2, BoundAssumption DEF Types, Videos
  <2> QED
    BY <1>0, <1>2, <2>1, Parts
<1>4. rec.ts \in Nat /\ Now = rec.ts
  BY <1>2, Parts DEF Now
<1>5. /\ \A i \in 1..N : /\ p_file_queue[i] \in 1..Len(videos) /\ p_file_queue[i] \in Nat
                         /\ p_file_queue[i] \in Videos
                         /\ videos[p_file_queue[i]].ts <= rec.ts
                         /\ videos[p_file_queue[i]].ts \in Nat
      /\ \A i, j \in 1..N : i < j =>
           /\ p_file_queue[i] < p_file_queue[j]
           /\ videos[p_file_queue[i]].ts <= videos[p_file_queue[j]].ts
      /\ nodes = Elems(p_file_queue)
  <2>1. \A i \in 1..N : p_file_queue[i] \in Videos
    BY <1>0, <1>2, Parts
  <2>2. \A i \in 1..N : /\ p_file_queue[i] \in 1..Len(videos)
                        /\ videos[p_file_queue[i]].ts <= rec.ts
    BY <1>0, <1>2, <1>4 DEF ListOK, TimesOK
  <2>3. /\ \A i, j \in 1..N : i < j =>
             /\ p_file_queue[i] < p_file_queue[j]
             /\ videos[p_file_queue[i]].ts <= videos[p_file_queue[j]].ts
        /\ nodes = Elems(p_file_queue)
    BY <1>0, <1>2 DEF ListOK, TimesOK
  <2> QED
    BY <1>3, <2>1, <2>2, <2>3
<1>6. PICK p \in 1..N : /\ p_file_queue[p] = c
                        /\ \A j \in 1..(p - 1) : ~Expired(videos[p_file_queue[j]].ts)
  <2>1. rec.cur \in nodes
    BY DEF TurnDangles
  <2> QED
    BY <1>0, <2>1 DEF TimesOK
<1>7. c \in 1..Len(videos) /\ c \in Nat /\ videos[c].ts \in Nat /\ videos[c].ts <= rec.ts
      /\ c > 0
  BY <1>3, <1>5, <1>6
<1>8. NextFile(c) = IF p = N THEN 0 ELSE p_file_queue[p + 1]
  <2> DEFINE later == {i \in 2..N : p_file_queue[i - 1] = c}
  <2>1. \A i \in 2..N : p_file_queue[i - 1] = c <=> i = p + 1
    <3> TAKE i \in 2..N
    <3>1. i - 1 \in 1..N /\ (i - 1) + 1 = i
      BY <1>3
    <3>2. CASE i - 1 < p
      BY <1>5, <1>6, <3>1, <3>2
    <3>3. CASE p < i - 1
      BY <1>5, <1>6, <3>1, <3>3
    <3>4. CASE i - 1 = p
      BY <1>6, <3>1, <3>4
    <3> QED
      BY <1>3, <3>1, <3>2, <3>3, <3>4
  <2>2. CASE p = N
    <3>1. later = {}
      BY <1>3, <2>1, <2>2
    <3> QED
      BY <1>0, <2>2, <3>1 DEF NextFile
  <2>3. CASE p # N
    <3>1. later = {p + 1}
      BY <1>3, <2>1, <2>3
    <3>2. (CHOOSE i \in later : TRUE) = p + 1
      BY <3>1
    <3> QED
      BY <1>0, <2>3, <3>1, <3>2 DEF NextFile
  <2> QED
    BY <2>2, <2>3
<1>9. /\ rec'.frame = rec.frame /\ rec'.ts = rec.ts /\ rec'.events = rec.events
      /\ rec'.cur = (IF p = N THEN 0 ELSE p_file_queue[p + 1])
      /\ rec'.pc = (IF p = N THEN "event" ELSE "file")
      /\ p # N => p + 1 \in 1..N
  <2>1. p # N => p + 1 \in 1..N
    BY <1>3
  <2>2. NextFile(c) = 0 <=> p = N
    BY <1>3, <1>5, <1>8, <2>1
  <2> QED
    BY <1>0, <1>1, <1>2, <1>8, <2>1, <2>2 DEF Types
<1>10. Now' = rec.ts
  BY <1>4, <1>9 DEF Now
<1>11. \A t : Expired(t)' <=> Expired(t)
  BY <1>9 DEF Expired
<1>12. /\ Len(videos') = Len(videos)
       /\ \A v \in 1..Len(videos) : videos'[v].ts = videos[v].ts
       /\ ListOK'
  BY TurnBase DEF Base
<1>13. rec'.pc # "idle" => rec'.ts <= clock'
  BY <1>1, <1>9 DEF TimesOK
<1>14. ASSUME Expired(videos[c].ts)
       PROVE  /\ TimesOK'
              /\ \A v \in nodes : v # c => v \in nodes'
              /\ \A v : Listed(v)' => Listed(v)
              /\ \A v : v # c /\ Listed(v) => Listed(v)'
              /\ ~Listed(c)' => videos[c].ts + Window < rec.ts
  \* the video is the first, and leaves the list
  <2>1. p = 1
    <3> SUFFICES ASSUME p # 1 PROVE FALSE
      OBVIOUS
    <3>1. 1 \in 1..(p - 1) /\ 1 \in 1..N /\ 1 < p
      BY <1>3
    <3>2. ~Expired(videos[p_file_queue[1]].ts) /\ videos[p_file_queue[1]].ts <= videos[c].ts
      BY <1>5, <1>6, <3>1
    <3> QED
      <4> DEFINE t1 == videos[p_file_queue[1]].ts
                 tc == videos[c].ts
      <4>1. /\ t1 \in Nat /\ tc \in Nat /\ t1 <= rec.ts /\ tc <= rec.ts /\ t1 <= tc
            /\ ~(t1 + Window < rec.ts)
        BY <1>5, <1>7, <3>1, <3>2 DEF Expired
      <4>2. tc + Window < rec.ts \/ tc > rec.ts
        BY <1>14 DEF Expired
      <4> HIDE DEF t1, tc
      <4> QED
        BY <1>3, <1>4, <4>1, <4>2
  <2>2. p_file_queue # <<>>
    BY <1>0, <1>3
  <2>3. /\ p_file_queue' = Tail(p_file_queue) /\ Head(p_file_queue) = c
        /\ Tail(p_file_queue) \in Seq(Videos)
        /\ Len(Tail(p_file_queue)) = N - 1
        /\ \A i \in 1..(N - 1) : Tail(p_file_queue)[i] = p_file_queue[i + 1]
        /\ Elems(p_file_queue) = Elems(Tail(p_file_queue)) \cup {c}
    <3>1. CloseVideo
      BY <1>1, <1>14
    <3>2. Head(p_file_queue) = p_file_queue[1]
      BY <1>3, <2>2, TailFacts
    <3> QED
      BY <1>0, <1>3, <1>6, <2>1, <2>2, <3>1, <3>2, TailFacts, ElemsTail DEF CloseVideo
  <2>4. \A i \in 1..(N - 1) : /\ p_file_queue'[i] = p_file_queue[i + 1]
                              /\ i + 1 \in 1..N /\ p_file_queue[i + 1] # c
    <3> TAKE i \in 1..(N - 1)
    <3>1. i + 1 \in 1..N /\ 1 \in 1..N /\ 1 < i + 1
      BY <1>3
    <3>2. /\ p_file_queue[1] < p_file_queue[i + 1]
          /\ p_file_queue[1] \in Nat /\ p_file_queue[i + 1] \in Nat
      BY <1>5, <3>1
    <3>3. p_file_queue[1] = c /\ p_file_queue'[i] = p_file_queue[i + 1]
      BY <1>6, <2>1, <2>3
    <3> QED
      BY <3>1, <3>2, <3>3
  <2>5. c \notin Elems(p_file_queue')
    BY <2>3, <2>4 DEF Elems
  <2>6. Elems(p_file_queue') = Elems(p_file_queue) \ {c}
    BY <2>3, <2>5
  <2>7. nodes' = Elems(p_file_queue)'
    <3>1. nodes' = nodes \ {c}
      BY <1>0, <1>1, <1>14 DEF CloseVideo
    <3>2. Elems(p_file_queue)' = Elems(p_file_queue')
      BY DEF Elems
    <3> QED
      BY <1>5, <2>6, <3>1, <3>2
  <2>8. /\ \A i \in 1..Len(p_file_queue') : /\ p_file_queue'[i] \in 1..Len(videos')
                                            /\ videos'[p_file_queue'[i]].ts <= Now'
        /\ \A i, j \in 1..Len(p_file_queue') : i < j =>
             /\ p_file_queue'[i] < p_file_queue'[j]
             /\ videos'[p_file_queue'[i]].ts <= videos'[p_file_queue'[j]].ts
    <3>1. \A i, j \in 1..(N - 1) : i < j => i + 1 < j + 1
      BY <1>3
    <3> QED
      <4>1. \A i \in 1..(N - 1) : /\ p_file_queue'[i] \in 1..Len(videos')
                                  /\ videos'[p_file_queue'[i]].ts <= Now'
                                  /\ videos'[p_file_queue'[i]].ts
                                       = videos[p_file_queue[i + 1]].ts
        <5> SUFFICES ASSUME NEW i \in 1..(N - 1)
                     PROVE  /\ p_file_queue'[i] \in 1..Len(videos')
                            /\ videos'[p_file_queue'[i]].ts <= Now'
                            /\ videos'[p_file_queue'[i]].ts
                                 = videos[p_file_queue[i + 1]].ts
          OBVIOUS
        <5>1. i + 1 \in 1..N /\ p_file_queue'[i] = p_file_queue[i + 1]
          BY <2>4
        <5> DEFINE u == p_file_queue[i + 1]
        <5>2. u \in 1..Len(videos) /\ videos[u].ts <= rec.ts
          BY <1>5, <5>1
        <5> HIDE DEF u
        <5>3. videos'[u].ts = videos[u].ts /\ u \in 1..Len(videos')
          BY <1>12, <5>2
        <5> QED
          BY <1>10, <5>1, <5>2, <5>3 DEF u
      <4>2. \A i, j \in 1..(N - 1) : i < j =>
               /\ p_file_queue[i + 1] < p_file_queue[j + 1]
               /\ videos[p_file_queue[i + 1]].ts <= videos[p_file_queue[j + 1]].ts
        BY <1>5, <2>4, <3>1
      <4>3. Len(p_file_queue') = N - 1
        BY <2>3
      <4>4. ASSUME NEW i \in 1..(N - 1), NEW j \in 1..(N - 1), i < j
            PROVE  /\ p_file_queue'[i] < p_file_queue'[j]
                   /\ videos'[p_file_queue'[i]].ts <= videos'[p_file_queue'[j]].ts
        <5>1. p_file_queue'[i] = p_file_queue[i + 1] /\ p_file_queue'[j] = p_file_queue[j + 1]
          BY <2>4
        <5> QED
          BY <4>1, <4>2, <4>4, <5>1
      <4> QED
        BY <4>1, <4>3, <4>4
  <2>9. rec'.pc = "file" => /\ 1 \in 1..Len(p_file_queue')
                            /\ p_file_queue'[1] = rec'.cur
    <3> SUFFICES ASSUME p # N PROVE 1 \in 1..(N - 1) /\ p_file_queue'[1] = p_file_queue[p + 1]
      BY <1>9, <2>3
    <3>1. 1 \in 1..(N - 1)
      BY <1>3, <2>1
    <3> QED
      BY <2>1, <2>4, <3>1
  <2>10. TimesOK'
    <3>1. rec'.pc = "file" => \E k \in 1..Len(p_file_queue') :
            /\ p_file_queue'[k] = rec'.cur
            /\ \A j \in 1..(k - 1) : ~Expired(videos[p_file_queue[j]].ts)'
      <4> SUFFICES ASSUME rec'.pc = "file"
                   PROVE  /\ 1 \in 1..Len(p_file_queue')
                          /\ p_file_queue'[1] = rec'.cur
                          /\ \A j \in 1..(1 - 1) : ~Expired(videos[p_file_queue[j]].ts)'
        OBVIOUS
      <4> QED
        BY <2>9
    <3> QED
      BY <1>13, <2>7, <2>8, <3>1 DEF TimesOK
  <2>11. \A v : Listed(v)' <=> (Listed(v) /\ v # c)
    BY <2>6 DEF Listed, Elems
  <2>12. videos[c].ts + Window < rec.ts
    BY <1>3, <1>4, <1>7, <1>14, SMTT(30) DEF Expired
  <2>13. \A v \in nodes : v # c => v \in nodes'
    BY <1>0, <1>1, <1>14 DEF CloseVideo
  <2> QED
    BY <2>10, <2>11, <2>12, <2>13
<1>15. ASSUME ~Expired(videos[c].ts)
       PROVE  /\ TimesOK'
              /\ \A v \in nodes : v # c => v \in nodes'
              /\ \A v : Listed(v)' => Listed(v)
              /\ \A v : v # c /\ Listed(v) => Listed(v)'
              /\ ~Listed(c)' => videos[c].ts + Window < rec.ts
  \* the video stays
  <2>1. p_file_queue' = p_file_queue /\ nodes' = nodes /\ writers' = writers
    BY <1>1, <1>15
  <2>2. nodes' = Elems(p_file_queue)'
    BY <1>5, <2>1 DEF Elems
  <2>3. rec'.pc = "file" =>
          /\ p + 1 \in 1..N /\ p_file_queue[p + 1] = rec'.cur
          /\ \A j \in 1..((p + 1) - 1) : ~Expired(videos'[p_file_queue[j]].ts)
    <3> SUFFICES ASSUME p # N, NEW j \in 1..((p + 1) - 1)
                 PROVE  ~Expired(videos'[p_file_queue[j]].ts)
      BY <1>9
    <3>1. j \in 1..N /\ (j = p \/ j \in 1..(p - 1))
      BY <1>3
    <3>2. ~Expired(videos[p_file_queue[j]].ts)
      BY <1>6, <1>15, <3>1
    <3> QED
      BY <1>5, <1>12, <3>1, <3>2
  <2>4. rec'.pc = "file" => \E k \in 1..Len(p_file_queue') :
            /\ p_file_queue'[k] = rec'.cur
            /\ \A j \in 1..(k - 1) : ~Expired(videos[p_file_queue[j]].ts)'
    <3>1. \A j : Expired(videos[p_file_queue[j]].ts)' <=> Expired(videos'[p_file_queue[j]].ts)
      BY <1>9, <2>1 DEF Expired
    <3> QED
      BY <1>0, <2>1, <2>3, <3>1
  <2>5. /\ \A i \in 1..N : /\ p_file_queue[i] \in 1..Len(videos')
                           /\ videos'[p_file_queue[i]].ts <= Now'
        /\ \A i, j \in 1..N : i < j =>
             /\ p_file_queue[i] < p_file_queue[j]
             /\ videos'[p_file_queue[i]].ts <= videos'[p_file_queue[j]].ts
    BY <1>5, <1>10, <1>12
  <2>6. TimesOK'
    BY <1>0, <1>13, <2>1, <2>2, <2>4, <2>5 DEF TimesOK
  <2>7. \A v : Listed(v)' <=> Listed(v)
    BY <2>1 DEF Listed, Elems
  <2>8. Listed(c)'
    BY <1>0, <1>6, <2>7 DEF Listed, Elems
  <2> QED
    BY <1>3, <2>1, <2>6, <2>7, <2>8
<1>16. /\ TimesOK'
       /\ \A v \in nodes : v # c => v \in nodes'
       /\ \A v : Listed(v)' => Listed(v)
       /\ \A v : v # c /\ Listed(v) => Listed(v)'
       /\ ~Listed(c)' => videos[c].ts + Window < rec.ts
  <2>1. CASE Expired(videos[c].ts)
    BY <1>14, <2>1
  <2>2. CASE ~Expired(videos[c].ts)
    BY <1>15, <2>2
  <2> QED
    BY <2>1, <2>2
<1>17. /\ Listed(c) /\ Unwritten(c) /\ ~Unwritten(c)'
       /\ \A v : v # c /\ Listed(v) => (Unwritten(v)' <=> Unwritten(v))
  <2>1. Listed(c) /\ Unwritten(c)
    BY <1>0, <1>1, <1>6, <1>7 DEF Listed, Unwritten, Elems
  <2>2. p # N => c < p_file_queue[p + 1] /\ p_file_queue[p + 1] \in Nat
    <3> SUFFICES ASSUME p # N PROVE c < p_file_queue[p + 1] /\ p_file_queue[p + 1] \in Nat
      OBVIOUS
    <3>1. p + 1 \in 1..N /\ p < p + 1
      BY <1>3
    <3> QED
      BY <1>5, <1>6, <3>1
  <2>3. ~Unwritten(c)'
    BY <1>1, <1>7, <1>9, <2>2, <1>0 DEF Unwritten
  <2>4. ASSUME NEW v, v # c, Listed(v)
        PROVE  Unwritten(v)' <=> Unwritten(v)
    <3>1. PICK j \in 1..N : v = p_file_queue[j]
      BY <1>0, <2>4 DEF Listed, Elems
    <3>2. CASE j < p
      <4>1. v < c /\ v \in Nat
        BY <1>5, <1>6, <3>1, <3>2
      <4> QED
        BY <1>1, <1>7, <1>9, <2>2, <4>1, <1>0 DEF Unwritten
    <3>3. CASE p < j
      <4>1. p # N /\ p + 1 \in 1..N /\ (j = p + 1 \/ p + 1 < j)
        BY <1>3, <3>3
      <4>2. v >= p_file_queue[p + 1] /\ v \in Nat
        BY <1>5, <3>1, <4>1
      <4> QED
        BY <1>1, <1>7, <1>9, <2>2, <4>1, <4>2, <1>0 DEF Unwritten
    <3>4. j # p
      BY <1>6, <2>4, <3>1
    <3> QED
      BY <1>3, <3>2, <3>3, <3>4
  <2> QED
    BY <2>1, <2>3, <2>4
<1>18. rec'.pc = "file" => rec'.cur \in nodes'
  <2> SUFFICES ASSUME p # N PROVE p_file_queue[p + 1] \in nodes'
    BY <1>9
  <2>1. p + 1 \in 1..N /\ p < p + 1
    BY <1>3
  <2>2. p_file_queue[p + 1] \in nodes /\ p_file_queue[p + 1] # c
    BY <1>0, <1>5, <1>6, <2>1 DEF Elems
  <2> QED
    BY <1>16, <2>2
<1> QED
  BY <1>0, <1>16, <1>17, <1>18

LEMMA FileTimes ==
  ASSUME Base, TimesOK, File
  PROVE  TimesOK'
<1>1. /\ rec.pc = "file"
      /\ UNCHANGED <<clock, backs, camera, made, events, taken, start, cut>>
  BY DEF File
<1>2. CASE TurnDangles
  BY <1>1, <1>2, BreakTimes DEF File, Base
<1>3. CASE ~TurnDangles
  <2>1. Turn
    BY <1>3 DEF File
  <2> QED
    BY <1>1, <1>3, <2>1, TurnFacts
<1> QED
  BY <1>2, <1>3

\* The new video is the last of the list, and of the latest time.
LEMMA RecordTimes ==
  ASSUME Base, TimesOK, rec.pc = "event", rec.events > 0, Record, UNCHANGED clock
  PROVE  TimesOK'
<1>0. PICK v, N : v = Len(videos) + 1 /\ N = Len(p_file_queue)
  OBVIOUS
<1> DEFINE V == [ts : Times, start : Nat, frames : Seq(Frames)]
<1>1. Types /\ ListOK /\ EventsOK /\ QueuesOK
  BY DEF Base
<1>2. PICK w : w = [ts |-> rec.ts, start |-> start, frames |-> Before]
  OBVIOUS
<1>3. /\ clock' = clock
      /\ rec' = [rec EXCEPT !.events = @ - 1]
      /\ videos' = Append(videos, w)
      /\ p_file_queue' = Append(p_file_queue, v)
      /\ nodes' = nodes \cup {v}
  BY <1>0, <1>2 DEF Record
<1>4. /\ N \in Nat /\ Len(videos) \in Nat /\ rec.ts \in Nat /\ rec.ts \in Times
      /\ p_file_queue \in Seq(Videos) /\ videos \in Seq(V) /\ start \in Nat
      /\ v \in Videos
  <2>1. N \in Nat /\ Len(videos) \in Nat /\ rec.ts \in Nat /\ start \in Nat /\ rec.events \in Nat
    BY <1>0, <1>1, Parts
  <2>2. p_file_queue \in Seq(Videos) /\ videos \in Seq(V) /\ rec.ts \in Times \cup {0}
    BY <1>1 DEF Types
  <2>3. rec.ts > 0
    BY <1>1 DEF QueuesOK, Working
  <2>4. Len(videos) + rec.events \in 0..MaxVideos
    BY <1>1, VideosBound
  <2> QED
    BY <1>0, <2>1, <2>2, <2>3, <2>4, BoundAssumption DEF Videos
<1>5. Before \in Seq(Frames)
  <2>1. /\ Len(p_5s_frame_queue) \in Nat
        /\ \A i \in 1..Len(p_5s_frame_queue) : p_5s_frame_queue[i].frame \in Frames
    BY <1>1, Parts
  <2>2. Before \in [1..Len(p_5s_frame_queue) -> Frames]
    BY <2>1 DEF Before
  <2> QED
    BY <2>1, <2>2
<1>6. /\ rec'.pc = "event" /\ rec'.ts = rec.ts
  BY <1>1, <1>3 DEF Types
<1>7. Now = rec.ts /\ Now' = rec.ts
  BY <1>6 DEF Now
<1>9. w \in V /\ w.ts = rec.ts
  BY <1>2, <1>4, <1>5
<1> HIDE DEF V
<1>10. /\ \A u \in 1..Len(videos) : videos'[u] = videos[u]
       /\ videos'[v] = w
  BY <1>0, <1>3, <1>4, <1>9, AppendFacts
<1>12. /\ Len(p_file_queue') = N + 1
       /\ \A i \in 1..N : p_file_queue'[i] = p_file_queue[i]
       /\ p_file_queue'[N + 1] = v
       /\ Elems(p_file_queue') = Elems(p_file_queue) \cup {v}
  BY <1>0, <1>3, <1>4, AppendFacts, ElemsAppend, SMTT(30)
<1>13. nodes' = Elems(p_file_queue)'
  <2>1. Elems(p_file_queue)' = Elems(p_file_queue')
    BY DEF Elems
  <2> QED
    BY <1>3, <1>12, <2>1 DEF TimesOK
<1>14. \A i \in 1..N : /\ p_file_queue'[i] = p_file_queue[i]
                      /\ videos[p_file_queue[i]].ts <= rec.ts
                      /\ videos'[p_file_queue[i]] = videos[p_file_queue[i]]
  <2>1. \A i \in 1..N : /\ p_file_queue[i] \in 1..Len(videos)
                        /\ videos[p_file_queue[i]].ts <= rec.ts
    BY <1>0, <1>1, <1>7 DEF ListOK, TimesOK
  <2> QED
    BY <1>10, <1>12, <2>1
<1>15. \A i \in 1..(N + 1) : i \in 1..N \/ i = N + 1
  BY <1>4
<1>16. \A i \in 1..(N + 1) : videos'[p_file_queue'[i]].ts <= rec.ts
  <2> TAKE i \in 1..(N + 1)
  <2>1. CASE i \in 1..N
    BY <1>14, <2>1
  <2>2. CASE i = N + 1
    BY <1>4, <1>9, <1>10, <1>12, <2>2
  <2> QED
    BY <1>15, <2>1, <2>2
<1>17. ASSUME NEW i \in 1..(N + 1), NEW j \in 1..(N + 1), i < j
       PROVE  videos'[p_file_queue'[i]].ts <= videos'[p_file_queue'[j]].ts
  <2>1. i \in 1..N
    BY <1>4, <1>17
  <2>2. CASE j \in 1..N
    <3>1. videos[p_file_queue[i]].ts <= videos[p_file_queue[j]].ts
      BY <1>0, <1>17, <2>1, <2>2 DEF TimesOK
    <3> QED
      BY <1>14, <2>1, <2>2, <3>1
  <2>3. CASE j = N + 1
    <3>1. videos'[p_file_queue'[j]].ts = rec.ts
      BY <1>9, <1>10, <1>12, <2>3
    <3> QED
      BY <1>14, <2>1, <3>1
  <2> QED
    BY <1>15, <2>2, <2>3
<1>18. rec'.pc # "idle" => rec'.ts <= clock'
  BY <1>3, <1>6 DEF TimesOK
<1> QED
  BY <1>6, <1>7, <1>12, <1>13, <1>16, <1>17, <1>18 DEF TimesOK

LEMMA EventTimes ==
  ASSUME Base, TimesOK, Event
  PROVE  TimesOK'
<1>1. rec.pc = "event" /\ rec.events > 0 /\ UNCHANGED clock
  BY DEF Event
<1>2. CASE EventDangles
  BY <1>1, <1>2, BreakTimes DEF Event, Base
<1>3. CASE ~EventDangles
  <2>1. Record
    BY <1>3 DEF Event
  <2> QED
    BY <1>1, <2>1, RecordTimes
<1> QED
  BY <1>2, <1>3

\* The time of a frame that is done is over.
LEMMA DoneTimes ==
  ASSUME Base, TimesOK, Done
  PROVE  TimesOK'
<1>1. /\ p_file_queue' = p_file_queue /\ nodes' = nodes /\ videos' = videos
      /\ clock' = clock /\ rec.pc = "event" /\ rec'.pc = "idle"
  BY DEF Done, queues, heap, history, Idle
<1>2. Now = rec.ts /\ Now' = clock /\ rec.ts <= clock /\ rec.ts \in Nat /\ clock \in Nat
  BY <1>1, Parts DEF Now, TimesOK, Base
<1>3. \A i \in 1..Len(p_file_queue) : videos[p_file_queue[i]].ts \in Nat
  BY Parts DEF Base, ListOK
<1>4. \A i \in 1..Len(p_file_queue) : videos[p_file_queue[i]].ts <= clock
  BY <1>2, <1>3 DEF TimesOK
<1> QED
  BY <1>1, <1>2, <1>4 DEF TimesOK, Elems

LEMMA ClearTimes ==
  ASSUME TimesOK, ClearFe \/ Clear5s \/ ClearFile
  PROVE  TimesOK' /\ rec' = rec
<1>1. CASE ClearFe \/ Clear5s
  <2>1. /\ p_file_queue' = p_file_queue /\ nodes' = nodes /\ videos' = videos
        /\ clock' = clock /\ rec' = rec
    BY <1>1 DEF ClearFe, Clear5s, history
  <2> QED
    BY <2>1 DEF TimesOK, Elems, Now, Expired
<1>2. CASE ClearFile
  <2>1. nodes = Elems(p_file_queue)
    BY DEF TimesOK
  <2>2. /\ p_file_queue' = <<>> /\ Len(p_file_queue') = 0 /\ nodes' = {}
        /\ clock' = clock /\ rec' = rec
    BY <1>2, <2>1 DEF ClearFile
  <2> QED
    BY <2>2 DEF TimesOK, Elems
<1> QED
  BY <1>1, <1>2

\* Every step keeps it, but setting the clock back with a video open.
LEMMA StepTimes ==
  ASSUME Base, TimesOK, [Next]_vars, ~shifted'
  PROVE  TimesOK'
<1>0. clock \in Nat
  BY Parts DEF Base
<1>1. CASE Tick \/ Look \/ Miss \/ Delete \/ CloseBegin \/ CloseJoin \/ CloseFlag \/ Open
           \/ UNCHANGED vars
  BY <1>1, CalmSteps, CalmTimes
<1>2. CASE SetDate
  BY <1>2, SetDateTimes
<1>3. ASSUME NEW n \in 0..MaxVideos, AddFrame(n) PROVE TimesOK'
  BY <1>3, AddFrameTimes
<1>4. CASE Take
  BY <1>0, <1>4, TakeTimes
<1>5. CASE Keep
  BY <1>5, KeepTimes
<1>6. CASE File
  BY <1>6, FileTimes
<1>7. CASE Event
  BY <1>7, EventTimes
<1>8. CASE Done
  BY <1>8, DoneTimes
<1>9. CASE ClearFe \/ Clear5s \/ ClearFile
  BY <1>9, ClearTimes
<1> QED
  BY <1>1, <1>2, <1>3, <1>4, <1>5, <1>6, <1>7, <1>8, <1>9 DEF Next, RecStep, CloseStep

-----------------------------------------------------------------------------
(* What holds as long as the recorder is idle, too, while the queues are     *)
(* emptied: every step keeps it                                              *)

\* The frame the recorder is on belongs to the last seconds by then, and is allocated.
LEMMA KeptFrame ==
  ASSUME Types, HeapOK, FeOK, KeptOK, rec.pc \in {"file", "event"}
  PROVE  rec.frame \in frames
<1> DEFINE L == Len(p_5s_frame_queue)
<1>1. p_5s_frame_queue # <<>> /\ Live /\ rec.frame = Last /\ End = Last
  BY DEF KeptOK, FeOK, End
<1>2. L \in 1..L /\ L \in Nat /\ made \in Nat /\ Len(p_f_e_queue) \in Nat
  BY <1>1, Parts, EmptySeq DEF Types
<1>3. p_5s_frame_queue[L].frame = End - L + L
  BY <1>1, <1>2 DEF KeptOK
<1>4. p_5s_frame_queue[L].frame = Last
  BY <1>1, <1>2, <1>3 DEF Last
<1> QED
  BY <1>1, <1>2, <1>4 DEF HeapOK, FramesOf

LEMMA InitCore == Init => Core
<1> SUFFICES ASSUME Init PROVE Core
  OBVIOUS
<1>1. /\ close = "on" /\ p_f_e_queue = <<>> /\ p_5s_frame_queue = <<>>
      /\ rec = Idle /\ videos = <<>> /\ made = 0 /\ taken = [f \in Frames |-> 0]
  BY DEF Init
<1>2. Len(p_f_e_queue) = 0 /\ Len(p_5s_frame_queue) = 0 /\ Len(videos) = 0
  BY <1>1
<1>3. FeOK /\ KeptOK
  BY <1>1, <1>2 DEF FeOK, KeptOK, Last, Live, Idle
<1>4. RunsOK /\ CoversOK
  BY <1>1, <1>2 DEF RunsOK, CoversOK
<1>5. TakenOK
  BY <1>1 DEF TakenOK
<1> QED
  BY <1>3, <1>4, <1>5 DEF Core

LEMMA CalmCore ==
  ASSUME Base, TimesOK, Core, Calm
  PROVE  Core'
<1>1. /\ p_f_e_queue' = p_f_e_queue /\ p_5s_frame_queue' = p_5s_frame_queue
      /\ p_file_queue' = p_file_queue /\ rec' = rec
      /\ frames' = frames /\ nodes' = nodes /\ writers' = writers
      /\ videos' = videos /\ made' = made /\ events' = events /\ taken' = taken
      /\ start' = start /\ cut' = cut
      /\ clock' \in Times /\ clock' >= clock
      /\ (Live' <=> Live)
      /\ close' = "clear_file" => close = "clear_file"
  BY DEF Calm, queues, heap, history
<1>2. Types /\ QueuesOK /\ HeapOK /\ ListOK /\ TimesOK /\ FeOK /\ KeptOK /\ RunsOK
      /\ TakenOK /\ CoversOK
  BY DEF Base, Core
<1>3. /\ clock' \in Nat /\ clock \in Nat /\ rec.ts \in Nat
      /\ Window \in Nat
      /\ \A v \in 1..Len(videos) : videos[v].ts \in Nat
      /\ \A f \in Frames : taken[f] \in Nat
      /\ \A i \in 1..Len(p_file_queue) : p_file_queue[i] \in Videos
  BY <1>1, <1>2, Parts, SMTT(30) DEF Times
<1>5. Last' = Last /\ End' = End
  BY <1>1 DEF Last, End
<1>6. Now' >= Now /\ Now \in Nat /\ Now' \in Nat
  BY <1>1, <1>3 DEF Now
<1>7. FeOK'
  BY <1>1, <1>2, <1>3, <1>5 DEF FeOK
<1>8. KeptOK'
  BY <1>1, <1>2, <1>5 DEF KeptOK
<1>11. \A v : (Listed(v)' <=> Listed(v)) /\ (Unwritten(v)' <=> Unwritten(v))
  BY <1>1 DEF Listed, Unwritten, Elems
<1>12. RunsOK'
  BY <1>1, <1>2, <1>5, <1>11 DEF RunsOK
<1>14. TakenOK'
  <2> SUFFICES ASSUME NEW f \in Frames, taken[f] # 0
               PROVE  /\ f <= Last
                      /\ f >= start =>
                           /\ taken[f] <= Now'
                           /\ \/ f \in FramesOf(p_5s_frame_queue)
                              \/ rec.pc = "keep" /\ f = rec.frame
                              \/ taken[f] + Window < Now'
    BY <1>1, <1>5 DEF TakenOK, FramesOf
  <2> QED
    BY <1>2, <1>3, <1>6 DEF TakenOK
<1>15. CoversOK'
  <2>1. \A v \in 1..Len(videos) \ cut : ~Listed(v) => videos[v].ts + Window < Now'
    BY <1>2, <1>3, <1>6 DEF CoversOK
  <2> QED
    BY <1>1, <1>2, <1>11, <2>1 DEF CoversOK, Elems
<1> QED
  BY <1>7, <1>8, <1>12, <1>14, <1>15 DEF Core

\* The clock may go back while no video is open or begun.
LEMMA SetDateCore ==
  ASSUME Base, TimesOK, Core, SetDate, ~shifted'
  PROVE  Core'
<1>1. /\ p_f_e_queue' = p_f_e_queue /\ p_5s_frame_queue' = p_5s_frame_queue
      /\ p_file_queue' = p_file_queue /\ rec' = rec
      /\ frames' = frames /\ nodes' = nodes /\ writers' = writers
      /\ videos' = videos /\ made' = made /\ events' = events /\ taken' = taken
      /\ close' = close /\ exist' = exist
      /\ start' = made + 1 /\ cut' = 1..Len(videos)
      /\ clock > 1 /\ clock' = clock - 1 /\ backs < MaxBack /\ backs' = backs + 1
      /\ p_file_queue = <<>> /\ rec.pc = "idle"
  BY DEF SetDate, queues, heap, camera
<1>2. Types /\ QueuesOK /\ HeapOK /\ ListOK /\ TimesOK /\ FeOK /\ KeptOK /\ RunsOK
      /\ TakenOK /\ CoversOK
  BY DEF Base, Core
<1>3. Last' = Last /\ End' = End /\ (Live' <=> Live)
  BY <1>1 DEF Last, End, Live
<1>5. FeOK' /\ KeptOK'
  BY <1>1, <1>2, <1>3 DEF FeOK, KeptOK
<1>8. \A v : (Listed(v)' <=> Listed(v)) /\ (Unwritten(v)' <=> Unwritten(v))
  BY <1>1 DEF Listed, Unwritten, Elems
<1>9. RunsOK'
  BY <1>1, <1>2, <1>3, <1>8 DEF RunsOK
<1>11. TakenOK'
  <2>1. made \in Nat /\ Len(p_f_e_queue) \in Nat
    BY <1>2, Parts
  <2>2. \A f \in Frames : taken[f] # 0 => f <= Last /\ ~(f >= made + 1)
    BY <1>2, <2>1, BoundAssumption DEF TakenOK, Last, Frames
  <2> QED
    BY <1>1, <1>3, <2>2 DEF TakenOK
<1>12. CoversOK'
  BY <1>1 DEF CoversOK
<1> QED
  BY <1>5, <1>9, <1>11, <1>12 DEF Core

LEMMA AddFrameCore ==
  ASSUME Base, TimesOK, Core, NEW n \in 0..MaxVideos, AddFrame(n)
  PROVE  Core'
<1> DEFINE f == made + 1
           e == [frame |-> f, events |-> n]
<1>1. /\ p_5s_frame_queue' = p_5s_frame_queue /\ p_file_queue' = p_file_queue /\ rec' = rec
      /\ nodes' = nodes /\ writers' = writers /\ clock' = clock /\ backs' = backs
      /\ videos' = videos /\ taken' = taken /\ start' = start /\ cut' = cut
      /\ close' = close /\ exist' = exist
      /\ p_f_e_queue' = Append(p_f_e_queue, e) /\ frames' = frames \cup {f}
      /\ made' = f /\ events' = events + n
      /\ close \in {"on", "closing"} /\ f \in Frames /\ events + n <= MaxVideos
      /\ Len(p_f_e_queue) < QueueMax
  BY DEF AddFrame, camera, Room
<1>2. Types /\ QueuesOK /\ HeapOK /\ ListOK /\ TimesOK /\ FeOK /\ KeptOK /\ RunsOK
      /\ TakenOK /\ CoversOK
  BY DEF Base, Core
<1>3. /\ made \in Nat /\ events \in Nat /\ Len(p_f_e_queue) \in Nat /\ MaxVideos \in Nat
      /\ MaxFrames \in Nat /\ QueueMax \in Nat
  BY <1>2, Parts, SizeAssumption
<1>4. /\ e \in [frame : Frames, events : 0..MaxVideos]
      /\ p_f_e_queue \in Seq([frame : Frames, events : 0..MaxVideos])
      /\ e.frame = f /\ e.events = n
  BY <1>1, <1>2 DEF Types
<1> HIDE DEF e
<1>5. /\ p_f_e_queue' \in Seq([frame : Frames, events : 0..MaxVideos])
      /\ Len(p_f_e_queue') = Len(p_f_e_queue) + 1
      /\ \A i \in 1..Len(p_f_e_queue) : p_f_e_queue'[i] = p_f_e_queue[i]
      /\ p_f_e_queue'[Len(p_f_e_queue) + 1] = e
  BY <1>1, <1>4, AppendFacts
<1>6. Last' = Last /\ End' = End /\ (Live' <=> Live) /\ Now' = Now
  BY <1>1, <1>3, <1>5 DEF Last, End, Live, Now
<1>8. FeOK'
  <2>1. \A i \in 1..Len(p_f_e_queue') : p_f_e_queue'[i].frame = Last + i
    <3>1. \A i \in 1..Len(p_f_e_queue) : p_f_e_queue[i].frame = Last + i
      BY <1>2 DEF FeOK
    <3>2. e.frame = Last + (Len(p_f_e_queue) + 1)
      BY <1>3, <1>4 DEF Last
    <3> QED
      BY <1>3, <1>5, <3>1, <3>2
  <2>2. Live
    BY <1>1 DEF Live
  <2> QED
    BY <1>1, <1>2, <1>6, <2>1, <2>2 DEF FeOK
<1>9. KeptOK'
  BY <1>1, <1>2, <1>6 DEF KeptOK
<1>12. \A v : (Listed(v)' <=> Listed(v)) /\ (Unwritten(v)' <=> Unwritten(v))
  BY <1>1 DEF Listed, Unwritten, Elems
<1>13. RunsOK'
  BY <1>1, <1>2, <1>6, <1>12 DEF RunsOK
<1>15. TakenOK'
  BY <1>1, <1>2, <1>6 DEF TakenOK, FramesOf
<1>16. CoversOK'
  BY <1>1, <1>2, <1>6, <1>12 DEF CoversOK, Elems
<1> QED
  BY <1>8, <1>9, <1>13, <1>15, <1>16 DEF Core

LEMMA TakeCore ==
  ASSUME Base, TimesOK, Core, Take, ~Clearing
  PROVE  Core'
<1> DEFINE h == Head(p_f_e_queue)
           L == Len(p_f_e_queue)
<1>1. /\ p_5s_frame_queue' = p_5s_frame_queue /\ p_file_queue' = p_file_queue
      /\ frames' = frames /\ nodes' = nodes /\ writers' = writers
      /\ clock' = clock /\ backs' = backs /\ videos' = videos /\ made' = made
      /\ events' = events /\ start' = start /\ cut' = cut
      /\ close' = close /\ exist' = exist
      /\ rec.pc = "idle" /\ p_f_e_queue # <<>>
      /\ rec' = [pc |-> "keep", frame |-> h.frame, events |-> h.events, ts |-> clock,
                 cur |-> 0]
      /\ p_f_e_queue' = Tail(p_f_e_queue)
      /\ taken' = [taken EXCEPT ![h.frame] = clock]
      /\ Live
  BY DEF Take, camera, heap, Live, Clearing
<1>2. Types /\ QueuesOK /\ HeapOK /\ ListOK /\ TimesOK /\ FeOK /\ KeptOK /\ RunsOK
      /\ TakenOK /\ CoversOK
  BY DEF Base, Core
<1>3. /\ made \in Nat /\ events \in Nat /\ L \in Nat /\ MaxVideos \in Nat
      /\ MaxFrames \in Nat /\ clock \in Nat /\ clock \in Times /\ clock > 0
      /\ Window \in Nat /\ Len(p_5s_frame_queue) \in Nat
      /\ rec.events \in Nat /\ Len(videos) \in Nat
      /\ \A v \in 1..Len(videos) : videos[v].ts \in Nat
      /\ taken \in [Frames -> Times \cup {0}]
      /\ \A f \in Frames : taken[f] \in Nat
  <2>1. clock \in Times /\ taken \in [Frames -> Times \cup {0}]
    BY <1>2 DEF Types
  <2> QED
    BY <1>2, <2>1, Parts, SMTT(60) DEF Times
<1>4. /\ p_f_e_queue \in Seq([frame : Frames, events : 0..MaxVideos])
      /\ h \in [frame : Frames, events : 0..MaxVideos]
      /\ p_f_e_queue' \in Seq([frame : Frames, events : 0..MaxVideos])
      /\ L > 0 /\ Len(p_f_e_queue') = L - 1
      /\ \A i \in 1..(L - 1) : p_f_e_queue'[i] = p_f_e_queue[i + 1]
      /\ h = p_f_e_queue[1]
  <2>1. p_f_e_queue \in Seq([frame : Frames, events : 0..MaxVideos]) /\ p_f_e_queue # <<>>
    BY <1>1, <1>2 DEF Types
  <2>2. /\ L \in Nat \ {0}
        /\ h = p_f_e_queue[1] /\ h \in [frame : Frames, events : 0..MaxVideos]
        /\ Tail(p_f_e_queue) \in Seq([frame : Frames, events : 0..MaxVideos])
        /\ Len(Tail(p_f_e_queue)) = L - 1
        /\ \A i \in 1..(L - 1) : Tail(p_f_e_queue)[i] = p_f_e_queue[i + 1]
    BY <2>1, TailFacts
  <2> QED
    BY <1>1, <2>1, <2>2
<1>5. h.frame \in Frames /\ h.events \in 0..MaxVideos /\ h.frame = Last + 1
  BY <1>2, <1>3, <1>4 DEF FeOK
<1> HIDE DEF h
<1>6. /\ rec'.pc = "keep" /\ rec'.frame = h.frame /\ rec'.events = h.events
      /\ rec'.ts = clock /\ rec'.cur = 0
  BY <1>1
<1>7. /\ Last' = Last + 1 /\ End' = Last /\ End = Last /\ Live' /\ Now' = clock /\ Now = clock
      /\ Last \in Nat
  BY <1>1, <1>2, <1>3, <1>4, <1>6 DEF Last, End, Live, Now, FeOK
<1>8. /\ taken'[h.frame] = clock
      /\ \A f \in Frames : f # h.frame => taken'[f] = taken[f]
      /\ taken' \in [Frames -> Times \cup {0}]
  BY <1>1, <1>3, <1>5
<1>10. FeOK'
  <2>1. \A i \in 1..Len(p_f_e_queue') : p_f_e_queue'[i].frame = Last' + i
    <3> SUFFICES ASSUME NEW i \in 1..Len(p_f_e_queue')
                 PROVE  p_f_e_queue'[i].frame = Last' + i
      OBVIOUS
    <3>1. i \in 1..(L - 1) /\ i + 1 \in 1..L
      BY <1>3, <1>4
    <3>2. p_f_e_queue[i + 1].frame = Last + (i + 1)
      BY <1>2, <3>1 DEF FeOK
    <3>3. p_f_e_queue'[i].frame = Last + (i + 1)
      BY <1>4, <3>1, <3>2
    <3> QED
      BY <1>7, <3>1, <3>3
  <2> QED
    BY <1>1, <1>3, <1>5, <1>6, <1>7, <1>8, <2>1 DEF FeOK
<1>11. \A i \in 1..Len(p_5s_frame_queue) :
          /\ p_5s_frame_queue[i].frame = Last - Len(p_5s_frame_queue) + i
          /\ p_5s_frame_queue[i].frame # h.frame
          /\ p_5s_frame_queue[i].frame \in Frames
  <2>1. \A i \in 1..Len(p_5s_frame_queue) :
          /\ p_5s_frame_queue[i].frame = Last - Len(p_5s_frame_queue) + i
          /\ p_5s_frame_queue[i].frame \in Frames
    BY <1>1, <1>2, <1>7, Parts DEF KeptOK
  <2> QED
    BY <2>1, <1>3, <1>5, <1>7
<1>12. KeptOK'
  <2>1. \A i \in 1..Len(p_5s_frame_queue) :
          p_5s_frame_queue[i].ts = taken'[p_5s_frame_queue[i].frame]
    BY <1>2, <1>8, <1>11 DEF KeptOK
  <2> QED
    BY <1>1, <1>2, <1>6, <1>7, <1>11, <2>1 DEF KeptOK
<1>15. \A v : (Listed(v)' <=> Listed(v)) /\ Unwritten(v)' /\ ~Unwritten(v)
  BY <1>1, <1>6 DEF Listed, Unwritten, Elems
<1>16. RunsOK'
  <2> SUFFICES ASSUME NEW v \in 1..Len(videos)
               PROVE  /\ \A i \in 2..Len(videos[v].frames) :
                           videos[v].frames[i] = videos[v].frames[i - 1] + 1
                      /\ Listed(v) =>
                           /\ videos[v].frames # <<>>
                           /\ videos[v].frames[Len(videos[v].frames)] = Last' - 1
    BY <1>1, <1>15 DEF RunsOK
  <2> QED
    BY <1>1, <1>2, <1>7, <1>15 DEF RunsOK
<1>18. TakenOK'
  <2> SUFFICES ASSUME NEW f \in Frames, taken'[f] # 0
               PROVE  /\ f <= Last'
                      /\ f >= start =>
                           /\ taken'[f] <= Now'
                           /\ \/ f \in FramesOf(p_5s_frame_queue)
                              \/ f = rec'.frame
                              \/ taken'[f] + Window < Now'
    BY <1>1, <1>6 DEF TakenOK, FramesOf
  <2>1. CASE f = h.frame
    BY <2>1, <1>3, <1>5, <1>6, <1>7, <1>8
  <2>2. CASE f # h.frame
    <3>1. taken'[f] = taken[f] /\ f \in Nat
      BY <2>2, <1>8 DEF Frames
    <3> QED
      BY <3>1, <1>1, <1>2, <1>7 DEF TakenOK
  <2> QED
    BY <2>1, <2>2
<1>19. CoversOK'
  <2> SUFFICES ASSUME NEW v \in 1..Len(videos) \ cut
               PROVE  /\ \A f \in Frames :
                           /\ taken'[f] # 0 /\ f >= videos[v].start
                           /\ taken'[f] <= videos[v].ts + Window
                           /\ videos[v].ts <= taken'[f] + Window
                           => f \in Elems(videos[v].frames) \/ (Listed(v) /\ f = rec'.frame)
                      /\ ~Listed(v) => videos[v].ts + Window < Now'
    BY <1>1, <1>15 DEF CoversOK, Elems
  <2>1. ~Listed(v) => videos[v].ts + Window < clock
    BY <1>2, <1>7 DEF CoversOK
  <2>2. ASSUME NEW f \in Frames, taken'[f] # 0, f >= videos[v].start,
               taken'[f] <= videos[v].ts + Window, videos[v].ts <= taken'[f] + Window
        PROVE  f \in Elems(videos[v].frames) \/ (Listed(v) /\ f = rec'.frame)
    <3>1. CASE f = h.frame
      <4>1. ~(videos[v].ts + Window < clock)
        BY <2>2, <3>1, <1>3, <1>8
      <4> QED
        BY <2>1, <3>1, <4>1, <1>6
    <3>2. CASE f # h.frame
      <4>1. taken'[f] = taken[f]
        BY <3>2, <1>8
      <4>2. /\ taken[f] # 0 /\ taken[f] <= videos[v].ts + Window
            /\ videos[v].ts <= taken[f] + Window
        BY <4>1, <2>2
      <4>3. f \in Elems(videos[v].frames) \/ Unwritten(v)
        BY <4>2, <2>2, <1>2 DEF CoversOK
      <4> QED
        BY <4>3, <1>1 DEF Unwritten
    <3> QED
      BY <3>1, <3>2
  <2> QED
    BY <2>1, <2>2, <1>7
<1> QED
  BY <1>10, <1>12, <1>16, <1>18, <1>19 DEF Core

LEMMA KeepCore ==
  ASSUME Base, TimesOK, Core, Keep
  PROVE  Core'
<1> DEFINE L == Len(p_5s_frame_queue)
           e == [frame |-> rec.frame, ts |-> rec.ts]
           E == [frame : Frames, ts : Times]
<1>1. /\ p_f_e_queue' = p_f_e_queue /\ p_file_queue' = p_file_queue
      /\ nodes' = nodes /\ writers' = writers
      /\ clock' = clock /\ backs' = backs /\ videos' = videos /\ made' = made
      /\ events' = events /\ start' = start /\ cut' = cut /\ taken' = taken
      /\ close' = close /\ exist' = exist
      /\ rec.pc = "keep"
      /\ p_5s_frame_queue' = Append(SubSeq(p_5s_frame_queue, Len(Stale) + 1, L), e)
      /\ frames' = frames \ FramesOf(Stale)
      /\ rec' = [rec EXCEPT !.pc = IF p_file_queue = <<>> THEN "event" ELSE "file",
                            !.cur = IF p_file_queue = <<>> THEN 0 ELSE Head(p_file_queue)]
  BY DEF Keep, camera, history
<1>2. Types /\ QueuesOK /\ HeapOK /\ ListOK /\ TimesOK /\ FeOK /\ KeptOK /\ RunsOK
      /\ TakenOK /\ CoversOK
  BY DEF Base, Core
<1>3. /\ made \in Nat /\ Len(p_f_e_queue) \in Nat /\ L \in Nat /\ Window \in Nat
      /\ Len(p_file_queue) \in Nat /\ clock \in Nat
      /\ \A i \in 1..Len(p_file_queue) : p_file_queue[i] \in Videos
      /\ p_file_queue \in Seq(Videos)
      /\ \A f \in Frames : taken[f] \in Nat
      /\ \A i \in 1..L : p_5s_frame_queue[i].frame \in Frames
      /\ \A v \in Videos : v \in Nat /\ v > 0
  <2>1. p_file_queue \in Seq(Videos) /\ \A v \in Videos : v \in Nat /\ v > 0
    BY <1>2, BoundAssumption DEF Types, Videos
  <2> QED
    BY <1>2, <2>1, Parts
<1>4. /\ rec.frame = Last /\ Last \in Nat /\ Last > 0 /\ rec.ts > 0 /\ rec.ts <= clock
      /\ taken[rec.frame] = rec.ts /\ Live /\ rec.frame \in Frames /\ rec.ts \in Times
      /\ rec.ts \in Nat /\ rec.events \in 0..MaxVideos
  <2>1. /\ rec.frame = Last /\ Last \in Int /\ Last > 0 /\ rec.ts > 0 /\ rec.ts <= clock
        /\ taken[rec.frame] = rec.ts /\ Live
    BY <1>1, <1>2, <1>3 DEF FeOK, Last, QueuesOK, Working, TimesOK
  <2>2. /\ rec.frame \in Frames \cup {0} /\ rec.ts \in Times \cup {0}
        /\ rec.events \in 0..MaxVideos
    BY <1>2 DEF Types
  <2> QED
    BY <2>1, <2>2 DEF Times
<1>5. PICK n \in 0..L : /\ Len(Stale) = n
                        /\ \A i \in 1..n : /\ Stale[i] = p_5s_frame_queue[i]
                                           /\ Expired(p_5s_frame_queue[i].ts)
  BY <1>2, StaleFacts
<1> DEFINE K == SubSeq(p_5s_frame_queue, n + 1, L)
<1>6. /\ K \in Seq(E) /\ Len(K) = L - n
      /\ \A i \in 1..(L - n) : K[i] = p_5s_frame_queue[n + i]
  <2>1. \A i \in (n + 1)..L : p_5s_frame_queue[i] \in E
    <3>1. \A i \in 1..L : p_5s_frame_queue[i] \in E
      BY <1>2, ElementOfSeq DEF Types
    <3>2. \A i \in (n + 1)..L : i \in 1..L
      BY <1>3
    <3> QED
      BY <3>1, <3>2
  <2>2. n + 1 \in Int /\ L \in Int
    BY <1>3
  <2>3. /\ K \in Seq(E) /\ Len(K) = IF n + 1 <= L THEN L - (n + 1) + 1 ELSE 0
        /\ \A i \in 1..(L - (n + 1) + 1) : K[i] = p_5s_frame_queue[n + 1 + i - 1]
    BY <2>1, <2>2, SubSeqProperties
  <2>4. Len(K) = L - n /\ L - (n + 1) + 1 = L - n
    BY <1>3, <2>3, SMTT(30)
  <2>5. \A i \in 1..(L - n) : n + 1 + i - 1 = n + i
    BY <1>3
  <2> QED
    BY <2>3, <2>4, <2>5
<1>7. e \in E /\ e.frame = rec.frame /\ e.ts = rec.ts
  BY <1>4
<1>8. p_5s_frame_queue' = Append(K, e)
  BY <1>1, <1>5
<1> HIDE DEF K, e, E
<1>9. /\ p_5s_frame_queue' \in Seq(E) /\ p_5s_frame_queue' # <<>>
      /\ Len(p_5s_frame_queue') = L - n + 1
      /\ \A i \in 1..(L - n) : p_5s_frame_queue'[i] = K[i]
      /\ p_5s_frame_queue'[L - n + 1] = e
      /\ FramesOf(p_5s_frame_queue)' = FramesOf(K) \cup {rec.frame}
  <2>1. FramesOf(Append(K, e)) = FramesOf(K) \cup {e.frame}
    BY <1>6, <1>7, FramesAppend
  <2>2. FramesOf(p_5s_frame_queue)' = FramesOf(Append(K, e))
    BY <1>8 DEF FramesOf
  <2>3. /\ Append(K, e) \in Seq(E) /\ Append(K, e) # <<>>
        /\ Len(Append(K, e)) = Len(K) + 1
        /\ \A i \in 1..Len(K) : Append(K, e)[i] = K[i]
        /\ Append(K, e)[Len(K) + 1] = e
    <3>1. K \in Seq(E) /\ e \in E
      BY <1>6, <1>7
    <3> QED
      BY <3>1, AppendFacts
  <2> QED
    BY <1>6, <1>7, <1>8, <2>1, <2>2, <2>3
<1>10. /\ rec'.pc = (IF p_file_queue = <<>> THEN "event" ELSE "file")
       /\ rec'.frame = rec.frame /\ rec'.ts = rec.ts /\ rec'.events = rec.events
       /\ rec'.cur = (IF p_file_queue = <<>> THEN 0 ELSE Head(p_file_queue))
  BY <1>1, <1>2 DEF Types
<1>11. p_file_queue # <<>> => /\ Len(p_file_queue) > 0 /\ Head(p_file_queue) = p_file_queue[1]
                              /\ Head(p_file_queue) \in Videos
  BY <1>3, TailFacts
<1>12. /\ Last' = Last /\ End = Last - 1 /\ End' = Last /\ Live' /\ Now = rec.ts
       /\ Now' = rec.ts
  BY <1>1, <1>4, <1>10 DEF Last, End, Live, Now
<1>13. /\ \A i \in 1..L : /\ p_5s_frame_queue[i].frame = Last - 1 - L + i
                          /\ p_5s_frame_queue[i].ts = taken[p_5s_frame_queue[i].frame]
  BY <1>2, <1>4, <1>12 DEF KeptOK
<1>14. /\ \A i \in 1..n : i \in 1..L
       /\ \A i \in 1..(L - n) : n + i \in 1..L
       /\ \A i \in 1..L : i \notin 1..n => i - n \in 1..(L - n) /\ n + (i - n) = i
  BY <1>3
<1>16. FeOK'
  BY <1>1, <1>2, <1>4, <1>10, <1>12 DEF FeOK
<1>17. KeptOK'
  <2> SUFFICES ASSUME NEW i \in 1..Len(p_5s_frame_queue')
               PROVE  /\ p_5s_frame_queue'[i].frame = End' - Len(p_5s_frame_queue') + i
                      /\ p_5s_frame_queue'[i].ts = taken[p_5s_frame_queue'[i].frame]
    <3>1. close' # "clear_file"
      BY <1>1, <1>4 DEF Live
    <3>2. rec'.pc = "file" => rec'.cur \in nodes'
      <4> SUFFICES ASSUME p_file_queue # <<>> PROVE Head(p_file_queue) \in nodes
        BY <1>1, <1>10
      <4>1. 1 \in 1..Len(p_file_queue) /\ Head(p_file_queue) = p_file_queue[1]
        BY <1>3, <1>11
      <4> QED
        BY <1>2, <4>1 DEF TimesOK, Elems
    <3> QED
      BY <1>1, <1>9, <3>1, <3>2 DEF KeptOK
  <2>1. CASE i = L - n + 1
    <3>1. p_5s_frame_queue'[i].frame = Last /\ p_5s_frame_queue'[i].ts = rec.ts
      BY <1>4, <1>7, <1>9, <2>1
    <3>2. Last = End' - Len(p_5s_frame_queue') + i
      BY <1>3, <1>4, <1>9, <1>12, <2>1
    <3> QED
      BY <1>4, <3>1, <3>2
  <2>2. CASE i # L - n + 1
    <3>1. i \in 1..(L - n)
      <4>1. L - n \in Nat /\ Len(p_5s_frame_queue') = L - n + 1
        BY <1>3, <1>9
      <4> QED
        BY <2>2, <4>1
    <3>2. p_5s_frame_queue'[i] = p_5s_frame_queue[n + i] /\ n + i \in 1..L
      BY <1>6, <1>9, <1>14, <3>1
    <3>3. /\ p_5s_frame_queue[n + i].frame = Last - 1 - L + (n + i)
          /\ p_5s_frame_queue[n + i].ts = taken[p_5s_frame_queue[n + i].frame]
      BY <1>13, <3>2
    <3>4. Last - 1 - L + (n + i) = End' - Len(p_5s_frame_queue') + i
      BY <1>3, <1>4, <1>9, <1>12, <3>1
    <3> QED
      BY <3>2, <3>3, <3>4
  <2> QED
    BY <2>1, <2>2
<1>18. /\ \A i \in 1..n : p_5s_frame_queue[i].frame \in FramesOf(Stale)
       /\ \A x \in FramesOf(Stale) : \E i \in 1..n : x = p_5s_frame_queue[i].frame
       /\ \A i \in 1..(L - n) : p_5s_frame_queue[n + i].frame \in FramesOf(K)
       /\ \A x \in FramesOf(K) : \E i \in 1..(L - n) : x = p_5s_frame_queue[n + i].frame
       /\ \A x \in FramesOf(p_5s_frame_queue) : \E i \in 1..L : x = p_5s_frame_queue[i].frame
       /\ \A i \in 1..L : p_5s_frame_queue[i].frame \in FramesOf(p_5s_frame_queue)
  <2>3. /\ \A i \in 1..n : p_5s_frame_queue[i].frame \in FramesOf(Stale)
        /\ \A x \in FramesOf(Stale) : \E i \in 1..n : x = p_5s_frame_queue[i].frame
    BY <1>5 DEF FramesOf
  <2>4. /\ \A i \in 1..(L - n) : p_5s_frame_queue[n + i].frame \in FramesOf(K)
        /\ \A x \in FramesOf(K) : \E i \in 1..(L - n) : x = p_5s_frame_queue[n + i].frame
    BY <1>6 DEF FramesOf
  <2> QED
    BY <2>3, <2>4 DEF FramesOf
<1>19. FramesOf(p_5s_frame_queue) = FramesOf(Stale) \cup FramesOf(K)
  <2>1. \A i \in 1..L : p_5s_frame_queue[i].frame \in FramesOf(Stale) \cup FramesOf(K)
    <3> TAKE i \in 1..L
    <3>1. CASE i \in 1..n
      BY <1>18, <3>1
    <3>2. CASE i \notin 1..n
      BY <1>14, <1>18, <3>2
    <3> QED
      BY <3>1, <3>2
  <2>2. \A x \in FramesOf(Stale) : x \in FramesOf(p_5s_frame_queue)
    BY <1>14, <1>18
  <2>3. \A x \in FramesOf(K) : x \in FramesOf(p_5s_frame_queue)
    BY <1>14, <1>18
  <2> QED
    BY <1>18, <2>1, <2>2, <2>3
<1>23. \A v : /\ Listed(v)' <=> Listed(v)
              /\ Unwritten(v)
              /\ Listed(v) => Unwritten(v)'
  <2> SUFFICES ASSUME NEW v, Listed(v) PROVE rec'.pc = "file" /\ v >= rec'.cur
    BY <1>1 DEF Listed, Unwritten, Elems
  <2>1. PICK i \in 1..Len(p_file_queue) : v = p_file_queue[i]
    BY DEF Listed, Elems
  <2>2. p_file_queue # <<>> /\ 1 \in 1..Len(p_file_queue)
    BY <1>3, <2>1
  <2>3. i = 1 \/ p_file_queue[1] < p_file_queue[i]
    BY <1>2, <1>3, <2>1, <2>2 DEF ListOK, TimesOK
  <2> QED
    BY <1>3, <1>10, <1>11, <2>1, <2>2, <2>3
<1>24. RunsOK'
  <2> SUFFICES ASSUME NEW v \in 1..Len(videos)
               PROVE  /\ \A i \in 2..Len(videos[v].frames) :
                           videos[v].frames[i] = videos[v].frames[i - 1] + 1
                      /\ Listed(v) =>
                           /\ videos[v].frames # <<>>
                           /\ videos[v].frames[Len(videos[v].frames)] = Last - 1
    BY <1>1, <1>12, <1>23 DEF RunsOK
  <2> QED
    BY <1>2, <1>4, <1>23 DEF RunsOK
<1>26. TakenOK'
  <2> SUFFICES ASSUME NEW f \in Frames, taken[f] # 0
               PROVE  /\ f <= Last
                      /\ f >= start =>
                           /\ taken[f] <= rec.ts
                           /\ \/ f \in FramesOf(K) \cup {rec.frame}
                              \/ taken[f] + Window < rec.ts
    BY <1>1, <1>9, <1>12 DEF TakenOK
  <2>1. /\ f <= Last
        /\ f >= start =>
             /\ taken[f] <= rec.ts
             /\ \/ f \in FramesOf(p_5s_frame_queue)
                \/ f = rec.frame
                \/ taken[f] + Window < rec.ts
    BY <1>2, <1>12 DEF TakenOK
  <2>2. ASSUME f \in FramesOf(Stale), taken[f] <= rec.ts
        PROVE  taken[f] + Window < rec.ts
    <3>1. PICK i \in 1..n : f = p_5s_frame_queue[i].frame
      BY <1>18, <2>2
    <3>2. Expired(taken[f])
      BY <1>5, <1>13, <1>14, <3>1
    <3> QED
      BY <1>3, <1>4, <2>2, <3>2 DEF Expired
  <2> QED
    BY <1>19, <2>1, <2>2
<1>27. CoversOK'
  <2> SUFFICES ASSUME NEW v \in 1..Len(videos) \ cut
               PROVE  /\ \A f \in Frames :
                           /\ taken[f] # 0 /\ f >= videos[v].start
                           /\ taken[f] <= videos[v].ts + Window
                           /\ videos[v].ts <= taken[f] + Window
                           => f \in Elems(videos[v].frames) \/ (Listed(v) /\ f = rec.frame)
                      /\ ~Listed(v) => videos[v].ts + Window < rec.ts
    BY <1>1, <1>10, <1>12, <1>23 DEF CoversOK, Elems
  <2> QED
    BY <1>2, <1>12 DEF CoversOK
<1> QED
  BY <1>16, <1>17, <1>24, <1>26, <1>27 DEF Core

LEMMA FileCore ==
  ASSUME Base, TimesOK, Core, File
  PROVE  Core'
<1>0. PICK c : c = rec.cur
  OBVIOUS
<1>2. Types /\ QueuesOK /\ HeapOK /\ ListOK /\ TimesOK /\ FeOK /\ KeptOK /\ RunsOK
      /\ TakenOK /\ CoversOK
  BY DEF Base, Core
<1>3. /\ rec.pc = "file"
      /\ UNCHANGED <<clock, backs, camera, made, events, taken, start, cut>>
  BY DEF File
<1>4. /\ rec.frame = Last /\ Last \in Nat /\ Last > 0 /\ rec.ts \in Nat
      /\ Live /\ rec.frame \in Frames /\ Now = rec.ts
  <2>1. rec.frame = Last /\ Last > 0 /\ Live
    BY <1>2, <1>3 DEF FeOK
  <2>2. /\ rec.frame \in Nat /\ rec.ts \in Nat /\ rec.frame \in Frames \cup {0}
    BY <1>2, Parts DEF Types
  <2> QED
    BY <1>3, <2>1, <2>2 DEF Now
\* nothing is freed already
<1>5. ~TurnDangles
  <2>1. rec.cur \in nodes /\ nodes = Elems(p_file_queue)
    BY <1>2, <1>3 DEF KeptOK, TimesOK
  <2>2. p_file_queue # <<>> /\ Head(p_file_queue) \in nodes
    <3>1. PICK i \in 1..Len(p_file_queue) : p_file_queue[i] = rec.cur
      BY <2>1 DEF Elems
    <3>2. p_file_queue \in Seq(Videos) /\ Len(p_file_queue) \in Nat
      BY <1>2, Parts DEF Types
    <3>3. p_file_queue # <<>> /\ 1 \in 1..Len(p_file_queue)
      BY <3>1, <3>2, EmptySeq
    <3>4. Head(p_file_queue) = p_file_queue[1]
      BY <3>2, <3>3, TailFacts
    <3> QED
      BY <2>1, <3>3, <3>4 DEF Elems
  <2>3. rec.frame \in frames
    BY <1>2, <1>3, KeptFrame
  <2> QED
    BY <2>1, <2>2, <2>3 DEF TurnDangles
<1>6. Turn
  BY <1>5 DEF File
<1>7. /\ p_f_e_queue' = p_f_e_queue /\ p_5s_frame_queue' = p_5s_frame_queue
      /\ clock' = clock /\ made' = made
      /\ start' = start /\ cut' = cut /\ taken' = taken /\ close' = close
      /\ rec.pc = "file"
  BY <1>3, <1>6 DEF Turn, camera
<1>9. /\ rec'.frame = rec.frame /\ rec'.ts = rec.ts /\ rec'.pc \in {"event", "file"}
  BY <1>3, <1>5, <1>6, TurnBase
<1>10. /\ Last' = Last /\ End' = End /\ Live' /\ Now' = rec.ts
  BY <1>7, <1>4, <1>9 DEF Last, End, Live, Now
<1>12. /\ Len(videos') = Len(videos) /\ c \in 1..Len(videos)
       /\ \A v \in 1..Len(videos) : /\ videos'[v].ts = videos[v].ts
                                    /\ videos'[v].start = videos[v].start
                                    /\ v # c => videos'[v].frames = videos[v].frames
       /\ videos'[c].frames = Append(videos[c].frames, rec.frame)
  BY <1>0, <1>3, <1>5, <1>6, TurnBase
<1>16. /\ \A v : Listed(v)' => Listed(v)
       /\ ~Listed(c)' => videos[c].ts + Window < rec.ts
       /\ rec'.pc = "file" => rec'.cur \in nodes'
  BY <1>0, <1>3, <1>5, <1>6, TurnFacts
<1>17. /\ Listed(c) /\ Unwritten(c) /\ ~Unwritten(c)'
       /\ \A v : v # c /\ Listed(v) => (Unwritten(v)' <=> Unwritten(v))
  BY <1>0, <1>3, <1>5, <1>6, TurnFacts
<1>18. \A v : v # c /\ Listed(v) => Listed(v)'
  BY <1>0, <1>3, <1>5, <1>6, TurnFacts
<1> DEFINE fs == videos[c].frames
           M == Len(fs)
<1>13. /\ fs \in Seq(Frames) /\ M \in Nat
       /\ videos'[c].frames # <<>> /\ Len(videos'[c].frames) = M + 1
       /\ \A i \in 1..M : videos'[c].frames[i] = fs[i]
       /\ videos'[c].frames[M + 1] = rec.frame
       /\ Elems(videos'[c].frames) = Elems(fs) \cup {rec.frame}
  <2>1. fs \in Seq(Frames) /\ rec.frame \in Frames /\ M \in Nat
    BY <1>2, <1>4, <1>12, Parts
  <2>2. videos'[c].frames = Append(fs, rec.frame)
    BY <1>12
  <2> HIDE DEF fs
  <2>3. /\ Append(fs, rec.frame) # <<>> /\ Len(Append(fs, rec.frame)) = M + 1
        /\ \A i \in 1..M : Append(fs, rec.frame)[i] = fs[i]
        /\ Append(fs, rec.frame)[M + 1] = rec.frame
    BY <2>1, AppendFacts
  <2>4. Elems(Append(fs, rec.frame)) = Elems(fs) \cup {rec.frame}
    BY <2>1, ElemsAppend
  <2> QED
    BY <2>1, <2>2, <2>3, <2>4
<1> HIDE DEF fs
<1>19. FeOK'
  BY <1>7, <1>2, <1>3, <1>9, <1>10 DEF FeOK
<1>20. KeptOK'
  <2>1. p_5s_frame_queue # <<>> /\ close # "clear_file"
    BY <1>7, <1>2, <1>4 DEF KeptOK, Live
  <2> QED
    BY <1>7, <1>2, <1>4, <1>9, <1>10, <1>16, <2>1 DEF KeptOK
<1>22. RunsOK'
  <2> SUFFICES ASSUME NEW v \in 1..Len(videos)
               PROVE  /\ \A i \in 2..Len(videos'[v].frames) :
                           videos'[v].frames[i] = videos'[v].frames[i - 1] + 1
                      /\ Live' /\ Listed(v)' =>
                           /\ videos'[v].frames # <<>>
                           /\ videos'[v].frames[Len(videos'[v].frames)]
                                = IF Unwritten(v)' THEN Last' - 1 ELSE Last'
    BY <1>12 DEF RunsOK
  <2>1. CASE v = c
    <3>1. /\ \A i \in 2..M : fs[i] = fs[i - 1] + 1
          /\ fs # <<>> /\ fs[M] = Last - 1
      BY <1>2, <1>4, <1>12, <1>17 DEF RunsOK, fs
    <3>2. M > 0
      BY <1>13, <3>1, EmptySeq
    <3>3. \A i \in 2..(M + 1) :
             videos'[c].frames[i] = videos'[c].frames[i - 1] + 1
      <4> TAKE i \in 2..(M + 1)
      <4>1. CASE i = M + 1
        <5>1. i - 1 = M /\ M \in 1..M
          BY <1>13, <3>2, <4>1
        <5> QED
          BY <1>4, <1>13, <3>1, <4>1, <5>1
      <4>2. CASE i # M + 1
        <5>1. i \in 2..M /\ i \in 1..M /\ i - 1 \in 1..M
          BY <1>13, <4>2
        <5> QED
          BY <1>13, <3>1, <5>1
      <4> QED
        BY <4>1, <4>2
    <3> QED
      BY <1>4, <1>10, <1>13, <1>17, <2>1, <3>3
  <2>2. CASE v # c
    <3>1. videos'[v].frames = videos[v].frames
      BY <1>12, <2>2
    <3>2. Listed(v)' => Listed(v) /\ (Unwritten(v)' <=> Unwritten(v))
      BY <1>16, <1>17, <2>2
    <3>3. /\ \A i \in 2..Len(videos[v].frames) :
               videos[v].frames[i] = videos[v].frames[i - 1] + 1
          /\ Listed(v) =>
               /\ videos[v].frames # <<>>
               /\ videos[v].frames[Len(videos[v].frames)]
                    = IF Unwritten(v) THEN Last - 1 ELSE Last
      BY <1>2, <1>4 DEF RunsOK
    <3> QED
      BY <1>10, <3>1, <3>2, <3>3
  <2> QED
    BY <2>1, <2>2
<1>24. TakenOK'
  <2> SUFFICES ASSUME NEW f \in Frames, taken[f] # 0
               PROVE  /\ f <= Last
                      /\ f >= start =>
                           /\ taken[f] <= rec.ts
                           /\ \/ f \in FramesOf(p_5s_frame_queue)
                              \/ taken[f] + Window < rec.ts
    BY <1>7, <1>10 DEF TakenOK, FramesOf
  <2> QED
    BY <1>7, <1>2, <1>4 DEF TakenOK
<1>25. CoversOK'
  <2> SUFFICES ASSUME NEW v \in 1..Len(videos) \ cut
               PROVE  /\ \A f \in Frames :
                           /\ taken[f] # 0 /\ f >= videos[v].start
                           /\ taken[f] <= videos[v].ts + Window
                           /\ videos[v].ts <= taken[f] + Window
                           => \/ f \in Elems(videos'[v].frames)
                              \/ Listed(v)' /\ Unwritten(v)' /\ f = rec.frame
                      /\ ~Listed(v)' => videos[v].ts + Window < rec.ts
    <3>1. SUFFICES ASSUME NEW v \in 1..Len(videos') \ cut'
                   PROVE  /\ \A f \in Frames :
                               /\ taken'[f] # 0 /\ f >= videos'[v].start
                               /\ taken'[f] <= videos'[v].ts + Window
                               /\ videos'[v].ts <= taken'[f] + Window
                               => \/ f \in Elems(videos'[v].frames)
                                  \/ Listed(v)' /\ Unwritten(v)' /\ f = rec'.frame
                          /\ ~Listed(v)' => videos'[v].ts + Window < Now'
      BY DEF CoversOK, Elems
    <3>2. v \in 1..Len(videos) \ cut /\ videos'[v].ts = videos[v].ts
          /\ videos'[v].start = videos[v].start
      BY <1>7, <1>12
    <3> QED
      BY <1>7, <1>9, <1>10, <3>2
  <2>1. /\ \A f \in Frames :
             /\ taken[f] # 0 /\ f >= videos[v].start
             /\ taken[f] <= videos[v].ts + Window
             /\ videos[v].ts <= taken[f] + Window
             => \/ f \in Elems(videos[v].frames)
                \/ Listed(v) /\ Unwritten(v) /\ f = rec.frame
        /\ ~Listed(v) => videos[v].ts + Window < rec.ts
    BY <1>2, <1>4 DEF CoversOK
  <2>2. CASE v = c
    <3>1. Elems(videos'[v].frames) = Elems(videos[v].frames) \cup {rec.frame}
      BY <1>13, <2>2 DEF fs
    <3> QED
      BY <1>16, <2>1, <2>2, <3>1
  <2>3. CASE v # c
    <3>1. videos'[v].frames = videos[v].frames
      BY <1>12, <2>3
    <3> QED
      BY <1>16, <1>17, <1>18, <2>1, <2>3, <3>1
  <2> QED
    BY <2>2, <2>3
<1> QED
  BY <1>19, <1>20, <1>22, <1>24, <1>25 DEF Core

LEMMA EventCore ==
  ASSUME Base, TimesOK, Core, Event
  PROVE  Core'
<1>0. PICK v, L, N : v = Len(videos) + 1 /\ L = Len(p_5s_frame_queue) /\ N = Len(p_file_queue)
  OBVIOUS
<1> DEFINE V == [ts : Times, start : Nat, frames : Seq(Frames)]
<1>1. Types /\ QueuesOK /\ HeapOK /\ ListOK /\ TimesOK /\ FeOK /\ KeptOK /\ RunsOK
      /\ TakenOK /\ CoversOK
  BY DEF Base, Core
<1>2. PICK b, w : /\ b = [i \in 1..L |-> p_5s_frame_queue[i].frame]
                  /\ w = [ts |-> rec.ts, start |-> start, frames |-> b]
  OBVIOUS
<1>3. /\ p_f_e_queue' = p_f_e_queue /\ p_5s_frame_queue' = p_5s_frame_queue
      /\ frames' = frames /\ clock' = clock /\ backs' = backs /\ made' = made
      /\ events' = events /\ start' = start /\ cut' = cut /\ taken' = taken
      /\ close' = close /\ exist' = exist
      /\ rec.pc = "event" /\ rec.events > 0
      /\ rec' = [rec EXCEPT !.events = @ - 1]
      /\ videos' = Append(videos, w)
      /\ p_file_queue' = Append(p_file_queue, v)
      /\ nodes' = nodes \cup {v} /\ writers' = writers \cup {v}
      /\ p_5s_frame_queue # <<>>
  <2>1. rec.pc = "event" /\ p_5s_frame_queue # <<>>
    BY <1>1 DEF Event, KeptOK
  <2>2. ~EventDangles
    <3>1. rec.frame \in frames
      BY <1>1, <2>1, KeptFrame
    <3>2. FramesOf(p_5s_frame_queue) \subseteq frames
      BY <1>1, <2>1 DEF HeapOK
    <3> QED
      BY <3>1, <3>2 DEF EventDangles
  <2>3. Record
    BY <2>2 DEF Event
  <2> QED
    BY <1>0, <1>2, <2>1, <2>3 DEF Event, Record, Before, camera
<1>4. /\ Window \in Nat /\ N \in Nat /\ L \in Nat /\ L > 0 /\ Len(videos) \in Nat
      /\ MaxVideos \in Nat /\ events \in 0..MaxVideos /\ rec.events \in Nat
      /\ Len(p_f_e_queue) \in Nat /\ made \in Nat
      /\ \A u \in 1..Len(videos) : videos[u].ts \in Nat
      /\ \A i \in 1..L : p_5s_frame_queue[i].frame \in Frames
      /\ p_file_queue \in Seq(Videos) /\ videos \in Seq(V) /\ start \in Nat
      /\ rec.events <= MaxVideos
      /\ \A f \in Frames : taken[f] \in Nat
  <2>1. /\ p_file_queue \in Seq(Videos) /\ videos \in Seq(V) /\ events \in 0..MaxVideos
        /\ rec.events \in 0..MaxVideos
    BY <1>1 DEF Types
  <2>2. L > 0
    BY <1>0, <1>1, <1>3, Parts, EmptySeq DEF Types
  <2>3. /\ Window \in Nat /\ N \in Nat /\ L \in Nat /\ Len(videos) \in Nat
        /\ MaxVideos \in Nat /\ rec.events \in Nat
        /\ Len(p_f_e_queue) \in Nat /\ made \in Nat /\ start \in Nat
    BY <1>0, <1>1, Parts
  <2>4. /\ \A u \in 1..Len(videos) : videos[u].ts \in Nat
        /\ \A i \in 1..L : p_5s_frame_queue[i].frame \in Frames
        /\ \A f \in Frames : taken[f] \in Nat
    BY <1>0, <1>1, Parts
  <2> QED
    BY <2>1, <2>2, <2>3, <2>4
<1>5. /\ rec.frame = Last /\ Last \in Nat /\ Last > 0 /\ rec.ts > 0 /\ rec.ts \in Nat
      /\ Live /\ rec.ts \in Times /\ Now = rec.ts
  <2>1. /\ rec.frame = Last /\ Last > 0 /\ rec.ts > 0 /\ Live
    BY <1>1, <1>3 DEF FeOK, QueuesOK, Working
  <2>2. /\ rec.frame \in Nat /\ rec.ts \in Nat /\ rec.ts \in Times \cup {0}
    BY <1>1, Parts DEF Types
  <2> QED
    BY <1>3, <2>1, <2>2 DEF Now, Times
<1>6. /\ rec'.pc = "event" /\ rec'.frame = rec.frame /\ rec'.ts = rec.ts
      /\ rec'.events = rec.events - 1 /\ rec'.cur = rec.cur
  BY <1>1, <1>3 DEF Types
<1>7. /\ Last' = Last /\ End' = End /\ End = Last /\ Live' /\ Now' = rec.ts
  BY <1>3, <1>5, <1>6 DEF Last, End, Live, Now
<1>8. /\ b \in Seq(Frames) /\ Len(b) = L /\ b # <<>>
      /\ \A i \in 1..L : b[i] = p_5s_frame_queue[i].frame
      /\ \A i \in 1..L : b[i] = Last - L + i
  <2>1. \A i \in 1..L : p_5s_frame_queue[i].frame = Last - L + i
    BY <1>0, <1>1, <1>5, <1>7 DEF KeptOK
  <2>2. b \in [1..L -> Frames]
    BY <1>2, <1>4
  <2>3. b \in Seq(Frames) /\ Len(b) = L
    <3>1. L \in Nat
      BY <1>4
    <3>2. DOMAIN b = 1..L /\ b \in Seq(Frames)
      BY <2>2, <3>1
    <3> QED
      BY <3>1, <3>2, LenProperties
  <2>4. b # <<>>
    BY <1>4, <2>3, EmptySeq
  <2> QED
    BY <1>2, <2>1, <2>3, <2>4
<1>9. w \in V /\ w.ts = rec.ts /\ w.start = start /\ w.frames = b
  BY <1>2, <1>4, <1>5, <1>8
<1> HIDE DEF V
<1>10. /\ videos' \in Seq(V) /\ Len(videos') = v
       /\ \A u \in 1..Len(videos) : videos'[u] = videos[u]
       /\ videos'[v] = w
  BY <1>0, <1>3, <1>4, <1>9, AppendFacts
<1>11. /\ v \in Videos /\ v \in Nat /\ Len(videos) + rec.events <= events
       /\ \A u \in 1..v : u # v => u \in 1..Len(videos)
       /\ \A u \in 1..Len(videos) : u \in 1..v /\ u # v
       /\ v \in 1..v
  <2>1. Len(videos) + rec.events \in 0..MaxVideos /\ Len(videos) + rec.events <= events
    BY <1>1, VideosBound DEF Base
  <2> QED
    BY <1>0, <1>3, <1>4, <2>1, SMTT(30) DEF Videos
<1>12. /\ p_file_queue' \in Seq(Videos) /\ Len(p_file_queue') = N + 1
       /\ \A i \in 1..N : p_file_queue'[i] = p_file_queue[i]
       /\ p_file_queue'[N + 1] = v
       /\ Elems(p_file_queue') = Elems(p_file_queue) \cup {v}
  BY <1>0, <1>3, <1>4, <1>11, AppendFacts, ElemsAppend, SMTT(30)
<1>14. FeOK'
  BY <1>1, <1>3, <1>6, <1>7 DEF FeOK
<1>15. KeptOK'
  BY <1>1, <1>3, <1>5, <1>6, <1>7 DEF KeptOK, Live
<1>18. /\ Listed(v)' /\ \A u \in 1..Len(videos) : Listed(u)' <=> Listed(u)
       /\ \A u : ~Unwritten(u) /\ ~Unwritten(u)'
  <2>1. Elems(p_file_queue)' = Elems(p_file_queue) \cup {v}
    BY <1>12 DEF Elems
  <2> QED
    BY <1>3, <1>6, <1>11, <2>1 DEF Listed, Unwritten
<1>19. RunsOK'
  <2> SUFFICES ASSUME NEW u \in 1..v
               PROVE  /\ \A i \in 2..Len(videos'[u].frames) :
                           videos'[u].frames[i] = videos'[u].frames[i - 1] + 1
                      /\ Live' /\ Listed(u)' =>
                           /\ videos'[u].frames # <<>>
                           /\ videos'[u].frames[Len(videos'[u].frames)]
                                = IF Unwritten(u)' THEN Last' - 1 ELSE Last'
    BY <1>10 DEF RunsOK
  <2>1. CASE u = v
    <3>1. videos'[u].frames = b
      BY <1>9, <1>10, <2>1
    <3>2. \A i \in 2..L : b[i] = b[i - 1] + 1
      <4> TAKE i \in 2..L
      <4>1. i \in 1..L /\ i - 1 \in 1..L
        BY <1>4
      <4>2. b[i] = Last - L + i /\ b[i - 1] = Last - L + (i - 1)
        BY <1>8, <4>1
      <4> QED
        BY <1>4, <1>5, <4>2
    <3>3. b[L] = Last
      <4>1. L \in 1..L
        BY <1>4
      <4>2. b[L] = Last - L + L
        BY <1>8, <4>1
      <4> QED
        BY <1>4, <1>5, <4>2
    <3> QED
      BY <1>7, <1>8, <1>18, <3>1, <3>2, <3>3
  <2>2. CASE u # v
    <3>1. u \in 1..Len(videos) /\ videos'[u] = videos[u]
      BY <1>10, <1>11, <2>2
    <3> QED
      BY <1>1, <1>5, <1>7, <1>18, <3>1 DEF RunsOK
  <2> QED
    BY <2>1, <2>2
<1>21. TakenOK'
  <2> SUFFICES ASSUME NEW f \in Frames, taken[f] # 0
               PROVE  /\ f <= Last
                      /\ f >= start =>
                           /\ taken[f] <= rec.ts
                           /\ \/ f \in FramesOf(p_5s_frame_queue)
                              \/ taken[f] + Window < rec.ts
    BY <1>3, <1>7 DEF TakenOK, FramesOf
  <2> QED
    BY <1>1, <1>3, <1>5 DEF TakenOK
<1>22. CoversOK'
  <2> SUFFICES ASSUME NEW u \in 1..v \ cut
               PROVE  /\ \A f \in Frames :
                           /\ taken[f] # 0 /\ f >= videos'[u].start
                           /\ taken[f] <= videos'[u].ts + Window
                           /\ videos'[u].ts <= taken[f] + Window
                           => f \in Elems(videos'[u].frames)
                      /\ ~Listed(u)' => videos'[u].ts + Window < rec.ts
    <3>1. SUFFICES ASSUME NEW u \in 1..Len(videos') \ cut'
                   PROVE  /\ \A f \in Frames :
                               /\ taken'[f] # 0 /\ f >= videos'[u].start
                               /\ taken'[f] <= videos'[u].ts + Window
                               /\ videos'[u].ts <= taken'[f] + Window
                               => \/ f \in Elems(videos'[u].frames)
                                  \/ Listed(u)' /\ Unwritten(u)' /\ f = rec'.frame
                          /\ ~Listed(u)' => videos'[u].ts + Window < Now'
      BY DEF CoversOK, Elems
    <3> QED
      BY <1>3, <1>7, <1>10, <1>18
  <2>1. CASE u = v
    <3>1. videos'[u].ts = rec.ts /\ videos'[u].start = start /\ videos'[u].frames = b
      BY <1>9, <1>10, <2>1
    <3>2. \A x \in FramesOf(p_5s_frame_queue) : x \in Elems(b)
      BY <1>0, <1>8 DEF FramesOf, Elems
    <3>3. ASSUME NEW f \in Frames, taken[f] # 0, f >= start,
                 taken[f] <= rec.ts + Window, rec.ts <= taken[f] + Window
          PROVE  f \in Elems(b)
      <4>1. f \in FramesOf(p_5s_frame_queue) \/ taken[f] + Window < rec.ts
        BY <1>1, <1>3, <1>5, <3>3 DEF TakenOK
      <4> QED
        BY <1>4, <1>5, <3>2, <3>3, <4>1
    <3> QED
      BY <1>18, <2>1, <3>1, <3>3
  <2>2. CASE u # v
    <3>1. u \in 1..Len(videos) \ cut /\ videos'[u] = videos[u]
      BY <1>10, <1>11, <2>2
    <3> QED
      BY <1>1, <1>5, <1>18, <3>1 DEF CoversOK
  <2> QED
    BY <2>1, <2>2
<1> QED
  BY <1>14, <1>15, <1>19, <1>21, <1>22 DEF Core

LEMMA DoneCore ==
  ASSUME Base, TimesOK, Core, Done
  PROVE  Core'
<1>1. /\ p_f_e_queue' = p_f_e_queue /\ p_5s_frame_queue' = p_5s_frame_queue
      /\ p_file_queue' = p_file_queue
      /\ frames' = frames /\ nodes' = nodes /\ writers' = writers
      /\ clock' = clock /\ backs' = backs /\ videos' = videos /\ made' = made
      /\ events' = events /\ start' = start /\ cut' = cut /\ taken' = taken
      /\ close' = close /\ exist' = exist
      /\ rec.pc = "event" /\ rec.events = 0 /\ rec' = Idle
  BY DEF Done, queues, heap, history, camera
<1>2. Types /\ QueuesOK /\ HeapOK /\ ListOK /\ TimesOK /\ FeOK /\ KeptOK /\ RunsOK
      /\ TakenOK /\ CoversOK
  BY DEF Base, Core
<1>3. /\ rec'.pc = "idle" /\ rec'.frame = 0 /\ rec'.events = 0 /\ rec'.ts = 0 /\ rec'.cur = 0
  BY <1>1 DEF Idle
<1>4. /\ Window \in Nat /\ clock \in Nat /\ rec.ts \in Nat /\ rec.ts <= clock
      /\ \A v \in 1..Len(videos) : videos[v].ts \in Nat
      /\ \A f \in Frames : taken[f] \in Nat
      /\ MaxVideos \in Nat
  BY <1>1, <1>2, Parts DEF TimesOK
<1>5. /\ Last' = Last /\ End' = End /\ (Live' <=> Live) /\ Now = rec.ts /\ Now' = clock
      /\ Live /\ close # "clear_file"
  BY <1>1, <1>2, <1>3 DEF Last, End, Live, Now, FeOK
<1>7. FeOK' /\ KeptOK'
  BY <1>1, <1>2, <1>3, <1>5 DEF FeOK, KeptOK
<1>10. \A v : (Listed(v)' <=> Listed(v)) /\ ~Unwritten(v)' /\ ~Unwritten(v)
  BY <1>1, <1>3 DEF Listed, Unwritten, Elems
<1>11. RunsOK'
  BY <1>1, <1>2, <1>5, <1>10 DEF RunsOK
<1>13. TakenOK'
  <2> SUFFICES ASSUME NEW f \in Frames, taken[f] # 0
               PROVE  /\ f <= Last
                      /\ f >= start =>
                           /\ taken[f] <= clock
                           /\ \/ f \in FramesOf(p_5s_frame_queue)
                              \/ taken[f] + Window < clock
    BY <1>1, <1>5 DEF TakenOK, FramesOf
  <2> QED
    BY <1>1, <1>2, <1>4, <1>5 DEF TakenOK
<1>14. CoversOK'
  <2>1. \A v \in 1..Len(videos) \ cut :
          /\ \A f \in Frames :
               /\ taken[f] # 0 /\ f >= videos[v].start
               /\ taken[f] <= videos[v].ts + Window
               /\ videos[v].ts <= taken[f] + Window
               => f \in Elems(videos[v].frames)
          /\ ~Listed(v) => videos[v].ts + Window < clock
    <3> SUFFICES ASSUME NEW v \in 1..Len(videos) \ cut
                 PROVE  /\ \A f \in Frames :
                             /\ taken[f] # 0 /\ f >= videos[v].start
                             /\ taken[f] <= videos[v].ts + Window
                             /\ videos[v].ts <= taken[f] + Window
                             => f \in Elems(videos[v].frames)
                        /\ ~Listed(v) => videos[v].ts + Window < clock
      OBVIOUS
    <3>1. /\ \A f \in Frames :
               /\ taken[f] # 0 /\ f >= videos[v].start
               /\ taken[f] <= videos[v].ts + Window
               /\ videos[v].ts <= taken[f] + Window
               => \/ f \in Elems(videos[v].frames)
                  \/ Listed(v) /\ Unwritten(v) /\ f = rec.frame
          /\ ~Listed(v) => videos[v].ts + Window < rec.ts
      BY <1>2, <1>5 DEF CoversOK
    <3>2. ~Unwritten(v)
      BY <1>10
    <3>3. videos[v].ts \in Nat
      BY <1>4
    <3>4. videos[v].ts + Window < rec.ts => videos[v].ts + Window < clock
      BY <1>4, <3>3
    <3> QED
      BY <3>1, <3>2, <3>4
  <2> QED
    BY <1>1, <1>5, <1>10, <2>1 DEF CoversOK, Elems
<1> QED
  BY <1>7, <1>11, <1>13, <1>14 DEF Core

LEMMA ClearFeCore ==
  ASSUME Base, TimesOK, Core, ClearFe, ~Busy
  PROVE  Core'
<1>1. /\ p_f_e_queue' = <<>> /\ p_5s_frame_queue' = p_5s_frame_queue
      /\ p_file_queue' = p_file_queue /\ rec' = rec
      /\ frames' = frames \ FramesOf(p_f_e_queue) /\ nodes' = nodes /\ writers' = writers
      /\ clock' = clock /\ backs' = backs /\ videos' = videos /\ made' = made
      /\ events' = events /\ start' = start /\ cut' = cut /\ taken' = taken
      /\ close = "clear_fe" /\ close' = "clear_5s" /\ exist' = exist
      /\ rec.pc = "idle" /\ Len(p_f_e_queue') = 0
  BY DEF ClearFe, history, Busy
<1>2. Types /\ QueuesOK /\ HeapOK /\ ListOK /\ TimesOK /\ FeOK /\ KeptOK /\ RunsOK
      /\ TakenOK /\ CoversOK
  BY DEF Base, Core
<1>3. /\ made \in Nat /\ Len(p_f_e_queue) \in Nat /\ Len(p_5s_frame_queue) \in Nat
      /\ Len(videos) \in Nat /\ rec.events \in Nat /\ QueueMax \in Nat
      /\ \A i \in 1..Len(p_5s_frame_queue) : p_5s_frame_queue[i].frame \in Frames
      /\ \A f \in Frames : f \in Nat
  BY <1>2, Parts, SizeAssumption, SMTT(30) DEF Frames
<1>4. /\ Last' = made /\ Live /\ ~Live' /\ Now' = Now /\ Last \in Int /\ Last <= made
      /\ End = Last
  BY <1>1, <1>3 DEF Last, Live, Now, End
<1>6. FeOK'
  BY <1>1, <1>2, <1>3, <1>4 DEF FeOK
<1>7. KeptOK'
  BY <1>1, <1>2, <1>4 DEF KeptOK
<1>10. \A v : (Listed(v)' <=> Listed(v)) /\ ~Unwritten(v)' /\ ~Unwritten(v)
  BY <1>1 DEF Listed, Unwritten, Elems
<1>11. RunsOK'
  BY <1>1, <1>2, <1>4 DEF RunsOK
<1>13. TakenOK'
  <2> SUFFICES ASSUME NEW f \in Frames, taken[f] # 0
               PROVE  /\ f <= made
                      /\ f >= start =>
                           /\ taken[f] <= Now
                           /\ \/ f \in FramesOf(p_5s_frame_queue)
                              \/ taken[f] + Window < Now
    BY <1>1, <1>4 DEF TakenOK, FramesOf
  <2> QED
    BY <1>1, <1>2, <1>3, <1>4 DEF TakenOK
<1>14. CoversOK'
  BY <1>1, <1>2, <1>4, <1>10 DEF CoversOK, Elems
<1> QED
  BY <1>6, <1>7, <1>11, <1>13, <1>14 DEF Core

LEMMA Clear5sCore ==
  ASSUME Base, TimesOK, Core, Clear5s, ~Busy
  PROVE  Core'
<1>1. /\ p_f_e_queue' = p_f_e_queue /\ p_5s_frame_queue' = <<>>
      /\ p_file_queue' = p_file_queue /\ rec' = rec
      /\ frames' = frames \ FramesOf(p_5s_frame_queue) /\ nodes' = nodes
      /\ writers' = writers
      /\ clock' = clock /\ backs' = backs /\ videos' = videos /\ made' = made
      /\ events' = events /\ start' = made + 1 /\ cut' = cut /\ taken' = taken
      /\ close = "clear_5s" /\ close' = "clear_file" /\ exist' = exist
      /\ rec.pc = "idle" /\ Len(p_5s_frame_queue') = 0
  BY DEF Clear5s, Busy
<1>2. Types /\ QueuesOK /\ HeapOK /\ ListOK /\ TimesOK /\ FeOK /\ KeptOK /\ RunsOK
      /\ TakenOK /\ CoversOK
  BY DEF Base, Core
<1>3. /\ made \in Nat /\ \A f \in Frames : f \in Nat
      /\ made \in 0..MaxFrames /\ MaxFrames \in Nat
  BY <1>2, Parts DEF Frames, Types
<1>4. /\ Last' = Last /\ ~Live /\ ~Live' /\ Now' = Now /\ p_f_e_queue = <<>> /\ Last = made
  <2>1. ~Live /\ ~Live' /\ Last' = Last /\ Now' = Now
    BY <1>1 DEF Live, Last, Now
  <2>2. p_f_e_queue = <<>>
    BY <1>2, <2>1 DEF FeOK
  <2> QED
    BY <1>3, <2>1, <2>2 DEF Last
<1>6. FeOK'
  BY <1>1, <1>2, <1>4 DEF FeOK
<1>7. KeptOK'
  BY <1>1, <1>4 DEF KeptOK
<1>10. \A v : (Listed(v)' <=> Listed(v)) /\ ~Unwritten(v)' /\ ~Unwritten(v)
  BY <1>1 DEF Listed, Unwritten, Elems
<1>11. RunsOK'
  BY <1>1, <1>2, <1>4 DEF RunsOK
<1>13. TakenOK'
  <2>1. \A f \in Frames : taken[f] # 0 => f <= made /\ ~(f >= made + 1)
    BY <1>2, <1>3, <1>4 DEF TakenOK
  <2> QED
    BY <1>1, <1>4, <2>1 DEF TakenOK
<1>14. CoversOK'
  BY <1>1, <1>2, <1>4, <1>10 DEF CoversOK, Elems
<1> QED
  BY <1>6, <1>7, <1>11, <1>13, <1>14 DEF Core

LEMMA ClearFileCore ==
  ASSUME Base, TimesOK, Core, ClearFile, ~Busy
  PROVE  Core'
<1>1. /\ p_f_e_queue' = p_f_e_queue /\ p_5s_frame_queue' = p_5s_frame_queue
      /\ p_file_queue' = <<>> /\ rec' = rec /\ frames' = frames
      /\ nodes' = nodes \ Elems(p_file_queue) /\ writers' = writers \ Elems(p_file_queue)
      /\ clock' = clock /\ backs' = backs /\ videos' = videos /\ made' = made
      /\ events' = events /\ start' = start /\ cut' = cut \cup Elems(p_file_queue)
      /\ taken' = taken
      /\ close = "clear_file" /\ close' = "off" /\ exist' = exist
      /\ rec.pc = "idle" /\ Len(p_file_queue') = 0
  BY DEF ClearFile, Busy, TimesOK
<1>2. Types /\ QueuesOK /\ HeapOK /\ ListOK /\ TimesOK /\ FeOK /\ KeptOK /\ RunsOK
      /\ TakenOK /\ CoversOK
  BY DEF Base, Core
<1>3. /\ Last' = Last /\ ~Live /\ Now' = Now
      /\ p_5s_frame_queue = <<>> /\ Len(p_5s_frame_queue) = 0
  <2>1. p_5s_frame_queue = <<>>
    BY <1>1, <1>2 DEF KeptOK
  <2> QED
    BY <1>1, <2>1 DEF Live, Last, Now
<1>4. Elems(p_file_queue) \subseteq Videos
  BY <1>2, Parts DEF Elems
<1>6. FeOK'
  BY <1>1, <1>2, <1>3 DEF FeOK
<1>7. KeptOK'
  BY <1>1, <1>3 DEF KeptOK
<1>10. \A v : ~Listed(v)' /\ ~Unwritten(v)
  BY <1>1 DEF Listed, Unwritten, Elems
<1>11. RunsOK'
  BY <1>1, <1>2, <1>10 DEF RunsOK
<1>13. TakenOK'
  BY <1>1, <1>2, <1>3 DEF TakenOK, FramesOf
<1>14. CoversOK'
  <2>1. \A v \in 1..Len(videos) \ cut' : v \notin cut /\ ~Listed(v)
    BY <1>1 DEF Listed
  <2>2. \A v \in 1..Len(videos) \ cut' :
          /\ \A f \in Frames :
               /\ taken[f] # 0 /\ f >= videos[v].start
               /\ taken[f] <= videos[v].ts + Window
               /\ videos[v].ts <= taken[f] + Window
               => f \in Elems(videos[v].frames)
          /\ videos[v].ts + Window < Now
    BY <1>2, <2>1 DEF CoversOK
  <2> QED
    BY <1>1, <1>3, <2>2 DEF CoversOK, Elems
<1> QED
  BY <1>6, <1>7, <1>11, <1>13, <1>14 DEF Core

\* Every step keeps it, but for one of the recorder while the queues are emptied.
LEMMA StepCore ==
  ASSUME Base, TimesOK, Core, [Next]_vars, ~late', ~shifted'
  PROVE  Core'
<1>1. CASE Tick \/ Look \/ Miss \/ Delete \/ CloseBegin \/ CloseJoin \/ CloseFlag \/ Open
           \/ UNCHANGED vars
  BY <1>1, CalmSteps, CalmCore
<1>2. CASE SetDate
  BY <1>2, SetDateCore
<1>3. ASSUME NEW n \in 0..MaxVideos, AddFrame(n) PROVE Core'
  BY <1>3, AddFrameCore
<1>4. CASE Take
  <2>1. ~Clearing
    BY <1>4 DEF Take
  <2> QED
    BY <1>4, <2>1, TakeCore
<1>5. CASE Keep
  BY <1>5, KeepCore
<1>6. CASE File
  BY <1>6, FileCore
<1>7. CASE Event
  BY <1>7, EventCore
<1>8. CASE Done
  BY <1>8, DoneCore
<1>9. CASE ClearFe
  <2>1. ~Busy
    BY <1>9 DEF ClearFe
  <2> QED
    BY <1>9, <2>1, ClearFeCore
<1>10. CASE Clear5s
  <2>1. ~Busy
    BY <1>10 DEF Clear5s
  <2> QED
    BY <1>10, <2>1, Clear5sCore
<1>11. CASE ClearFile
  <2>1. ~Busy
    BY <1>11 DEF ClearFile
  <2> QED
    BY <1>11, <2>1, ClearFileCore
<1> QED
  BY <1>1, <1>2, <1>3, <1>4, <1>5, <1>6, <1>7, <1>8, <1>9, <1>10, <1>11
     DEF Next, RecStep, CloseStep

-----------------------------------------------------------------------------
(* The inductive invariant, and what follows from it *)

LEMMA InitInv == Init => IInv
<1> SUFFICES ASSUME Init PROVE IInv
  OBVIOUS
<1>1. closes = 0 /\ passed = FALSE /\ late = FALSE /\ shifted = FALSE
  BY DEF Init
<1>2. Flags
  <2>1. closes \in 0..MaxCloses
    BY <1>1, BoundAssumption
  <2> QED
    BY <1>1, <2>1, Zenon DEF Flags
<1> QED
  BY <1>2, InitBase, InitTimes, InitCore DEF IInv

\* What went wrong with the clock or with the queues stays recorded.
LEMMA StepFlags ==
  ASSUME Flags, [Next]_vars
  PROVE  /\ Flags'
         /\ ~late' => ~late
         /\ ~shifted' => ~shifted
<1>1. CASE Tick \/ Look \/ Miss \/ Delete \/ CloseJoin \/ CloseFlag \/ Open
           \/ UNCHANGED vars
  <2>1. /\ closes' = closes /\ late' = late /\ shifted' = shifted
        /\ passed' = passed \/ passed' = TRUE \/ passed' = FALSE
    BY <1>1, Zenon DEF Tick, Look, Miss, Delete, CloseJoin, CloseFlag, Open, vars, trouble
  <2> QED
    BY <2>1, Zenon DEF Flags
<1>2. CASE CloseBegin
  <2>1. /\ closes < MaxCloses /\ closes' = closes + 1 /\ late' = late /\ shifted' = shifted
        /\ passed' = passed
    BY <1>2 DEF CloseBegin, trouble
  <2>2. closes' \in 0..MaxCloses
    BY <2>1, BoundAssumption DEF Flags
  <2> QED
    BY <2>1, <2>2, Zenon DEF Flags
<1>3. CASE SetDate
  <2>1. /\ closes' = closes /\ late' = late /\ passed' = passed
        /\ shifted' = (shifted \/ p_file_queue # <<>> \/ rec.pc # "idle")
    BY <1>3 DEF SetDate
  <2> QED
    BY <2>1, Zenon DEF Flags
<1>4. CASE \E n \in 0..MaxVideos : AddFrame(n)
  <2>1. closes' = closes /\ late' = late /\ passed' = passed /\ shifted' = shifted
    BY <1>4 DEF AddFrame, trouble
  <2> QED
    BY <2>1, Zenon DEF Flags
<1>5. CASE Take
  <2>1. /\ closes' = closes /\ shifted' = shifted /\ passed' = FALSE
        /\ late' = (late \/ Clearing)
    BY <1>5 DEF Take
  <2> QED
    BY <2>1, Zenon DEF Flags
<1>6. CASE Keep \/ File \/ Event \/ Done
  <2>1. closes' = closes /\ late' = late /\ passed' = passed /\ shifted' = shifted
    BY <1>6 DEF Keep, File, Event, Done, trouble
  <2> QED
    BY <2>1, Zenon DEF Flags
<1>7. CASE ClearFe \/ Clear5s \/ ClearFile
  <2>1. /\ closes' = closes /\ shifted' = shifted /\ passed' = passed
        /\ late' = (late \/ Busy)
    BY <1>7, Zenon DEF ClearFe, Clear5s, ClearFile
  <2> QED
    BY <2>1, Zenon DEF Flags, Busy
<1> QED
  BY <1>1, <1>2, <1>3, <1>4, <1>5, <1>6, <1>7 DEF Next, RecStep, CloseStep

\* Every step keeps the inductive invariant.
LEMMA StepInv ==
  ASSUME IInv, [Next]_vars
  PROVE  IInv'
<1>1. Flags' /\ (~late' => ~late) /\ (~shifted' => ~shifted)
  BY StepFlags DEF IInv
<1>2. Base'
  BY StepBase DEF IInv
<1>3. ASSUME ~shifted' PROVE TimesOK'
  BY <1>1, <1>3, StepTimes DEF IInv
<1>4. ASSUME ~late', ~shifted' PROVE Core'
  BY <1>1, <1>4, StepCore DEF IInv
<1> QED
  BY <1>1, <1>2, <1>3, <1>4 DEF IInv

\* The inductive invariant holds throughout.
LEMMA Invariance == Spec => []IInv
<1>1. IInv /\ [Next]_vars => IInv'
  BY StepInv
<1> QED
  BY <1>1, InitInv, PTL DEF Spec

\* A frame of the last seconds, or one that waits, is allocated and no other: none is
\* freed twice or lost when camera_close empties the queues, whatever the recorder is
\* doing then.
THEOREM FramesCorrect == Spec => []FramesExact
<1>1. IInv => FramesExact
  <2> SUFFICES ASSUME IInv PROVE FramesExact
    OBVIOUS
  <2>1. Flags /\ Types /\ QueuesOK /\ HeapOK
    BY DEF IInv, Base
  <2>2. TypeOK
    BY <2>1 DEF Flags, Types, TypeOK
  <2>3. /\ \A x \in FramesOf(p_5s_frame_queue) : x \notin FramesOf(p_f_e_queue)
        /\ rec.pc = "keep" => /\ rec.frame \notin FramesOf(p_f_e_queue)
                              /\ rec.frame \notin FramesOf(p_5s_frame_queue)
    BY <2>1, Disjoint
  <2> QED
    BY <2>1, <2>2, <2>3 DEF FramesExact, HeapOK
<1> QED
  BY <1>1, Invariance, PTL

\* Every video in the list has its writer, and no other has; and it has its node, and
\* no other, as long as the clock is not set back with a video open: although the loop
\* frees the node it stands at and takes the first one off the list.
THEOREM FilesCorrect == Spec => []FilesExact
<1>1. IInv => FilesExact
  BY DEF IInv, Base, ListOK, TimesOK, FilesExact
<1> QED
  BY <1>1, Invariance, PTL

\* Neither the recorder nor camera_close uses a frame or a video that is freed, as long
\* as the recorder is done with the camera when its queues are emptied, and the clock is
\* not set back with a video open.
THEOREM NothingFreedUsed == Spec => []NothingDangles
<1>1. IInv => NothingDangles
  <2> SUFFICES ASSUME IInv, ~late, ~shifted
               PROVE  /\ rec.pc # "broken"
                      /\ rec.pc # "idle" => rec.frame \in frames
                      /\ rec.pc = "file" => rec.cur \in nodes
    BY DEF NothingDangles
  <2>1. Types /\ HeapOK /\ FeOK /\ KeptOK
    BY DEF IInv, Base, Core
  <2>2. rec.pc # "broken" /\ (rec.pc = "file" => rec.cur \in nodes)
    BY <2>1 DEF FeOK, KeptOK
  <2>3. rec.pc = "keep" => rec.frame \in frames
    BY <2>1 DEF HeapOK
  <2>4. rec.pc \in {"file", "event"} => rec.frame \in frames
    BY <2>1, KeptFrame
  <2>5. rec.pc \in RecSteps
    BY <2>1 DEF Types
  <2> QED
    BY <2>2, <2>3, <2>4, <2>5 DEF RecSteps
<1> QED
  BY <1>1, Invariance, PTL

\* A video has no gap, no frame twice and no frame out of order, on the same condition.
THEOREM RunsCorrect == Spec => []NoGap
<1>1. IInv => NoGap
  BY DEF IInv, Core, RunsOK, NoGap
<1> QED
  BY <1>1, Invariance, PTL

\* A video that was not cut off has every frame from the Window before its event to the
\* Window after it (the comments at cam_event.c:205 and :388), on the same condition.
THEOREM CoversCorrect == Spec => []Covers
<1>1. IInv => Covers
  <2> SUFFICES ASSUME IInv, ~late, ~shifted, rec.pc = "idle" PROVE Covers
    BY DEF Covers
  <2>1. \A v : ~Unwritten(v)
    BY DEF Unwritten
  <2> QED
    BY <2>1 DEF IInv, Core, CoversOK, Covers
<1> QED
  BY <1>1, Invariance, PTL

=============================================================================
