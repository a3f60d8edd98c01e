------------------------------- MODULE WsOutput -------------------------------
(***************************************************************************)
(* The websocket output (websocket/ws_service.c): one ring of messages for *)
(* all sessions.  The thread ws_hanle_realtime_data inserts; every session *)
(* has a tail of its own and consumes when its socket is writable; the     *)
(* ring reuses a slot when its oldest tail has moved on.                   *)
(*                                                                         *)
(* The callbacks of a session run in the one thread of the library, each   *)
(* is one step.  What is done with lock_ring held is one step, too: the    *)
(* lock is held over the whole of it and nothing blocks inside.            *)
(*                                                                         *)
(* The ring and the event loop belong to libwebsockets, of which the       *)
(* repository holds the headers: the macro that moves the oldest tail is   *)
(* translated from lws-ring.h, the functions it calls are modelled from    *)
(* what the headers say of them.                                           *)
(***************************************************************************)
EXTENDS Integers, Sequences

CONSTANTS
    Sessions,   \* the connections that may be open at one time
    RingSize,   \* slots of the ring, 8 in the code
    Serials     \* messages are numbered modulo this, to tell them apart

ASSUME SizesAssumption ==
    /\ RingSize \in Nat \ {0, 1}
    /\ Serials \in Nat
    /\ Serials > RingSize

WsSlots == 0..RingSize - 1
Messages == 0..Serials - 1
None == -1  \* no message

VARIABLES
    slot,       \* the payload of each slot, None when it is freed
    head,       \* where the next message is inserted
    oldest,     \* the oldest tail of the ring
    live,       \* pss_list
    tail,       \* pss->tail
    asked,      \* sessions that have asked to be called when writable
    cancelled,  \* lws_cancel_service was called, the loop has yet to see it
    cmd_play,   \* g_member.cmd_play
    sender,     \* where ws_hanle_realtime_data stands
    serial,     \* history: the number of the next message
    got,        \* history: the message each session was sent last
    told        \* history: sessions a message was inserted for since they came

ringVars == <<slot, head, serial>>
wsVars == <<slot, head, oldest, live, tail, asked, cancelled, cmd_play, sender,
          serial, got, told>>

WsInit ==
    /\ slot = [i \in WsSlots |-> None]
    /\ head = 0
    /\ oldest = 0
    /\ live = {}
    /\ tail = [s \in Sessions |-> 0]
    /\ asked = {}
    /\ cancelled = FALSE
    /\ cmd_play = FALSE
    /\ sender = "turn"
    /\ serial = 0
    /\ got = [s \in Sessions |-> None]
    /\ told = {}

----------------------------------------------------------------------------
(* The ring of the library.                                                *)

\* Messages from place i to the head; one slot always stays free.
Waiting(i) == (head - i) % RingSize

Room == Waiting(oldest) < RingSize - 1

\* lws_ring_insert of one message and lws_cancel_service.
Insert ==
    /\ slot' = [slot EXCEPT ![head] = serial]
    /\ head' = (head + 1) % RingSize
    /\ serial' = (serial + 1) % Serials
    /\ cancelled' = TRUE
    /\ told' = told \union live

Furthest_Bug(t) ==
    CHOOSE i \in {t[s] : s \in live} :
        \A s \in live : (head - i) % RingSize <= (head - t[s]) % RingSize

\* The tail the session with the most messages waiting has.
Furthest(t) ==
    CHOOSE i \in {t[s] : s \in live} :
        \A s \in live : (head - t[s]) % RingSize <= (head - i) % RingSize

\* lws_ring_update_oldest_tail: frees the slots that the oldest tail passes.
Passed(i, new) == (i - oldest) % RingSize < (new - oldest) % RingSize

\* lws_ring_consume_and_update_oldest_tail: a session whose tail is not the
\* oldest moves only its own.
Consume(s) ==
    LET new == [tail EXCEPT ![s] = (tail[s] + 1) % RingSize]
        old == IF tail[s] = oldest THEN Furthest(new) ELSE oldest
    IN  /\ tail' = new
        /\ oldest' = old
        /\ slot' = [i \in WsSlots |-> IF Passed(i, old) THEN None ELSE slot[i]]

----------------------------------------------------------------------------
(* The callbacks of the sessions, in the thread of the library.            *)

Established_Bug(s) ==
    /\ s \notin live
    /\ live' = live \union {s}
    /\ UNCHANGED <<ringVars, oldest, tail, asked, cancelled, cmd_play, sender, got, told>>

\* A session starts at the oldest message the ring still has.
Established(s) ==
    /\ s \notin live
    /\ live' = live \union {s}
    /\ tail' = [tail EXCEPT ![s] = oldest]
    /\ UNCHANGED <<ringVars, oldest, asked, cancelled, cmd_play, sender, got, told>>

\* The client leaves, or lws_write failed and the callback returned -1.
Closed(s) ==
    /\ s \in live
    /\ live' = live \ {s}
    /\ tail' = [tail EXCEPT ![s] = 0]
    /\ asked' = asked \ {s}
    /\ got' = [got EXCEPT ![s] = None]
    /\ told' = told \ {s}
    /\ UNCHANGED <<ringVars, oldest, cancelled, cmd_play, sender>>

\* The loop sees lws_cancel_service: every session asks to be called.
WaitCancelled ==
    /\ cancelled
    /\ cancelled' = FALSE
    /\ asked' = live
    /\ UNCHANGED <<ringVars, oldest, live, tail, cmd_play, sender, got, told>>

More_Bug(s) == FALSE

\* After a message is sent: come back when there is more to do.
More(s) == Waiting((tail[s] + 1) % RingSize) > 0

Write(s) ==
    /\ Waiting(tail[s]) > 0
    /\ got' = [got EXCEPT ![s] = slot[tail[s]]]
    /\ Consume(s)
    /\ asked' = IF More(s) THEN asked ELSE asked \ {s}
    /\ UNCHANGED <<head, serial, live, cancelled, cmd_play, sender, told>>

NothingToWrite(s) ==
    /\ Waiting(tail[s]) = 0
    /\ asked' = asked \ {s}
    /\ UNCHANGED <<ringVars, oldest, live, tail, cancelled, cmd_play, sender, got, told>>

\* The socket of a session that has asked is writable.
Writeable(s) ==
    /\ s \in live
    /\ s \in asked
    /\ Write(s) \/ NothingToWrite(s)

\* ws_send_msg behind its test of pss_list: insert if there is room.
SendMsg ==
    \/ Room /\ Insert
    \/ ~Room /\ UNCHANGED <<ringVars, cancelled, told>>

\* A client sends a command; the answer goes to every session.
Receive(s) ==
    /\ s \in live
    /\ \E play \in {TRUE, FALSE, cmd_play} : cmd_play' = play
    /\ SendMsg
    /\ UNCHANGED <<oldest, live, tail, asked, sender, got>>

----------------------------------------------------------------------------
(* The thread ws_hanle_realtime_data.                                      *)

\* With cmd_play set and data in the queues it calls ws_send_msg.
Turn ==
    /\ sender = "turn"
    /\ cmd_play
    /\ sender' = "test"
    /\ UNCHANGED <<ringVars, oldest, live, tail, asked, cancelled, cmd_play, got, told>>

\* ws_send_msg looks at pss_list without the lock.
Test ==
    /\ sender = "test"
    /\ sender' = IF live = {} THEN "turn" ELSE "send"
    /\ UNCHANGED <<ringVars, oldest, live, tail, asked, cancelled, cmd_play, got, told>>

Send ==
    /\ sender = "send"
    /\ sender' = "turn"
    /\ SendMsg
    /\ UNCHANGED <<oldest, live, tail, asked, cmd_play, got>>

----------------------------------------------------------------------------
WsNext ==
    \/ \E s \in Sessions :
          Established(s) \/ Closed(s) \/ Writeable(s) \/ Receive(s)
    \/ WaitCancelled
    \/ Turn \/ Test \/ Send

WsSpec == WsInit /\ [][WsNext]_wsVars

\* The thread of the library and the sending thread go on, and the socket of
\* a session that has asked becomes writable: clients read or leave.
WsFairSpec ==
    /\ WsSpec
    /\ WF_wsVars(WaitCancelled)
    /\ WF_wsVars(Test) /\ WF_wsVars(Send)
    /\ \A s \in Sessions : WF_wsVars(Writeable(s))

----------------------------------------------------------------------------
(* Properties.                                                             *)

\* What the ring keeps, oldest first.
Kept == [n \in 1..Waiting(oldest) |-> slot[(oldest + n - 1) % RingSize]]

\* A slot holds a payload exactly while it lies between the oldest tail and
\* the head (each payload is freed once, when the oldest tail passes), and
\* every session has its tail in that part.
PayloadExact ==
    /\ \A i \in WsSlots :
          IF (i - oldest) % RingSize < Waiting(oldest)
          THEN slot[i] \in Messages
          ELSE slot[i] = None
    /\ \A s \in live : Waiting(tail[s]) <= Waiting(oldest)
    /\ asked \union told \subseteq live

\* The ring with its tails implements one ordered stream for all sessions:
\* no message is skipped, sent twice or freed before every session has it.
Stream == INSTANCE Broadcast WITH
    Capacity <- RingSize - 1,
    kept <- Kept,
    left <- [s \in Sessions |-> IF s \in live THEN Waiting(tail[s]) ELSE 0]

ImplementsBroadcast == Stream!Spec

\* A session for which a message was inserted goes on until it has all: the
\* one at its tail is sent, whoever comes, goes or inserts meanwhile.  (A
\* session that finds old messages is not called before the next insertion.)
Delivered ==
    \A s \in Sessions, i \in WsSlots :
        (s \in told /\ tail[s] = i /\ i # head) ~> (s \notin live \/ tail[s] # i)

==============================================================================
