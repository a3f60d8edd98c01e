------------------------------ MODULE Broadcast ------------------------------
(***************************************************************************)
(* What the websocket output promises: one stream of messages for every    *)
(* session.  A session gets each message published while it is live, once  *)
(* and in the order of publication, after those that were kept when it     *)
(* came; a message is kept at least until every live session has got it,   *)
(* and at most Capacity messages are kept.                                 *)
(***************************************************************************)
EXTENDS Naturals, Sequences

CONSTANTS
    Sessions,
    Messages,
    Capacity,
    None        \* not a message

VARIABLES
    live,   \* the sessions connected
    kept,   \* the messages kept, oldest first
    left,   \* left[s]: how many of the last messages kept s has still to get
    got     \* got[s]: the message s was given last

vars == <<live, kept, left, got>>

Init ==
    /\ live = {}
    /\ kept = <<>>
    /\ left = [s \in Sessions |-> 0]
    /\ got = [s \in Sessions |-> None]

Join(s) ==
    /\ s \notin live
    /\ live' = live \union {s}
    /\ left' = [left EXCEPT ![s] = Len(kept)]
    /\ got' = [got EXCEPT ![s] = None]
    /\ UNCHANGED kept

Leave(s) ==
    /\ s \in live
    /\ live' = live \ {s}
    /\ left' = [left EXCEPT ![s] = 0]
    /\ got' = [got EXCEPT ![s] = None]
    /\ UNCHANGED kept

Publish(m) ==
    /\ Len(kept) < Capacity
    /\ kept' = Append(kept, m)
    /\ left' = [s \in Sessions |-> IF s \in live THEN left[s] + 1 ELSE 0]
    /\ UNCHANGED <<live, got>>

\* A session is given its next message; messages no session needs may go.
Serve(s) ==
    /\ s \in live
    /\ left[s] \in 1..Len(kept)
    /\ got' = [got EXCEPT ![s] = kept[Len(kept) - left[s] + 1]]
    /\ left' = [left EXCEPT ![s] = left[s] - 1]
    /\ \E n \in 0..Len(kept) :
          /\ \A t \in live : left'[t] <= Len(kept) - n
          /\ kept' = SubSeq(kept, n + 1, Len(kept))
    /\ UNCHANGED live

Next ==
    \/ \E s \in Sessions : Join(s) \/ Leave(s) \/ Serve(s)
    \/ \E m \in Messages : Publish(m)

Spec == Init /\ [][Next]_vars
==============================================================================
