-------------------------------- MODULE Queue -------------------------------
(* The linked list every pair of threads of the server talks through         *)
(* (zen_rtsp/queue/queue.c): decoded radar objects and websocket data        *)
(* (FixEnQueue, DeQueue, CutQueue), frames waiting for the event thread      *)
(* (EnQueue, DeQueue), the frames of the last seconds (EnQueue,              *)
(* ConditionDeleteQueue) and everything camera_close empties (ClearQueue).   *)
(*                                                                           *)
(* The model is at the level of the C pointers: nodes come from a heap and   *)
(* are freed one at a time, a function that loops under q_lock is one step   *)
(* per turn, and the parts that run outside q_lock (the emptiness test of    *)
(* ClearQueue, the frees of ConditionDeleteQueue and of the callers) are     *)
(* steps of their own.  A critical section without a loop is one step.       *)
EXTENDS Naturals, Sequences, FiniteSets

CONSTANTS Threads,     \* threads of the server that use this queue
          Nodes,       \* addresses malloc can return for a qnode
          NULL,
          Times,       \* values of a node; for the frame queue, its timestamp
          Window,      \* seconds ConditionDeleteQueue keeps: 5
          FixSize      \* fix_size of every FixEnQueue on this queue: 3 or 50

ASSUME NullAssumption == NULL \notin Nodes /\ NULL \notin Threads
ASSUME TimeAssumption == Times \subseteq Nat /\ Times # {} /\ Window \in Nat
ASSUME SizeAssumption == FixSize \in Nat \ {0}

VARIABLES front, rear, size,    \* the Queue structure
          next, val,            \* the fields of the nodes
          heap,                 \* nodes malloc has handed out
          lock,                 \* owner of q_lock, NULL when free
          pc,                   \* where each thread is
          cur, last,            \* local node pointers of each thread
          ts,                   \* argument of ConditionDeleteQueue
          kind,                 \* how its users fill it: EnQueue or FixEnQueue
          q, det                \* history: the nodes in the list, in order, and
                                \* the nodes each thread took and has not freed

ptrs == <<front, rear, size>>
vars == <<front, rear, size, next, val, heap, lock, pc, cur, last, ts, kind,
          q, det>>

Pointers == Nodes \cup {NULL}
Steps == {"idle", "drop", "walk", "cond", "terminate", "clear", "clearing"}

AnyTime == CHOOSE v \in Times : TRUE    \* a field not written yet

Init == /\ front = NULL /\ rear = NULL /\ size = 0
        /\ next = [n \in Nodes |-> NULL]
        /\ val = [n \in Nodes |-> AnyTime]
        /\ heap = {}
        /\ lock = NULL
        /\ pc = [t \in Threads |-> "idle"]
        /\ cur = [t \in Threads |-> NULL]
        /\ last = [t \in Threads |-> NULL]
        /\ ts = [t \in Threads |-> AnyTime]
        /\ kind \in {"plain", "fix"}
        /\ q = <<>>
        /\ det = [t \in Threads |-> <<>>]

-----------------------------------------------------------------------------
IsEmpty == size = 0

\* the test of ConditionDeleteQueue on the front node
Expired(v, now) == v + Window < now \/ v > now

(* Operators whose name ends in _Bug are seeded faults: each is a plausible   *)
(* slip in the definition that follows it, and makes a property fail.         *)

\* pnode->next is left as malloc returned it
Link_Bug(n, v) == /\ heap' = heap \cup {n}
                  /\ val' = [val EXCEPT ![n] = v]
                  /\ next' = [m \in Nodes |-> IF ~IsEmpty /\ m = rear THEN n
                                              ELSE next[m]]
                  /\ rear' = n

\* malloc of node n with value v, linked behind rear
Link(n, v) == /\ heap' = heap \cup {n}
              /\ val' = [val EXCEPT ![n] = v]
              /\ next' = [m \in Nodes |-> IF m = n THEN NULL
                                          ELSE IF ~IsEmpty /\ m = rear THEN n
                                          ELSE next[m]]
              /\ rear' = n

Begin(t) == pc[t] = "idle" /\ lock = NULL

EnQueue(t, n, v) ==
    /\ Begin(t) /\ kind = "plain" /\ n \notin heap
    /\ Link(n, v)
    /\ front' = IF IsEmpty THEN n ELSE front
    /\ size' = size + 1
    /\ q' = Append(q, n)
    /\ UNCHANGED <<lock, pc, cur, last, ts, kind, det>>

\* the test FixEnQueue makes on size before it counts the new node
Full_Bug == size > FixSize
Full_Bug2 == size + 1 = FixSize
Full == size = FixSize

FixEnQueue(t, n, v) ==
    LET first == IF IsEmpty THEN n ELSE front IN
    /\ Begin(t) /\ kind = "fix" /\ n \notin heap
    /\ Link(n, v)
    /\ IF Full
          THEN /\ front' = next'[first]
               /\ cur' = [cur EXCEPT ![t] = first]
               /\ pc' = [pc EXCEPT ![t] = "drop"]
               /\ q' = Append(Tail(q), n)
               /\ det' = [det EXCEPT ![t] = <<Head(q)>>]
               /\ UNCHANGED size
          ELSE /\ front' = first
               /\ size' = size + 1
               /\ q' = Append(q, n)
               /\ UNCHANGED <<cur, pc, det>>
    /\ UNCHANGED <<lock, last, ts, kind>>

DeQueue(t) ==
    /\ Begin(t) /\ ~IsEmpty
    /\ cur' = [cur EXCEPT ![t] = front]
    /\ size' = size - 1
    /\ front' = next[front]
    /\ rear' = IF size' = 0 THEN NULL ELSE rear
    /\ pc' = [pc EXCEPT ![t] = "drop"]
    /\ q' = Tail(q)
    /\ det' = [det EXCEPT ![t] = <<Head(q)>>]
    /\ UNCHANGED <<next, val, heap, lock, last, ts, kind>>

CutQueue(t) ==
    /\ Begin(t) /\ front # NULL
    /\ cur' = [cur EXCEPT ![t] = front]
    /\ front' = NULL /\ rear' = NULL /\ size' = 0
    /\ pc' = [pc EXCEPT ![t] = "walk"]
    /\ q' = <<>>
    /\ det' = [det EXCEPT ![t] = q]
    /\ UNCHANGED <<next, val, heap, lock, last, ts, kind>>

Rest(s) == IF s = <<>> THEN s ELSE Tail(s)

\* free of one node, by its only remaining holder
Free(t) == /\ heap' = heap \ {cur[t]}
           /\ det' = [det EXCEPT ![t] = Rest(det[t])]

\* the caller of DeQueue or FixEnQueue frees the node it was given
FreeDropped(t) ==
    /\ pc[t] = "drop"
    /\ Free(t)
    /\ cur' = [cur EXCEPT ![t] = NULL]
    /\ pc' = [pc EXCEPT ![t] = "idle"]
    /\ UNCHANGED <<ptrs, next, val, lock, last, ts, kind, q>>

\* one turn of the loop that frees a whole chain, after CutQueue (the caller's
\* loop) and after ConditionDeleteQueue released the lock
FreeChain(t) ==
    /\ pc[t] = "walk"
    /\ Free(t)
    /\ cur' = [cur EXCEPT ![t] = next[cur[t]]]
    /\ pc' = [pc EXCEPT ![t] = IF next[cur[t]] = NULL THEN "idle" ELSE "walk"]
    /\ UNCHANGED <<ptrs, next, val, lock, last, ts, kind, q>>

-----------------------------------------------------------------------------
(* ConditionDeleteQueue *)

CondBegin(t, now) ==
    /\ Begin(t) /\ ~IsEmpty
    /\ lock' = t
    /\ cur' = [cur EXCEPT ![t] = front]
    /\ last' = [last EXCEPT ![t] = NULL]
    /\ ts' = [ts EXCEPT ![t] = now]
    /\ pc' = [pc EXCEPT ![t] = "cond"]
    /\ UNCHANGED <<ptrs, next, val, heap, kind, q, det>>

CondStep(t) ==
    /\ pc[t] = "cond" /\ front # NULL /\ Expired(val[front], ts[t])
    /\ last' = [last EXCEPT ![t] = front]
    /\ front' = next[front]
    /\ size' = size - 1
    /\ q' = Tail(q)
    /\ det' = [det EXCEPT ![t] = Append(det[t], Head(q))]
    /\ UNCHANGED <<rear, next, val, heap, lock, pc, cur, ts, kind>>

CondUnlock(t) ==
    /\ pc[t] = "cond"
    /\ ~(front # NULL /\ Expired(val[front], ts[t]))
    /\ rear' = IF IsEmpty THEN NULL ELSE rear
    /\ lock' = NULL
    /\ IF last[t] = NULL
          THEN /\ pc' = [pc EXCEPT ![t] = "idle"]
               /\ cur' = [cur EXCEPT ![t] = NULL]
          ELSE /\ pc' = [pc EXCEPT ![t] = "terminate"]
               /\ UNCHANGED cur
    /\ UNCHANGED <<front, size, next, val, heap, last, ts, kind, q, det>>

CondTerminate_Bug(t) ==
    /\ pc[t] = "terminate"
    /\ last' = [last EXCEPT ![t] = NULL]
    /\ pc' = [pc EXCEPT ![t] = "walk"]
    /\ UNCHANGED <<ptrs, next, val, heap, lock, cur, ts, kind, q, det>>

\* tmp_node->next = NULL, outside the lock
CondTerminate(t) ==
    /\ pc[t] = "terminate"
    /\ next' = [next EXCEPT ![last[t]] = NULL]
    /\ last' = [last EXCEPT ![t] = NULL]
    /\ pc' = [pc EXCEPT ![t] = "walk"]
    /\ UNCHANGED <<ptrs, val, heap, lock, cur, ts, kind, q, det>>

-----------------------------------------------------------------------------
(* ClearQueue *)

\* the emptiness test reads size without the lock
ClearTest(t) ==
    /\ pc[t] = "idle" /\ ~IsEmpty
    /\ pc' = [pc EXCEPT ![t] = "clear"]
    /\ UNCHANGED <<ptrs, next, val, heap, lock, cur, last, ts, kind, q, det>>

ClearBegin(t) ==
    /\ pc[t] = "clear" /\ lock = NULL
    /\ lock' = t
    /\ cur' = [cur EXCEPT ![t] = front]
    /\ pc' = [pc EXCEPT ![t] = "clearing"]
    /\ q' = <<>>
    /\ det' = [det EXCEPT ![t] = q]
    /\ UNCHANGED <<ptrs, next, val, heap, last, ts, kind>>

ClearStep(t) ==
    /\ pc[t] = "clearing" /\ cur[t] # NULL
    /\ Free(t)
    /\ cur' = [cur EXCEPT ![t] = next[cur[t]]]
    /\ UNCHANGED <<ptrs, next, val, lock, pc, last, ts, kind, q>>

ClearEnd(t) ==
    /\ pc[t] = "clearing" /\ cur[t] = NULL
    /\ size' = 0 /\ front' = NULL /\ rear' = NULL
    /\ lock' = NULL
    /\ pc' = [pc EXCEPT ![t] = "idle"]
    /\ UNCHANGED <<next, val, heap, cur, last, ts, kind, q, det>>

-----------------------------------------------------------------------------
Next == \E t \in Threads :
          \/ \E n \in Nodes, v \in Times : EnQueue(t, n, v) \/ FixEnQueue(t, n, v)
          \/ DeQueue(t) \/ CutQueue(t) \/ FreeDropped(t) \/ FreeChain(t)
          \/ \E now \in Times : CondBegin(t, now)
          \/ CondStep(t) \/ CondUnlock(t) \/ CondTerminate(t)
          \/ ClearTest(t) \/ ClearBegin(t) \/ ClearStep(t) \/ ClearEnd(t)

Spec == Init /\ [][Next]_vars

-----------------------------------------------------------------------------
(* Properties *)

Elems(s) == {s[i] : i \in 1..Len(s)}

\* Every field has its type and q_lock is held exactly by the thread that is
\* inside a critical section of several steps.
TypeOK ==
    /\ front \in Pointers /\ rear \in Pointers /\ size \in Nat
    /\ next \in [Nodes -> Pointers] /\ val \in [Nodes -> Times]
    /\ heap \subseteq Nodes
    /\ lock \in Threads \cup {NULL}
    /\ pc \in [Threads -> Steps]
    /\ cur \in [Threads -> Pointers] /\ last \in [Threads -> Pointers]
    /\ ts \in [Threads -> Times]
    /\ kind \in {"plain", "fix"}
    /\ q \in Seq(Nodes) /\ det \in [Threads -> Seq(Nodes)]
    /\ \A t \in Threads : pc[t] \in {"cond", "clearing"} <=> lock = t

Clearing == lock # NULL /\ pc[lock] = "clearing"

\* front, rear, size and the next links describe one list: what the queue holds
\* can be reached from front in size hops, ends at rear, and rear->next is NULL
\* (the next EnQueue writes through it).
ListIntact ==
    /\ ~Clearing => /\ size = Len(q)
                    /\ front = IF q = <<>> THEN NULL ELSE Head(q)
    /\ q # <<>> => /\ rear = q[Len(q)]
                   /\ next[rear] = NULL
                   /\ \A i \in 1..(Len(q) - 1) : next[q[i]] = q[i + 1]

\* No node is reachable twice: not from two places of the list, not from the
\* list and from a thread that is about to free it, not from two threads.  This
\* is what makes it safe that ConditionDeleteQueue and the callers free after
\* q_lock is released.
NoSharedNode ==
    /\ \A i, j \in 1..Len(q) : q[i] = q[j] => i = j
    /\ \A t \in Threads :
         /\ \A i, j \in 1..Len(det[t]) : det[t][i] = det[t][j] => i = j
         /\ Elems(det[t]) \cap Elems(q) = {}
         /\ \A u \in Threads \ {t} : Elems(det[t]) \cap Elems(det[u]) = {}

\* Nothing is freed twice or used after it was freed, and nothing leaks: no node
\* is shared, the allocated nodes are exactly those in the list and those a thread
\* still has to free, and the local pointer of a thread stands at the first of those.
HeapExact ==
    /\ TypeOK /\ NoSharedNode
    /\ heap = Elems(q) \cup UNION {Elems(det[t]) : t \in Threads}
    /\ \A t \in Threads :
         /\ pc[t] \in {"drop", "walk", "terminate", "clearing"} =>
              cur[t] = IF det[t] = <<>> THEN NULL ELSE Head(det[t])
         /\ pc[t] \in {"drop", "walk", "terminate"} => det[t] # <<>>
         /\ pc[t] \in {"idle", "clear"} => det[t] = <<>>

\* A queue filled by FixEnQueue never exceeds fix_size, although FixEnQueue
\* drops only when size is exactly fix_size: no interleaving gets past it.
FixBound == kind = "fix" => size <= FixSize

\* what the pointers describe, hop by hop from front
Contents ==
    LET hop[i \in 1..size] == IF i = 1 THEN front ELSE next[hop[i - 1]]
    IN  IF Clearing THEN <<>> ELSE [i \in 1..size |-> val[hop[i]]]

\* The pointer structure implements a first-in first-out list: values leave in
\* the order they came, only from the old end, whatever the interleaving.
Abstract == INSTANCE Fifo WITH Values <- Times, Capacity <- FixSize,
                               items <- Contents
ImplementsFifo == Abstract!Spec
=============================================================================
