-------------------------------- MODULE Fifo --------------------------------
(* What queue/queue.c promises to its users: a first-in first-out list of    *)
(* values.  A "plain" queue grows without bound; a "fix" queue never holds   *)
(* more than Capacity values, the oldest making room for the newest.         *)
EXTENDS Naturals, Sequences

CONSTANTS Values,      \* what the nodes carry
          Capacity     \* the fix_size every FixEnQueue of a queue passes

VARIABLES items,       \* the values, oldest first
          kind         \* "plain" or "fix"

Init == /\ items = <<>>
        /\ kind \in {"plain", "fix"}

\* EnQueue
Put(v) == /\ kind = "plain"
          /\ items' = Append(items, v)
          /\ UNCHANGED kind

\* FixEnQueue
PutFixed(v) == /\ kind = "fix"
               /\ items' = IF Len(items) = Capacity
                              THEN Append(Tail(items), v)
                              ELSE Append(items, v)
               /\ UNCHANGED kind

\* DeQueue, and one turn of the loop of ConditionDeleteQueue
Get == /\ items # <<>>
       /\ items' = Tail(items)
       /\ UNCHANGED kind

\* CutQueue and ClearQueue
Empty == /\ items' = <<>>
         /\ UNCHANGED kind

Next == \/ \E v \in Values : Put(v) \/ PutFixed(v)
        \/ Get
        \/ Empty

Spec == Init /\ [][Next]_<<items, kind>>
=============================================================================
