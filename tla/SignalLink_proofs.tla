-------------------------- MODULE SignalLink_proofs --------------------------
(***************************************************************************)
(* For any number of descriptors, resets and breaks: in protocol NANJING   *)
(* and before the first reset, the state word alone keeps the service and  *)
(* the timers apart (OneSocket, ForeignUntouched).                         *)
(*                                                                         *)
(* The argument: only the service announces CONNECTED and only a timer     *)
(* takes it back, as its last step; so a timer that is busy finds the      *)
(* service polling, and mutex_lock keeps the other timer out.  IAlone says *)
(* for every place the two can be in what sig_fd is then; when no port is  *)
(* set the service goes from the new socket to CONNECTED at once.          *)
(*                                                                         *)
(* In both protocols and with resets: the locks keep the timers apart at   *)
(* least from each other (SendersApart), and no reset leaves the link      *)
(* without a state that makes the service act (ResetLeavesState).          *)
(***************************************************************************)
EXTENDS SignalLink, TLAPS

Own(f) == use[f] \in {"new", "linked", "broken"}
Up == sig_fd \in Fds /\ use[sig_fd] \in IF port THEN {"linked", "broken"} ELSE {"new"}
New == sig_fd \in Fds /\ use[sig_fd] = "new"
Gone == sig_fd \in Fds => ~Own(sig_fd)

IService ==
    sig_state = "PRE_CONNECT" =>
        /\ service.pc \in {"poll", "look", "create"} => sig_fd = Closed
        /\ service.pc \in {"enter", "sleep", "connect", "close"} => New
        /\ service.pc \in {"sleep", "connect"} => port
        /\ service.pc = "connect" => service.fd = sig_fd
        /\ service.pc = "clear" => Gone
        /\ service.pc = "set" => Up

ITimers ==
    sig_state = "CONNECTED" =>
        /\ service.pc = "poll"
        /\ (\A t \in Timers : timer[t].pc \in {"idle", "lock", "send", "close"}) => Up
        /\ \A t \in Timers :
            /\ timer[t].pc = "send" => timer[t].fd = sig_fd
            /\ timer[t].pc = "clear" => Gone
            /\ timer[t].pc = "pre" => sig_fd = Closed

ILock ==
    \A t \in Timers :
        timer[t].pc # "idle" => held["mutex_lock"] = t /\ sig_state = "CONNECTED"

IAlone ==
    /\ tcp = "idle"
    /\ sig_state # "NULL"
    /\ \A f \in Fds : Own(f) => sig_fd = f
    /\ IService
    /\ ITimers
    /\ ILock

IInv == TypeOK /\ (Alone => IAlone)

----------------------------------------------------------------------------
LEMMA InitInv == Init => IInv
  <1> SUFFICES ASSUME Init PROVE IInv
    OBVIOUS
  <1> USE DEF Init, Closed, Timers, Locks
  <1>1. TypeOK
    BY BoundsAssumption, ProtocolsAssumption DEF TypeOK
  <1>2. IAlone
    BY DEF IAlone, IService, ITimers, ILock, Own
  <1> QED
    BY <1>1, <1>2 DEF IInv

----------------------------------------------------------------------------
(* Types.                                                                  *)

LEMMA TypeService == ASSUME TypeOK, Service PROVE TypeOK'
  <1> USE FdsAssumption DEF TypeOK, world, site, link, Closed, ServiceAt, CloseNumber
  <1>1. CASE Poll
    BY <1>1 DEF Poll
  <1>9. CASE Look
    BY <1>9 DEF Look
  <1>2. CASE Create
    BY <1>2 DEF Create
  <1>3. CASE Enter
    BY <1>3 DEF Enter
  <1>4. CASE Wake
    BY <1>4 DEF Wake
  <1>5. CASE Connect
    BY <1>5 DEF Connect
  <1>6. CASE ServiceClose
    BY <1>6 DEF ServiceClose
  <1>7. CASE ServiceClear
    BY <1>7 DEF ServiceClear
  <1>8. CASE SetConnected
    BY <1>8 DEF SetConnected
  <1> QED
    BY <1>1, <1>2, <1>3, <1>4, <1>5, <1>6, <1>7, <1>8, <1>9 DEF Service

LEMMA TypeTimer == ASSUME TypeOK, NEW t \in Timers, Timer(t) PROVE TypeOK'
  <1> USE FdsAssumption DEF TypeOK, world, site, link, Closed, TimerAt, Take, Finish, CloseNumber
  <1>1. CASE Turn(t)
    BY <1>1 DEF Turn
  <1>2. CASE LockInner(t)
    BY <1>2 DEF LockInner
  <1>3. CASE Send(t)
    BY <1>3 DEF Send, Empty
  <1>4. CASE TimerClose(t)
    BY <1>4 DEF TimerClose
  <1>5. CASE TimerClear(t)
    BY <1>5 DEF TimerClear
  <1>6. CASE SetPre(t)
    BY <1>6 DEF SetPre
  <1> QED
    BY <1>1, <1>2, <1>3, <1>4, <1>5, <1>6 DEF Timer

LEMMA TypeReset == ASSUME TypeOK, Reset \/ ResetStep PROVE TypeOK'
  <1> USE FdsAssumption, BoundsAssumption DEF TypeOK, world, site, link, Closed, CloseNumber
  <1>1. CASE Reset
    BY <1>1 DEF Reset
  <1>2. CASE ResetClose
    BY <1>2 DEF ResetClose
  <1>3. CASE Forget
    BY <1>3 DEF Forget
  <1>5. CASE SetPort
    BY <1>5 DEF SetPort
  <1>4. CASE ResetState
    BY <1>4 DEF ResetState, SetState
  <1> QED
    BY <1>1, <1>2, <1>3, <1>4, <1>5 DEF ResetStep

World == Break \/ Return \/ Cameras \/ \E f \in Fds : OtherOpen(f) \/ OtherClose(f)

LEMMA TypeWorld == ASSUME TypeOK, World PROVE TypeOK'
  <1> USE BoundsAssumption DEF TypeOK, world, site, link, Closed
  <1>1. CASE Break
    <2>1. use' \in [Fds -> {"free", "new", "linked", "broken", "other"}]
      BY <1>1 DEF Break
    <2>2. breaks' \in 0..MaxBreaks
      BY <1>1 DEF Break
    <2>3. peer' \in {"up", "stuck", "gone"}
      BY <1>1 DEF Break
    <2> QED
      BY <1>1, <2>1, <2>2, <2>3 DEF Break
  <1>2. CASE Return
    BY <1>2 DEF Return
  <1>5. CASE Cameras
    BY <1>5 DEF Cameras
  <1>3. ASSUME NEW f \in Fds, OtherOpen(f) PROVE TypeOK'
    BY <1>3 DEF OtherOpen
  <1>4. ASSUME NEW f \in Fds, OtherClose(f) PROVE TypeOK'
    BY <1>4 DEF OtherClose
  <1> QED
    BY <1>1, <1>2, <1>3, <1>4, <1>5 DEF World

LEMMA TypeStep == ASSUME TypeOK, [Next]_vars PROVE TypeOK'
  <1>1. CASE UNCHANGED vars
    BY <1>1 DEF TypeOK, vars, world, site, link
  <1> QED
    BY <1>1, TypeService, TypeTimer, TypeReset, TypeWorld DEF Next, World

----------------------------------------------------------------------------
(* One step of each actor, in protocol NANJING before the first reset.     *)

LEMMA AloneService == ASSUME TypeOK, Alone, IAlone, Service PROVE IAlone'
  <1> USE FdsAssumption
      DEF TypeOK, world, site, link, Closed, ServiceAt, CloseNumber, Use, Timers,
          IAlone, IService, ITimers, ILock, Own, Up, New, Gone
  <1>1. CASE Poll
    BY <1>1 DEF Poll
  <1>9. CASE Look
    BY <1>9 DEF Look
  <1>2. CASE Create
    BY <1>2 DEF Create, Lowest
  <1>3. CASE Enter
    BY <1>3 DEF Enter
  <1>4. CASE Wake
    BY <1>4 DEF Wake
  <1>5. CASE Connect
    BY <1>5 DEF Connect
  <1>6. CASE ServiceClose
    BY <1>6 DEF ServiceClose
  <1>7. CASE ServiceClear
    BY <1>7 DEF ServiceClear
  <1>8. CASE SetConnected
    BY <1>8 DEF SetConnected
  <1> QED
    BY <1>1, <1>2, <1>3, <1>4, <1>5, <1>6, <1>7, <1>8, <1>9 DEF Service

LEMMA AloneTimer ==
  ASSUME TypeOK, Alone, IAlone, NEW t \in Timers, Timer(t) PROVE IAlone'
  <1> USE FdsAssumption
      DEF TypeOK, world, site, link, Closed, TimerAt, Take, Finish, CloseNumber, Use,
          Timers, Locks, IAlone, IService, ITimers, ILock, Own, Up, New, Gone
  <1>1. CASE Turn(t)
    BY <1>1 DEF Turn, Alone, Outer
  <1>2. CASE LockInner(t)
    BY <1>2 DEF LockInner, Alone, Inner
  <1>3. CASE Send(t)
    BY <1>3 DEF Send, Empty
  <1>4. CASE TimerClose(t)
    BY <1>4 DEF TimerClose
  <1>5. CASE TimerClear(t)
    BY <1>5 DEF TimerClear
  <1>6. CASE SetPre(t)
    BY <1>6 DEF SetPre
  <1> QED
    BY <1>1, <1>2, <1>3, <1>4, <1>5, <1>6 DEF Timer

LEMMA AloneWorld == ASSUME TypeOK, IAlone, World PROVE IAlone'
  <1> USE DEF TypeOK, world, site, link, Timers, IAlone, IService, ITimers, ILock,
              Own, Up, New, Gone
  <1>1. CASE Break
    BY <1>1 DEF Break
  <1>2. CASE Return
    BY <1>2 DEF Return
  <1>5. CASE Cameras
    BY <1>5 DEF Cameras
  <1>3. ASSUME NEW f \in Fds, OtherOpen(f) PROVE IAlone'
    BY <1>3 DEF OtherOpen, Lowest
  <1>4. ASSUME NEW f \in Fds, OtherClose(f) PROVE IAlone'
    BY <1>4 DEF OtherClose
  <1> QED
    BY <1>1, <1>2, <1>3, <1>4, <1>5 DEF World

(* The protocol stays, a reset is counted for good, and a thread of the TCP *)
(* side that resets nothing has nothing to do.                              *)
LEMMA AloneBefore == ASSUME TypeOK, [Next]_vars, Alone' PROVE Alone /\ ~Reset
  <1>1. pro_type' = pro_type
    BY DEF Next, vars, world, site, Service, Poll, Look, Create, Enter, Wake, Connect,
           ServiceClose, ServiceClear, SetConnected, Timer, Turn, LockInner, Send,
           TimerClose, TimerClear, SetPre, Reset, ResetStep, ResetClose, Forget, SetPort,
           ResetState, Break, Return, Cameras, OtherOpen, OtherClose
  <1>2. resets' = resets \/ (Reset /\ resets' = resets + 1)
    BY DEF Next, vars, world, site, Service, Poll, Look, Create, Enter, Wake, Connect,
           ServiceClose, ServiceClear, SetConnected, Timer, Turn, LockInner, Send,
           TimerClose, TimerClear, SetPre, Reset, ResetStep, ResetClose, Forget, SetPort,
           ResetState, Break, Return, Cameras, OtherOpen, OtherClose
  <1>3. ~Reset
    BY BoundsAssumption DEF Alone, TypeOK, Reset
  <1> QED
    BY <1>1, <1>2, <1>3 DEF Alone

LEMMA InvStep == ASSUME IInv, [Next]_vars PROVE IInv'
  <1>1. TypeOK'
    BY TypeStep DEF IInv
  <1>2. ASSUME Alone' PROVE IAlone'
    <2>1. Alone /\ ~Reset /\ TypeOK /\ IAlone
      BY <1>2, AloneBefore DEF IInv
    <2>2. CASE UNCHANGED vars
      BY <2>1, <2>2 DEF vars, world, site, link, IAlone, IService, ITimers, ILock, Own,
                        Up, New, Gone
    <2>3. ~ResetStep
      BY <2>1 DEF IAlone, ResetStep, ResetClose, Forget, SetPort, ResetState, SetState
    <2> QED
      BY <2>1, <2>2, <2>3, AloneService, AloneTimer, AloneWorld DEF Next, World
  <1> QED
    BY <1>1, <1>2 DEF IInv

----------------------------------------------------------------------------
\* The link's state is of its type throughout: descriptor, state word, places
\* and locks.
THEOREM LinkTypes == Spec => []TypeOK
  <1>1. IInv => TypeOK
    BY DEF IInv
  <1> QED
    BY <1>1, InitInv, InvStep, PTL DEF Spec

\* In protocol NANJING, before the first reset, no socket of the link is lost
\* open; what is announced as connected was connected if a port is set, and is a
\* socket that never was if none is.
THEOREM SocketKept == Spec => []OneSocket
  <1>1. IInv => OneSocket
    BY DEF IInv, IAlone, IService, ITimers, ILock, OneSocket, TypeOK, Own, Up, Use,
           Timers
  <1> QED
    BY <1>1, InitInv, InvStep, PTL DEF Spec

\* Under the same conditions the link sends to and closes its own socket only.
THEOREM OthersLeftAlone == Spec => []ForeignUntouched
  <1>1. IInv => ForeignUntouched
    BY DEF IInv, IAlone, IService, ITimers, ILock, ForeignUntouched, TypeOK, Own,
           Up, New, Use, Timers, Alone, Closed
  <1> QED
    BY <1>1, InitInv, InvStep, PTL DEF Spec

----------------------------------------------------------------------------
(* The locks and the resets, in both protocols.                            *)

\* Between the lock around the send and the end of its turn.
Sending(t) == timer[t].pc \in {"send", "close", "clear", "pre"}

\* A timer holds exactly the locks of the place it is at.
LocksExact ==
    \A t \in Timers, l \in Locks :
        held[l] = t <=> \/ timer[t].pc # "idle" /\ l \in Outer(t)
                        \/ Sending(t) /\ l \in Inner(t)

\* At most one timer is sending on the link or taking it down.
OneSender == \A t, u \in Timers : Sending(t) /\ Sending(u) => t = u

\* The link is left without a state that brings it up only while a reset is going on.
ResetEnds == sig_state = "NULL" => tcp # "idle"

LEMMA LocksStep == ASSUME TypeOK, LocksExact, [Next]_vars PROVE LocksExact'
  <1> USE DEF TypeOK, world, site, link, Timers, Locks
  <1>1. ASSUME NEW t \in Timers, Timer(t) PROVE LocksExact'
    <2> USE DEF LocksExact, Sending, Outer, Inner, TimerAt, Take, Finish
    <2>1. CASE Turn(t)
      BY <2>1 DEF Turn
    <2>2. CASE LockInner(t)
      BY <2>2 DEF LockInner
    <2>3. CASE Send(t)
      BY <2>3 DEF Send, Empty
    <2>4. CASE TimerClose(t)
      BY <2>4 DEF TimerClose
    <2>5. CASE TimerClear(t)
      BY <2>5 DEF TimerClear
    <2>6. CASE SetPre(t)
      BY <2>6 DEF SetPre
    <2> QED
      BY <1>1, <2>1, <2>2, <2>3, <2>4, <2>5, <2>6 DEF Timer
  <1>2. ASSUME UNCHANGED <<pro_type, timer, held>> PROVE LocksExact'
    BY <1>2 DEF LocksExact, Sending, Outer, Inner
  <1>3. CASE Service
    BY <1>2, <1>3 DEF Service, Poll, Look, Create, Enter, Wake, Connect, ServiceClose,
                      ServiceClear, SetConnected
  <1>4. CASE Reset \/ ResetStep
    BY <1>2, <1>4 DEF Reset, ResetStep, ResetClose, Forget, SetPort, ResetState
  <1>5. CASE World
    BY <1>2, <1>5 DEF World, Break, Return, Cameras, OtherOpen, OtherClose
  <1>6. CASE UNCHANGED vars
    BY <1>2, <1>6 DEF vars
  <1> QED
    BY <1>1, <1>3, <1>4, <1>5, <1>6 DEF Next, World

LEMMA ResetsStep == ASSUME ResetEnds, [Next]_vars PROVE ResetEnds'
  <1> USE DEF ResetEnds, world, link
  <1>1. CASE Service
    BY <1>1 DEF Service, Poll, Look, Create, Enter, Wake, Connect, ServiceClose,
                ServiceClear, SetConnected
  <1>2. ASSUME NEW t \in Timers, Timer(t) PROVE ResetEnds'
    BY <1>2 DEF Timer, Turn, LockInner, Send, TimerClose, TimerClear, SetPre
  <1>3. CASE Reset \/ ResetStep
    BY <1>3 DEF Reset, ResetStep, ResetClose, Forget, SetPort, ResetState, SetState
  <1>4. CASE World \/ UNCHANGED vars
    BY <1>4 DEF World, Break, Return, Cameras, OtherOpen, OtherClose, vars
  <1> QED
    BY <1>1, <1>2, <1>3, <1>4 DEF Next, World

\* In both protocols and whatever is reset: no two timers send, close or clear at one
\* time, and none leaves a lock behind.
THEOREM SendersApart == Spec => [](LocksExact /\ OneSender)
  <1>1. Init => TypeOK /\ LocksExact
    <2>1. Init => LocksExact
      BY DEF Init, LocksExact, Sending, Timers, Locks
    <2> QED
      BY <2>1, InitInv DEF IInv
  <1>2. TypeOK /\ LocksExact /\ [Next]_vars => (TypeOK /\ LocksExact)'
    BY TypeStep, LocksStep
  <1>3. TypeOK /\ LocksExact => OneSender
    BY DEF TypeOK, LocksExact, OneSender, Sending, Outer, Inner, Timers, Locks
  <1> QED
    BY <1>1, <1>2, <1>3, PTL DEF Spec

\* Whatever the service and the timers write meanwhile, a reset that is over has
\* left a state in which the link is up or is going to be made again.
THEOREM ResetLeavesState == Spec => []ResetEnds
  <1>1. Init => TypeOK /\ ResetEnds
    <2>1. Init => ResetEnds
      BY DEF Init, ResetEnds
    <2> QED
      BY <2>1, InitInv DEF IInv
  <1>2. TypeOK /\ ResetEnds /\ [Next]_vars => (TypeOK /\ ResetEnds)'
    BY TypeStep, ResetsStep
  <1> QED
    BY <1>1, <1>2, PTL DEF Spec
=============================================================================
