------------------------------ MODULE SignalLink ------------------------------
(***************************************************************************)
(* The connection to the signal machine (sig_service.c).  One descriptor,  *)
(* sig_fd, and one state word, sig_state, are shared by                    *)
(*   - sig_service_thread, which makes the connection,                     *)
(*   - the timers of the protocol, which send over it and take it down     *)
(*     when a send fails,                                                  *)
(*   - the TCP thread, which resets it when the operator changes the       *)
(*     address or the protocol (reset_sig_machine).                        *)
(* No lock protects either; two locks keep most timers apart.  Descriptors *)
(* are numbers, and a number that is closed may go to any other thread of  *)
(* the program: that is why who closes what, and when, matters.            *)
(***************************************************************************)
EXTENDS Integers

CONSTANTS
    Protocols,  \* the protocols to start with
    Fds,        \* the descriptors there are
    MaxResets,  \* bound: resets by the operator
    MaxBreaks   \* bound: times the signal machine goes away

ASSUME ProtocolsAssumption == Protocols \subseteq {"NANJING", "HAIXIN"}
ASSUME FdsAssumption == Fds \subseteq Nat \ {0}
ASSUME BoundsAssumption == MaxResets \in Nat /\ MaxBreaks \in Nat

Timers == {"realtime", "in_out"}
Locks == {"mutex_lock", "yhl_mutex_lock"}
Closed == -1

VARIABLES
    pro_type,   \* g_ivddevsets.pro_type, NANJING or HAIXIN
    port,       \* whether sig_port is more than 0
    counting,   \* whether a camera that exists has detecttype 2
    sig_state,
    sig_fd,
    use,        \* what each descriptor is: "free", a socket of the link that is
                \* "new", "linked" or "broken", or "other" for another thread's
    peer,       \* the signal machine: "up", "stuck" when it accepts connections
                \* and reads slowly or not at all, "gone"
    service,    \* sig_service_thread: where it is, the descriptor it connects
    timer,      \* the timers: where they are, the descriptor they send to
    tcp,        \* where reset_sig_machine is
    held,       \* the locks that are held, and by which timer
    resets, breaks      \* history: how many there were

link == <<sig_state, sig_fd>>
site == <<pro_type, port, counting>>
world == <<site, peer, resets, breaks>>
vars == <<world, link, use, service, timer, tcp, held>>

Init ==
    /\ pro_type \in Protocols
    /\ port \in BOOLEAN /\ counting \in BOOLEAN
    /\ sig_state = "PRE_CONNECT"
    /\ sig_fd = Closed
    /\ use = [f \in Fds |-> "free"]
    /\ peer = "up"
    /\ service = [pc |-> "poll", fd |-> Closed]
    /\ timer = [t \in Timers |-> [pc |-> "idle", fd |-> Closed]]
    /\ tcp = "idle"
    /\ held = [l \in Locks |-> "nobody"]
    /\ resets = 0 /\ breaks = 0

\* The use of a number that a call is given: an error when it is not open.
Use(f) == IF f \in Fds THEN use[f] ELSE "free"

\* The system gives the lowest number that is free.
Lowest(f) == use[f] = "free" /\ \A g \in Fds : g < f => use[g] # "free"

\* The first half of close_socket(&sig_fd): shutdown and close of the number
\* that sig_fd has now.  The second half sets sig_fd to -1.
CloseNumber ==
    use' = IF sig_fd \in Fds THEN [use EXCEPT ![sig_fd] = "free"] ELSE use

----------------------------------------------------------------------------
(* sig_service_thread                                                      *)

ServiceAt(pc) == service' = [service EXCEPT !.pc = pc]

Poll ==
    /\ service.pc = "poll"
    /\ sig_state = "PRE_CONNECT"
    /\ ServiceAt("look")
    /\ UNCHANGED <<world, link, use, timer, tcp, held>>

Look ==
    /\ service.pc = "look"
    /\ ServiceAt(IF sig_fd <= 0 THEN "create" ELSE "enter")
    /\ UNCHANGED <<world, link, use, timer, tcp, held>>

Create ==
    /\ service.pc = "create"
    /\ \/ /\ \E f \in Fds :
             /\ Lowest(f)
             /\ use' = [use EXCEPT ![f] = "new"]
             /\ sig_fd' = f
          /\ ServiceAt("enter")
       \/ /\ \A f \in Fds : use[f] # "free"
          /\ sig_fd' = -1
          /\ ServiceAt("poll")
          /\ UNCHANGED use
    /\ UNCHANGED <<world, sig_state, timer, tcp, held>>

\* The descriptor is looked at twice more, for an error of creat_sig_sock and in
\* connect_sig; if it is closed meanwhile the first look goes back to the start
\* and connect_sig returns a variable that was never set.  Without a port there
\* is no connect_sig, and the socket goes on as it is.
Enter ==
    /\ service.pc = "enter"
    /\ \/ sig_fd > 0 /\ port /\ ServiceAt("sleep")
       \/ sig_fd > 0 /\ ~port /\ ServiceAt("set")
       \/ sig_fd <= 0 /\ \E pc \in {"poll", "set"} : ServiceAt(pc)
    /\ UNCHANGED <<world, link, use, timer, tcp, held>>

\* After a second it calls ConnectTcpClient.
Wake ==
    /\ service.pc = "sleep"
    /\ service' = [pc |-> "connect", fd |-> sig_fd]
    /\ UNCHANGED <<world, link, use, timer, tcp, held>>

\* connect: a new socket only, and if the signal machine accepts within 500 ms.
Connect ==
    /\ service.pc = "connect"
    /\ \/ /\ peer # "gone" /\ Use(service.fd) = "new"
          /\ use' = [use EXCEPT ![service.fd] = "linked"]
          /\ service' = [pc |-> "set", fd |-> Closed]
       \/ /\ peer # "up" \/ Use(service.fd) # "new"
          /\ service' = [pc |-> "close", fd |-> Closed]
          /\ UNCHANGED use
    /\ UNCHANGED <<world, link, timer, tcp, held>>

ServiceClose ==
    /\ service.pc = "close"
    /\ CloseNumber
    /\ ServiceAt("clear")
    /\ UNCHANGED <<world, link, timer, tcp, held>>

\* close(sig_fd) where close_socket(&sig_fd) is needed: the number stays.
ServiceClear_Bug ==
    /\ service.pc = "clear"
    /\ ServiceAt("poll")
    /\ UNCHANGED <<world, link, use, timer, tcp, held>>

ServiceClear ==
    /\ service.pc = "clear"
    /\ sig_fd' = Closed
    /\ ServiceAt("poll")
    /\ UNCHANGED <<world, sig_state, use, timer, tcp, held>>

SetConnected ==
    /\ service.pc = "set"
    /\ sig_state' = "CONNECTED"
    /\ ServiceAt("poll")
    /\ UNCHANGED <<world, sig_fd, use, timer, tcp, held>>

Service ==
    \/ Poll \/ Look \/ Create \/ Enter \/ Wake \/ Connect
    \/ ServiceClose \/ ServiceClear \/ SetConnected

----------------------------------------------------------------------------
(* The timers.  In protocol NANJING they hold mutex_lock throughout; in    *)
(* HAIXIN they take yhl_mutex_lock around the send as well, and the timer  *)
(* of cars going in and out takes that one only.                           *)

\* The timers are left without their lock.
Outer_Bug(t) == {}

Outer(t) ==
    IF pro_type = "HAIXIN" /\ t = "in_out" THEN {} ELSE {"mutex_lock"}
Inner(t) ==
    IF pro_type = "HAIXIN" THEN {"yhl_mutex_lock"} ELSE {}

TimerAt(t, pc) == timer' = [timer EXCEPT ![t].pc = pc]

Take(t, locks) ==
    /\ \A l \in locks : held[l] = "nobody"
    /\ held' = [l \in Locks |-> IF l \in locks THEN t ELSE held[l]]

\* The end of a turn: whatever the timer holds is unlocked.
Finish(t) ==
    /\ timer' = [timer EXCEPT ![t] = [pc |-> "idle", fd |-> Closed]]
    /\ held' = [l \in Locks |-> IF held[l] = t THEN "nobody" ELSE held[l]]

\* The reports of queues and flow in NANJING are due whatever cameras there are;
\* all other messages are about a camera that counts.
Report(t) == pro_type = "NANJING" /\ t = "realtime"

\* A turn that finds no connection, or nothing to tell, ends where it began.
Turn(t) ==
    /\ timer[t].pc = "idle"
    /\ Take(t, Outer(t))
    /\ counting \/ Report(t)
    /\ sig_state = "CONNECTED"
    /\ TimerAt(t, "lock")
    /\ UNCHANGED <<world, link, use, service, tcp>>

LockInner(t) ==
    /\ timer[t].pc = "lock"
    /\ Take(t, Inner(t))
    /\ timer' = [timer EXCEPT ![t] = [pc |-> "send", fd |-> sig_fd]]
    /\ UNCHANGED <<world, link, use, service, tcp>>

\* A report without a camera that counts sends nothing, and a length of 0 is taken
\* for an error.
Empty(t) == Report(t) /\ ~counting

\* send: an error unless the number is a connected socket, of whomever, and after
\* 500 ms if the signal machine does not read.
Send(t) ==
    /\ timer[t].pc = "send"
    /\ LET at == Use(timer[t].fd)
       IN  \/ /\ ~Empty(t) /\ at \in {"linked", "other"}
              /\ Finish(t)
           \/ /\ \/ Empty(t) \/ at \notin {"linked", "other"}
                 \/ at = "linked" /\ peer = "stuck"
              /\ TimerAt(t, "close")
              /\ UNCHANGED held
    /\ UNCHANGED <<world, link, use, service, tcp>>

TimerClose(t) ==
    /\ timer[t].pc = "close"
    /\ CloseNumber
    /\ TimerAt(t, "clear")
    /\ UNCHANGED <<world, link, service, tcp, held>>

TimerClear(t) ==
    /\ timer[t].pc = "clear"
    /\ sig_fd' = Closed
    /\ TimerAt(t, "pre")
    /\ UNCHANGED <<world, sig_state, use, service, tcp, held>>

SetPre(t) ==
    /\ timer[t].pc = "pre"
    /\ sig_state' = "PRE_CONNECT"
    /\ Finish(t)
    /\ UNCHANGED <<world, sig_fd, use, service, tcp>>

Timer(t) ==
    \/ Turn(t) \/ LockInner(t) \/ Send(t)
    \/ TimerClose(t) \/ TimerClear(t) \/ SetPre(t)

----------------------------------------------------------------------------
(* The TCP thread: reset_sig_machine, with init_sig_client in the middle.  *)

Reset ==
    /\ tcp = "idle"
    /\ resets < MaxResets
    /\ resets' = resets + 1
    /\ sig_state' = "NULL"
    /\ tcp' = "close"
    /\ UNCHANGED <<site, peer, breaks, sig_fd, use, service, timer, held>>

ResetClose ==
    /\ tcp = "close"
    /\ CloseNumber
    /\ tcp' = IF sig_fd > 0 THEN "clear" ELSE "init"
    /\ UNCHANGED <<world, link, service, timer, held>>

\* sig_fd = -1 after the close, and again in init_sig_client.
Forget ==
    /\ tcp \in {"clear", "forget"}
    /\ sig_fd' = Closed
    /\ tcp' = IF tcp = "clear" THEN "init" ELSE "port"
    /\ UNCHANGED <<world, sig_state, use, service, timer, held>>

\* init_sig_client takes over the port, unless no camera exists: then it returns.
SetPort ==
    /\ tcp = "port"
    /\ \/ port' \in BOOLEAN /\ tcp' = "restart"
       \/ ~counting /\ tcp' = "again" /\ UNCHANGED port
    /\ UNCHANGED <<pro_type, counting, peer, resets, breaks, link, use, service, timer, held>>

\* The reset forgets to ask for a connection: the state stays at SIG_NULL.
SetState_Bug ==
    \/ tcp = "init" /\ tcp' = "forget" /\ sig_state' = "NULL"
    \/ tcp = "restart" /\ tcp' = "again" /\ UNCHANGED sig_state
    \/ tcp = "again" /\ tcp' = "idle" /\ UNCHANGED sig_state

\* init_sig_client and reset_sig_machine both set the state at their end.
SetState ==
    \/ tcp = "init" /\ tcp' = "forget" /\ sig_state' = "NULL"
    \/ tcp = "restart" /\ tcp' = "again" /\ sig_state' = "PRE_CONNECT"
    \/ tcp = "again" /\ tcp' = "idle" /\ sig_state' = "PRE_CONNECT"

ResetState ==
    /\ SetState
    /\ UNCHANGED <<world, sig_fd, use, service, timer, held>>

ResetStep == ResetClose \/ Forget \/ SetPort \/ ResetState

----------------------------------------------------------------------------
(* The signal machine and the other threads.                               *)

Break ==
    /\ peer = "up"
    /\ breaks < MaxBreaks
    /\ breaks' = breaks + 1
    /\ peer' \in {"gone", "stuck"}
    /\ use' = [f \in Fds |->
                 IF use[f] = "linked" /\ peer' = "gone" THEN "broken" ELSE use[f]]
    /\ UNCHANGED <<site, resets, link, service, timer, tcp, held>>

Return ==
    /\ peer # "up"
    /\ peer' = "up"
    /\ UNCHANGED <<site, resets, breaks, link, use, service, timer, tcp, held>>

\* The operator gives the program its first camera that counts, or takes the last.
Cameras ==
    /\ counting' = ~counting
    /\ UNCHANGED <<pro_type, port, peer, resets, breaks, link, use, service, timer, tcp, held>>

\* Another thread has one socket at a time: a client's, a camera's.  It is not
\* the one that exhausts the descriptors.
OtherOpen(f) ==
    /\ \A g \in Fds : use[g] # "other"
    /\ Lowest(f)
    /\ \E g \in Fds \ {f} : use[g] = "free"
    /\ use' = [use EXCEPT ![f] = "other"]
    /\ UNCHANGED <<world, link, service, timer, tcp, held>>

OtherClose(f) ==
    /\ use[f] = "other"
    /\ use' = [use EXCEPT ![f] = "free"]
    /\ UNCHANGED <<world, link, service, timer, tcp, held>>

----------------------------------------------------------------------------
Next ==
    \/ Service
    \/ \E t \in Timers : Timer(t)
    \/ Reset \/ ResetStep
    \/ Break \/ Return \/ Cameras
    \/ \E f \in Fds : OtherOpen(f) \/ OtherClose(f)

Spec == Init /\ [][Next]_vars

\* The threads are scheduled; a timer gets the locks in turn.
FairSpec ==
    /\ Spec
    /\ WF_vars(Service) /\ WF_vars(ResetStep)
    /\ \A t \in Timers : SF_vars(Timer(t))

----------------------------------------------------------------------------
(* Properties.                                                             *)

Alone == pro_type = "NANJING" /\ resets = 0

TypeOK ==
    /\ pro_type \in {"NANJING", "HAIXIN"}
    /\ port \in BOOLEAN /\ counting \in BOOLEAN
    /\ peer \in {"up", "stuck", "gone"}
    /\ sig_state \in {"NULL", "PRE_CONNECT", "CONNECTED"}
    /\ sig_fd \in Fds \union {Closed}
    /\ use \in [Fds -> {"free", "new", "linked", "broken", "other"}]
    /\ service \in [pc : {"poll", "look", "create", "enter", "sleep", "connect",
                          "close", "clear", "set"}, fd : Fds \union {Closed}]
    /\ timer \in [Timers -> [pc : {"idle", "lock", "send", "close", "clear",
                                   "pre"}, fd : Fds \union {Closed}]]
    /\ tcp \in {"idle", "close", "clear", "init", "forget", "port", "restart", "again"}
    /\ held \in [Locks -> Timers \union {"nobody"}]
    /\ resets \in 0..MaxResets /\ breaks \in 0..MaxBreaks

\* In protocol NANJING, and as long as the operator resets nothing, the state
\* word keeps service and timers apart without a lock: no socket is lost open,
\* and what is announced as connected is a socket that was connected if a port is
\* set, and one that never was if none is.
OneSocket ==
    Alone =>
        /\ \A f \in Fds : use[f] \in {"new", "linked", "broken"} => sig_fd = f
        /\ sig_state = "CONNECTED" /\ (\A t \in Timers : timer[t].pc \in {"idle", "lock"})
               => Use(sig_fd) \in IF port THEN {"linked", "broken"} ELSE {"new"}

\* Under the same conditions no data and no close go to a number that meanwhile
\* belongs to another thread of the program.
ForeignUntouched ==
    Alone =>
        /\ \A t \in Timers : timer[t].pc = "send" => Use(timer[t].fd) # "other"
        /\ service.pc = "close" \/ (\E t \in Timers : timer[t].pc = "close")
               => Use(sig_fd) # "other"

\* All descriptors are in use, and none of them by the link: sockets of its own
\* that it lost open, or another thread's.
Lost == \A f \in Fds : use[f] # "free" /\ f # sig_fd

\* In protocol NANJING, whatever the races of timers, service and resets did to
\* descriptor and state: once the signal machine accepts and reads for good, a
\* port is set and a camera counts, the link comes up and stays up, unless its
\* descriptors are lost.  (Without a camera that counts the next report closes a
\* working link; in HAIXIN a timer may at every round close what the service has
\* just opened.)
LinkRecovers ==
    pro_type = "NANJING" /\ <>[](peer = "up" /\ port /\ counting)
        => <>[]((sig_state = "CONNECTED" /\ Use(sig_fd) = "linked") \/ Lost)
=============================================================================
