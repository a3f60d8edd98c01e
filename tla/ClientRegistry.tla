--------------------------- MODULE ClientRegistry ---------------------------
(* The operator's TCP connections (zen_rtsp/tcp_server.c) and the lists of   *)
(* the clients that watch a camera (ip_list in zen_rtsp/client_net.c).  The  *)
(* TCP thread accepts connections, reads requests and changes the lists; the *)
(* algorithm thread of each camera sends every frame's result to the clients *)
(* in the camera's list, which it keeps locked meanwhile.                    *)
(*                                                                           *)
(* A connection is numbered when it is opened; a client that comes back      *)
(* opens another.  A message is its header, or the body a "set" announces.   *)
(* The three packets of a frame are sent as one.                             *)
EXTENDS Integers, Sequences, FiniteSets

CONSTANTS MaxConns,      \* bound: connections that clients open
          Fds,           \* descriptors the kernel can give them
          CamMax,        \* CAM_MAX
          SlotMax,       \* SOCK_FD_MAX
          MaxConn,       \* g_netInfo.maxConn
          MaxSent        \* bound: messages the clients send

ASSUME FdsAssumption == Fds \subseteq Nat \ {0}
ASSUME NumbersAssumption == /\ CamMax \in Nat \ {0} /\ SlotMax \in Nat \ {0}
                            /\ MaxConn \in Nat /\ MaxConns \in Nat /\ MaxSent \in Nat

Conns == 1..MaxConns
NoConn == 0              \* of a descriptor that is not open
Cams == 0..(CamMax - 1)
Slots == 1..SlotMax
Listen == 0              \* the listening socket, in a set of descriptors

Messages == [type : {"start", "stop"}, cam : Cams]
            \cup [type : {"set", "body", "bad"}, cam : {0}]

VARIABLES
  net,           \* a connection as its client sees it
  backlog,       \* connections that wait for accept
  owner,         \* the descriptor table: the connection of each descriptor
  inbox,         \* what a client sent and the TCP thread has not received
  half,          \* clients that have sent a header and not its body
  full,          \* connections whose send buffer is full
  client_sockfd, conn_amount, client_fdset_all,      \* g_sock_info
  ip_list,       \* the nodes of each camera's list
  pc, ready,     \* the TCP thread: where it is, client_fdset
  req,           \* the request: its slot, what it is and for which camera, and the
                 \* list that del_client is about to search
  at, sending,   \* the algorithm threads: the node whose turn it is (0: the list
                 \* is not locked), and who holds client_sock_lock
  sent,          \* history: messages sent so far
  asked,         \* history: the cameras each client asked for, and did not stop
  stray          \* history: clients that stopped camera 0 without watching it

client == <<net, backlog, half, sent>>
slots == <<client_sockfd, conn_amount, client_fdset_all>>
tcp == <<pc, ready, req>>
alg == <<at, sending>>
history == <<asked, stray>>
vars == <<client, owner, inbox, full, slots, ip_list, tcp, alg, history>>

NoRequest == [slot |-> 0, type |-> "none", cam |-> 0, look |-> 0]

Init == /\ net = [c \in Conns |-> "none"] /\ backlog = {}
        /\ half = {} /\ sent = 0
        /\ owner = [f \in Fds |-> NoConn]
        /\ inbox = [c \in Conns |-> <<>>] /\ full = [c \in Conns |-> FALSE]
        /\ client_sockfd = [s \in Slots |-> 0]
        /\ conn_amount = 0 /\ client_fdset_all = {}
        /\ ip_list = [k \in Cams |-> <<>>]
        /\ pc = "select" /\ ready = {} /\ req = NoRequest
        /\ at = [k \in Cams |-> 0] /\ sending = {}
        /\ asked = [c \in Conns |-> {}] /\ stray = {}

(* Operators whose name ends in _Bug are seeded faults: each is a plausible   *)
(* slip in the definition that follows it, and makes a property fail.         *)

-----------------------------------------------------------------------------
(* The clients *)

Connect(c) == /\ net[c] = "none" /\ \A b \in 1..(c - 1) : net[b] # "none"
              /\ net' = [net EXCEPT ![c] = "open"]
              /\ backlog' = backlog \cup {c}
              /\ UNCHANGED <<half, sent, owner, inbox, full, slots, ip_list, tcp, alg,
                             history>>

Put(c, m) == /\ net[c] = "open" /\ sent < MaxSent
             /\ inbox' = [inbox EXCEPT ![c] = Append(@, m)]
             /\ sent' = sent + 1
             /\ UNCHANGED <<net, backlog, owner, full, slots, ip_list, tcp, alg,
                            history>>

\* a request; "set" announces a body
Request(c, m) == /\ c \notin half /\ m.type # "body"
                 /\ sent + Cardinality(half) + (IF m.type = "set" THEN 1 ELSE 0) < MaxSent
                 /\ half' = IF m.type = "set" THEN half \cup {c} ELSE half
                 /\ Put(c, m)

Body(c) == /\ c \in half /\ half' = half \ {c}
           /\ Put(c, [type |-> "body", cam |-> 0])

\* it closes the connection, or is lost and the kernel gives it up
Leave(c) == /\ net[c] = "open"
            /\ net' = [net EXCEPT ![c] = "gone"]
            /\ UNCHANGED <<backlog, half, sent, owner, inbox, full, slots, ip_list, tcp,
                           alg, history>>

\* it reads what the server sent
Read(c) == /\ net[c] = "open" /\ full[c]
           /\ full' = [full EXCEPT ![c] = FALSE]
           /\ UNCHANGED <<client, owner, inbox, slots, ip_list, tcp, alg, history>>

-----------------------------------------------------------------------------
(* The TCP thread: init_tcp_server *)

Readable == {f \in client_fdset_all : inbox[owner[f]] # <<>> \/ net[owner[f]] = "gone"}
            \cup IF backlog = {} THEN {} ELSE {Listen}

Select == /\ pc = "select" /\ Readable # {}
          /\ ready' = Readable /\ pc' = "scan"
          /\ UNCHANGED <<client, owner, inbox, full, slots, ip_list, req, alg, history>>

ReadySlots == {s \in Slots : client_sockfd[s] # 0 /\ client_sockfd[s] \in ready}
fd == client_sockfd[req.slot]

\* the loop goes on to the next slot
Continue == pc' = "scan" /\ ready' = ready \ {fd} /\ req' = NoRequest

\* the first list that del_client searches
FirstLook_Bug(cam) == 0
FirstLook(cam) == cam

Handler == [eof |-> "del", start |-> "start", stop |-> "del", set |-> "body"]

\* recv of the header of a ready slot.  One of another protocol is ignored; one that
\* has come in part swallows all that has arrived after it.
Recv(s) ==
    LET c == owner[client_sockfd[s]]
        m == IF inbox[c] = <<>> THEN [type |-> "eof", cam |-> 0] ELSE Head(inbox[c])
    IN
    /\ pc = "scan" /\ s \in ReadySlots /\ \A r \in ReadySlots : s <= r
    /\ \/ m.type # "eof" /\ inbox' = [inbox EXCEPT ![c] = Tail(@)]
       \/ m.type \in {"eof", "bad"} /\ inbox' = [inbox EXCEPT ![c] = <<>>]
    /\ IF m.type \in DOMAIN Handler
          THEN /\ pc' = Handler[m.type] /\ UNCHANGED ready
               /\ req' = [slot |-> s, type |-> m.type, cam |-> m.cam,
                         look |-> FirstLook(m.cam)]
          ELSE /\ ready' = ready \ {client_sockfd[s]} /\ UNCHANGED <<pc, req>>
    /\ UNCHANGED <<client, owner, full, slots, ip_list, alg, history>>

\* recv of the body, which the loop waits for; the request is carried out
RecvBody == LET c == owner[fd] IN
            /\ pc = "body" /\ inbox[c] # <<>>
            /\ inbox' = [inbox EXCEPT ![c] = Tail(@)]
            /\ Continue
            /\ UNCHANGED <<client, owner, full, slots, ip_list, alg,
                           history>>

\* the client is gone: a reset ends the loop, but the end of the stream does not
\* set errno, and after a turn without data errno still says EAGAIN: the loop spins
BodyLost == LET c == owner[fd] IN
            /\ pc = "body" /\ inbox[c] = <<>> /\ net[c] = "gone"
            /\ \/ Continue
               \/ pc' = "spin" /\ UNCHANGED <<ready, req>>
            /\ UNCHANGED <<client, owner, inbox, full, slots, ip_list, alg, history>>

NodesOf(k, f) == {i \in 1..Len(ip_list[k]) : ip_list[k][i].fd = f}

Asks == /\ asked' = [asked EXCEPT ![owner[fd]] = @ \cup {req.cam}]
        /\ UNCHANGED stray
Stops == /\ asked' = [asked EXCEPT ![owner[fd]] = @ \ {req.cam}]
         /\ stray' = IF req.cam = 0 /\ 0 \notin asked[owner[fd]]
                        THEN stray \cup {owner[fd]} ELSE stray

Watching(k) == NodesOf(k, fd) # {}

\* STARTREALDATA: a node of zeros is added under the lock of the list...
Start == /\ pc = "start" /\ at[req.cam] = 0
         /\ IF Watching(req.cam)
               THEN Continue /\ UNCHANGED ip_list
               ELSE /\ ip_list' = [ip_list EXCEPT ![req.cam] =
                                     Append(@, [cam |-> 0, fd |-> 0])]
                    /\ pc' = "index" /\ UNCHANGED <<ready, req>>
         /\ UNCHANGED <<client, owner, inbox, full, slots, alg, history>>

\* ...and add_client fills it in without the lock
FillIndex == /\ pc = "index" /\ pc' = "fd"
             /\ ip_list' = [ip_list EXCEPT ![req.cam][Len(ip_list[req.cam])].cam = req.cam]
             /\ UNCHANGED <<client, owner, inbox, full, slots, ready, req, alg, history>>
FillFd == /\ pc = "fd" /\ Continue
          /\ ip_list' = [ip_list EXCEPT ![req.cam][Len(ip_list[req.cam])].fd = fd]
          /\ Asks
          /\ UNCHANGED <<client, owner, inbox, full, slots, alg>>

\* SHUTDOWN of a camera other than 0 searches only that camera's list
LastLook == (req.type = "stop" /\ req.cam > 0) \/ req.look = CamMax - 1

First(k) == CHOOSE i \in NodesOf(k, fd) : \A j \in NodesOf(k, fd) : i <= j
Without(list, n) == [i \in 1..(Len(list) - 1) |-> IF i < n THEN list[i] ELSE list[i + 1]]

Over == Watching(req.look) \/ LastLook

DelNext == /\ pc = "del" /\ at[req.look] = 0 /\ ~Over
           /\ req' = [req EXCEPT !.look = @ + 1]
           /\ UNCHANGED <<client, owner, inbox, full, slots, ip_list, pc, ready, alg,
                          history>>

\* what follows del_client: the descriptor is closed only when no list had it
AfterDel_Bug == pc' = "close" /\ UNCHANGED <<ready, req>>
AfterDel == /\ pc' = IF Watching(req.look) THEN "clear" ELSE "close"
            /\ UNCHANGED <<ready, req>>

\* del_client, the last list searched: the first node found is the only one deleted
DelEnd == /\ pc = "del" /\ at[req.look] = 0 /\ Over
          /\ ip_list' = IF Watching(req.look)
                           THEN [ip_list EXCEPT ![req.look] = Without(@, First(req.look))]
                           ELSE ip_list
          /\ IF req.type = "eof" THEN AfterDel /\ UNCHANGED history
                                  ELSE Continue /\ Stops
          /\ UNCHANGED <<client, owner, inbox, full, slots, alg>>

ClearSocket_Bug == /\ pc \in {"clear", "close"} /\ Continue
                   /\ owner' = IF pc = "close" THEN [owner EXCEPT ![fd] = NoConn]
                                               ELSE owner
                   /\ client_sockfd' = [client_sockfd EXCEPT ![req.slot] = 0]
                   /\ client_fdset_all' = client_fdset_all \ {fd}
                   /\ conn_amount' = IF pc = "close" THEN conn_amount - 1
                                                     ELSE conn_amount
                   /\ UNCHANGED <<client, inbox, full, ip_list, alg,
                                  history>>

\* close, where del_client found nothing, and clear_socket
ClearSocket == /\ pc \in {"clear", "close"} /\ Continue
               /\ owner' = IF pc = "close" THEN [owner EXCEPT ![fd] = NoConn]
                                           ELSE owner
               /\ client_sockfd' = [client_sockfd EXCEPT ![req.slot] = 0]
               /\ client_fdset_all' = client_fdset_all \ {fd}
               /\ conn_amount' = IF conn_amount > 0 THEN conn_amount - 1 ELSE 0
               /\ UNCHANGED <<client, inbox, full, ip_list, alg, history>>

FreeFds == {f \in Fds : owner[f] = NoConn}
FreeSlots == {s \in Slots : client_sockfd[s] = 0}

\* accept, after the last ready slot.  Over the limit, the descriptor is neither
\* entered nor closed; without a descriptor, accept fails and the client waits on.
Accept(c, f) ==
    /\ pc = "scan" /\ ReadySlots = {} /\ Listen \in ready
    /\ c \in backlog /\ \A b \in backlog : c <= b
    /\ f \in FreeFds /\ \A g \in FreeFds : f <= g
    /\ backlog' = backlog \ {c}
    /\ pc' = "select" /\ ready' = {}
    /\ IF conn_amount < MaxConn /\ conn_amount < SlotMax
          THEN IF FreeSlots = {}
                  THEN UNCHANGED <<owner, slots>>
                  ELSE \E s \in FreeSlots :
                           /\ \A r \in FreeSlots : s <= r
                           /\ client_sockfd' = [client_sockfd EXCEPT ![s] = f]
                           /\ client_fdset_all' = client_fdset_all \cup {f}
                           /\ conn_amount' = conn_amount + 1
                           /\ owner' = [owner EXCEPT ![f] = c]
          ELSE owner' = [owner EXCEPT ![f] = c] /\ UNCHANGED slots
    /\ UNCHANGED <<net, half, sent, inbox, full, ip_list, req, alg,
                   history>>

AcceptFails == /\ pc = "scan" /\ ReadySlots = {} /\ Listen \in ready
               /\ FreeFds = {}
               /\ pc' = "select" /\ ready' = {}
               /\ UNCHANGED <<client, owner, inbox, full, slots, ip_list, req, alg, history>>

ScanDone == /\ pc = "scan" /\ ReadySlots = {} /\ Listen \notin ready
            /\ pc' = "select" /\ ready' = {}
            /\ UNCHANGED <<client, owner, inbox, full, slots, ip_list, req, alg, history>>

TcpStep == \/ Select \/ ScanDone \/ \E s \in Slots : Recv(s)
           \/ RecvBody \/ BodyLost \/ Start \/ FillIndex \/ FillFd \/ DelNext \/ DelEnd
           \/ ClearSocket
           \/ AcceptFails \/ \E c \in Conns, f \in Fds : Accept(c, f)

-----------------------------------------------------------------------------
(* The algorithm thread of camera k: client_output *)

Node(k) == ip_list[k][at[k]]

Advance_Bug(k) == at' = [at EXCEPT ![k] = IF @ = 0 THEN 1 ELSE 0]
\* the next node, or the end of the list, which is then unlocked
Advance(k) == at' = [at EXCEPT ![k] = IF @ < Len(ip_list[k]) THEN @ + 1 ELSE 0]

\* a frame is done: list_operate_node_all locks the list
Frame(k) == /\ at[k] = 0 /\ ip_list[k] # <<>>
            /\ Advance(k)
            /\ UNCHANGED <<client, owner, inbox, full, slots, ip_list, tcp, sending,
                           history>>

\* client_send_udp returns: the node is not, or not yet, of this camera
SkipNode(k) == /\ at[k] > 0 /\ k \notin sending /\ Node(k).cam # k
               /\ Advance(k)
               /\ UNCHANGED <<client, owner, inbox, full, slots, ip_list, tcp, sending,
                              history>>

\* SendDataToClient locks client_sock_lock...
SendBegin(k) == /\ at[k] > 0 /\ sending = {} /\ Node(k).cam = k
                /\ sending' = {k}
                /\ UNCHANGED <<client, owner, inbox, full, slots, ip_list, tcp, at,
                               history>>

\* ...and tries until all is sent, or the connection fails
Sendable_Bug(f) == f # 0 => ~full[owner[f]]
Sendable(f) == f # 0 => net[owner[f]] = "gone" \/ ~full[owner[f]]

SendEnd(k) == /\ k \in sending /\ Sendable(Node(k).fd)
              /\ sending' = {} /\ Advance(k)
              /\ \/ UNCHANGED full
                 \/ /\ Node(k).fd # 0 /\ net[owner[Node(k).fd]] = "open"
                    /\ full' = [full EXCEPT ![owner[Node(k).fd]] = TRUE]
              /\ UNCHANGED <<client, owner, inbox, slots, ip_list, tcp, history>>

AlgStep(k) == Frame(k) \/ SkipNode(k) \/ SendBegin(k) \/ SendEnd(k)

-----------------------------------------------------------------------------
Next == \/ \E c \in Conns : \/ Connect(c) \/ Leave(c) \/ Read(c) \/ Body(c)
                            \/ \E m \in Messages : Request(c, m)
        \/ TcpStep
        \/ \E k \in Cams : AlgStep(k)

Spec == Init /\ [][Next]_vars

\* The TCP thread and the algorithm threads are scheduled, and frames keep
\* coming.  A mutex that is free again and again is got in the end: between two
\* frames an algorithm thread holds none.  Assumed of the clients: one that sent
\* a header sends its body, one that is connected reads, or leaves.
Fairness == /\ SF_vars(TcpStep)
            /\ \A k \in Cams : /\ WF_vars(Frame(k) \/ SkipNode(k) \/ SendEnd(k))
                              /\ SF_vars(SendBegin(k))
            /\ \A c \in Conns : WF_vars(Body(c) \/ (Leave(c) /\ c \in half))
                               /\ WF_vars(Read(c))

FairSpec == Spec /\ Fairness

-----------------------------------------------------------------------------
(* Properties *)

TcpSteps == {"select", "scan", "start", "index", "fd", "del", "clear", "close",
             "body", "spin"}

\* Every variable has its type; client_sock_lock has at most one holder.
TypeOK ==
    /\ net \in [Conns -> {"none", "open", "gone"}]
    /\ backlog \subseteq Conns /\ half \subseteq Conns
    /\ sent \in 0..MaxSent
    /\ owner \in [Fds -> Conns \cup {NoConn}]
    /\ inbox \in [Conns -> Seq(Messages)] /\ full \in [Conns -> BOOLEAN]
    /\ client_sockfd \in [Slots -> Fds \cup {0}]
    /\ conn_amount \in Nat /\ client_fdset_all \subseteq Fds
    /\ ip_list \in [Cams -> Seq([cam : Cams, fd : Fds \cup {0}])]
    /\ pc \in TcpSteps /\ ready \subseteq Fds \cup {Listen}
    /\ req \in [slot : Slots \cup {0}, type : DOMAIN Handler \cup {"none"}, cam : Cams,
                look : Cams]
    /\ at \in [Cams -> Nat] /\ \A k \in Cams : at[k] <= Len(ip_list[k])
    /\ sending \subseteq Cams /\ \A k, l \in sending : k = l
    /\ asked \in [Conns -> SUBSET Cams] /\ stray \subseteq Conns

Used == {s \in Slots : client_sockfd[s] # 0}

\* conn_amount ("the number of descriptors", tcp_server.h:15) counts the slots in
\* use; each holds an open descriptor of its own, and select waits for exactly
\* these: however clients come, go and are refused, no slot is lost, and the
\* server never serves more than MaxConn.
SlotsExact == /\ conn_amount = Cardinality(Used) /\ conn_amount <= MaxConn
              /\ client_fdset_all = {client_sockfd[s] : s \in Used}
              /\ \A s \in Used : owner[client_sockfd[s]] \in Conns
              /\ \A r, s \in Used : client_sockfd[r] = client_sockfd[s] => r = s

\* The node that add_client is filling in
Unfilled(k, i) == pc \in {"index", "fd"} /\ k = req.cam /\ i = Len(ip_list[k])

\* Results go where they were asked for: a node of a camera's list names an open
\* descriptor whose client asked for this camera, however descriptors are closed
\* and given out again while the algorithm threads send; no node is there twice.
NodesOwned == \A k \in Cams : \A i \in 1..Len(ip_list[k]) : ~Unfilled(k, i) =>
    LET f == ip_list[k][i].fd IN
    /\ ip_list[k][i].cam = k
    /\ f \in Fds /\ owner[f] \in Conns /\ k \in asked[owner[f]]
    /\ NodesOf(k, f) = {i}

\* A client that has a slot watches exactly the cameras it asked for and did not
\* stop, unless it stopped camera 0 without watching it; only while it is being
\* forgotten does one of its nodes go before the slot does.
WatchExact == \A s \in Used : \A k \in Cams :
    \/ pc \in {"clear", "close"} /\ s = req.slot
    \/ owner[client_sockfd[s]] \in stray
    \/ k \in asked[owner[client_sockfd[s]]] <=> NodesOf(k, client_sockfd[s]) # {}

\* what the TCP thread has yet to learn of a connection that has a slot
Pending(c) == \E s \in Used : /\ owner[client_sockfd[s]] = c
                              /\ inbox[c] # <<>> \/ net[c] = "gone"

\* "Keeps receiving the access of TCP clients" (tcp_server.c:6): whatever the
\* others do, a connection is accepted while descriptors last, what a client
\* sends is read, and a client that leaves gives its slot back, unless the loop
\* that waits for a body spins on a client that is gone.
Heard == \A c \in Conns : /\ Pending(c) ~> ~Pending(c) \/ pc = "spin"
                          /\ c \in backlog ~>
                               c \notin backlog \/ FreeFds = {} \/ pc = "spin"

Watches(c, k) == net[c] = "open" /\ \E f \in Fds : owner[f] = c /\ NodesOf(k, f) # {}
SendingTo(c, k) == at[k] > 0 /\ LET f == ip_list[k][at[k]].fd
                                IN  f # 0 /\ owner[f] = c

\* A client that watches a camera is sent its results again and again, although
\* all cameras share client_sock_lock and a slow client holds it up.
Streamed == \A c \in Conns, k \in Cams : Watches(c, k) ~> SendingTo(c, k) \/ ~Watches(c, k)
=============================================================================
