------------------------ MODULE ClientRegistry_proofs -----------------------
(* What holds of the connections and the lists of watchers for any number of *)
(* clients, descriptors, slots and cameras.                                  *)
EXTENDS ClientRegistry, FiniteSetTheorems, TLAPS

Entries == [cam : Cams, fd : Fds \cup {0}]

\* What the TCP thread knows of its request: its slot is in use; del_client has
\* passed the lists that do not name the descriptor; a node that is being filled in
\* is the last of its list.
ReqOK ==
    /\ pc \notin {"select", "scan"} => req.slot \in Used
    /\ pc = "del" => /\ req.type \in {"eof", "stop"}
                     /\ req.type = "eof" => req.cam = 0
                     /\ req.cam # 0 => req.look = req.cam
                     /\ \A k \in Cams : req.cam = 0 /\ k < req.look => NodesOf(k, fd) = {}
    /\ pc = "close" => \A k \in Cams : NodesOf(k, fd) = {}
    /\ pc \in {"index", "fd"} =>
          /\ NodesOf(req.cam, fd) = {} /\ Len(ip_list[req.cam]) > 0
          /\ ip_list[req.cam][Len(ip_list[req.cam])].fd = 0
          /\ pc = "fd" => ip_list[req.cam][Len(ip_list[req.cam])].cam = req.cam

\* A connection has one descriptor, and before accept none: nothing was asked.
OwnerOK ==
    /\ \A c \in Conns : net[c] = "none" \/ c \in backlog =>
          asked[c] = {} /\ \A f \in Fds : owner[f] # c
    /\ \A c \in backlog : net[c] # "none"
    /\ \A f, g \in Fds : owner[f] = owner[g] /\ owner[f] # NoConn => f = g

IInv == TypeOK /\ SlotsExact /\ ReqOK /\ OwnerOK /\ NodesOwned /\ WatchExact

-----------------------------------------------------------------------------
(* Typing *)

\* Deleting a node leaves a shorter list of the others.
LEMMA WithoutList ==
  ASSUME NEW S, NEW list \in Seq(S), NEW n \in 1..Len(list)
  PROVE  /\ Without(list, n) \in Seq(S) /\ Len(Without(list, n)) = Len(list) - 1
         /\ \A i \in 1..(Len(list) - 1) :
               Without(list, n)[i] = IF i < n THEN list[i] ELSE list[i + 1]
<1>1. Len(list) - 1 \in Nat
  OBVIOUS
<1>2. Without(list, n) \in [1..(Len(list) - 1) -> S]
  BY DEF Without
<1> QED
  BY <1>1, <1>2 DEF Without

\* The node that del_client deletes is one of the list.
LEMMA FirstNode ==
  ASSUME NEW k \in Cams, TypeOK, NodesOwned, Watching(k), fd # 0, pc \notin {"index", "fd"}
  PROVE  /\ First(k) \in 1..Len(ip_list[k]) /\ NodesOf(k, fd) = {First(k)}
<1>1. PICK i \in 1..Len(ip_list[k]) : ip_list[k][i].fd = fd
  BY DEF Watching, NodesOf
<1>2. NodesOf(k, fd) = {i}
  BY <1>1 DEF NodesOwned, Unfilled
<1>3. First(k) = i
  <2>1. i \in NodesOf(k, fd) /\ \A j \in NodesOf(k, fd) : i <= j
    BY <1>2
  <2> QED
    BY <1>2, <2>1 DEF First
<1> QED
  BY <1>1, <1>2, <1>3

\* Typing is an invariant of every step.
LEMMA TypeStep == IInv /\ [Next]_vars => TypeOK'
<1> SUFFICES ASSUME IInv, [Next]_vars PROVE TypeOK'
    OBVIOUS
<1> USE FdsAssumption, NumbersAssumption
<1>0. TypeOK /\ SlotsExact /\ ReqOK /\ NodesOwned
  BY DEF IInv
<1> USE <1>0 DEF Conns, NoConn, Cams, Slots, Listen, TcpSteps
<1>t. ASSUME UNCHANGED <<owner, slots, ip_list, at, sending, history>>,
             net' \in [Conns -> {"none", "open", "gone"}], backlog' \subseteq Conns,
             half' \subseteq Conns, sent' \in 0..MaxSent,
             inbox' \in [Conns -> Seq(Messages)], full' \in [Conns -> BOOLEAN],
             pc' \in TcpSteps, ready' \subseteq Fds \cup {Listen},
             req' \in [slot : Slots \cup {0}, type : DOMAIN Handler \cup {"none"},
                       cam : Cams, look : Cams]
      PROVE  TypeOK'
  BY <1>t DEF TypeOK, slots, history
<1>1. ASSUME NEW c \in Conns, Connect(c) PROVE TypeOK'
  BY <1>1, <1>t DEF Connect, TypeOK, slots, tcp, alg, history
<1>2. ASSUME NEW c \in Conns, Leave(c) PROVE TypeOK'
  BY <1>2, <1>t DEF Leave, TypeOK, slots, tcp, alg, history
<1>3. ASSUME NEW c \in Conns, Read(c) PROVE TypeOK'
  BY <1>3, <1>t DEF Read, TypeOK, client, slots, tcp, alg, history
<1>p. ASSUME NEW c \in Conns, NEW m \in Messages, Put(c, m), half' \subseteq Conns
      PROVE TypeOK'
  <2>1. inbox' \in [Conns -> Seq(Messages)]
    BY <1>p DEF Put, TypeOK
  <2>2. sent' \in 0..MaxSent
    BY <1>p DEF Put, TypeOK
  <2> QED
    BY <1>p, <2>1, <2>2, <1>t DEF Put, TypeOK, slots, tcp, alg, history
<1>4. ASSUME NEW c \in Conns, Body(c) PROVE TypeOK'
  <2>1. [type |-> "body", cam |-> 0] \in Messages
    BY DEF Messages
  <2> QED
    BY <1>4, <2>1, <1>p DEF Body, TypeOK
<1>5. ASSUME NEW c \in Conns, NEW m \in Messages, Request(c, m) PROVE TypeOK'
  BY <1>5, <1>p DEF Request, TypeOK
<1>6. CASE Select
  BY <1>6, <1>t DEF Select, Readable, TypeOK, client, slots, alg, history
<1>7. CASE ScanDone \/ AcceptFails
  BY <1>7, <1>t DEF ScanDone, AcceptFails, TypeOK, client, slots, alg, history
<1>r. ASSUME NEW s \in Used PROVE owner[client_sockfd[s]] \in Conns /\ s \in Slots
  BY <1>r DEF SlotsExact, Used
<1>h. NoRequest \in [slot : Slots \cup {0}, type : DOMAIN Handler \cup {"none"},
                     cam : Cams, look : Cams]
  BY DEF NoRequest
<1>8. ASSUME NEW s \in Slots, Recv(s) PROVE TypeOK'
  <2> DEFINE c == owner[client_sockfd[s]]
             m == IF inbox[c] = <<>> THEN [type |-> "eof", cam |-> 0]
                                     ELSE Head(inbox[c])
  <2>1. c \in Conns
    BY <1>8, <1>r DEF Recv, ReadySlots, Used
  <2>2. inbox' \in [Conns -> Seq(Messages)]
    <3>1. inbox[c] \in Seq(Messages)
      BY <2>1 DEF TypeOK
    <3>2. m.type # "eof" => inbox[c] # <<>>
      OBVIOUS
    <3>3. m.type # "eof" => Tail(inbox[c]) \in Seq(Messages)
      BY <3>1, <3>2
    <3>4. <<>> \in Seq(Messages)
      OBVIOUS
    <3> HIDE DEF c, m
    <3>5. \/ m.type # "eof" /\ inbox' = [inbox EXCEPT ![c] = Tail(@)]
          \/ inbox' = [inbox EXCEPT ![c] = <<>>]
      BY <1>8 DEF Recv, c, m
    <3>6. \E v \in Seq(Messages) : inbox' = [inbox EXCEPT ![c] = v]
      BY <3>3, <3>4, <3>5
    <3> QED
      BY <2>1, <3>6 DEF TypeOK
  <2>3. m.cam \in Cams
    <3>1. inbox[c] \in Seq(Messages)
      BY <2>1 DEF TypeOK
    <3>2. inbox[c] # <<>> => Head(inbox[c]) \in Messages
      BY <3>1
    <3>3. Messages \subseteq [type : {"start", "stop", "set", "body", "bad"}, cam : Cams]
      BY DEF Messages, Cams
    <3>4. 0 \in Cams
      BY NumbersAssumption DEF Cams
    <3> QED
      BY <3>2, <3>3, <3>4
  <2>4. pc' \in TcpSteps /\ ready' \subseteq Fds \cup {Listen}
    <3>1. \A h \in DOMAIN Handler : Handler[h] \in TcpSteps
      BY DEF Handler
    <3>2. \/ m.type \in DOMAIN Handler /\ pc' = Handler[m.type] /\ ready' = ready
          \/ ready' = ready \ {client_sockfd[s]} /\ pc' = pc
      BY <1>8 DEF Recv
    <3> HIDE DEF m
    <3> QED
      BY <3>1, <3>2 DEF TypeOK
  <2>5. req' \in [slot : Slots \cup {0}, type : DOMAIN Handler \cup {"none"},
                  cam : Cams, look : Cams]
    <3>1. \/ req' = req
          \/ /\ m.type \in DOMAIN Handler
             /\ req' = [slot |-> s, type |-> m.type, cam |-> m.cam,
                        look |-> FirstLook(m.cam)]
      BY <1>8 DEF Recv
    <3>2. req \in [slot : Slots \cup {0}, type : DOMAIN Handler \cup {"none"},
                  cam : Cams, look : Cams]
      BY DEF TypeOK
    <3> HIDE DEF m
    <3>3. FirstLook(m.cam) \in Cams
      BY <2>3 DEF FirstLook
    <3>4. CASE req' = req
      BY <3>2, <3>4
    <3>5. CASE m.type \in DOMAIN Handler
               /\ req' = [slot |-> s, type |-> m.type, cam |-> m.cam,
                          look |-> FirstLook(m.cam)]
      BY <2>3, <3>3, <3>5
    <3> QED
      BY <3>1, <3>4, <3>5
  <2> QED
    BY <1>8, <2>2, <2>4, <2>5, <1>t DEF Recv, TypeOK, client, slots, alg, history
<1>c. ASSUME Continue PROVE /\ pc' \in TcpSteps /\ ready' \subseteq Fds \cup {Listen}
                            /\ req' \in [slot : Slots \cup {0}, type : DOMAIN Handler
                                         \cup {"none"}, cam : Cams, look : Cams]
  BY <1>c, <1>h DEF Continue, TypeOK
<1>9. CASE RecvBody
  <2>1. owner[fd] \in Conns
    BY <1>9, <1>r DEF RecvBody, ReqOK, fd
  <2>2. inbox' \in [Conns -> Seq(Messages)]
    BY <1>9, <2>1, SMTT(30) DEF RecvBody, TypeOK
  <2> QED
    BY <1>9, <2>2, <1>c, <1>t DEF RecvBody, TypeOK, client, slots, alg, history
<1>10. CASE BodyLost
  BY <1>10, <1>c, <1>t DEF BodyLost, TypeOK, client, slots, alg, history
<1>n. ASSUME UNCHANGED <<client, owner, inbox, full, slots, sending>>,
             ip_list' \in [Cams -> Seq(Entries)],
             \A k \in Cams : at'[k] <= Len(ip_list'[k]), at' \in [Cams -> Nat],
             pc' \in TcpSteps, ready' \subseteq Fds \cup {Listen},
             req' \in [slot : Slots \cup {0}, type : DOMAIN Handler \cup {"none"},
                       cam : Cams, look : Cams],
             asked' \in [Conns -> SUBSET Cams], stray' \subseteq Conns
      PROVE  TypeOK'
  BY <1>n DEF TypeOK, client, slots, Entries
<1>11. CASE Start
  <2>1. req.cam \in Cams /\ ip_list \in [Cams -> Seq(Entries)]
    BY DEF TypeOK, Entries
  <2>2. [cam |-> 0, fd |-> 0] \in Entries
    BY DEF Entries
  <2>3. CASE Watching(req.cam)
    BY <1>11, <2>1, <2>3, <1>c, <1>n DEF Start, TypeOK, alg, history
  <2>4. CASE ~Watching(req.cam)
    <3>1. ip_list' \in [Cams -> Seq(Entries)]
      <4>1. Append(ip_list[req.cam], [cam |-> 0, fd |-> 0]) \in Seq(Entries)
        BY <2>1, <2>2
      <4> QED
        BY <1>11, <2>1, <2>4, <4>1 DEF Start
    <3>2. \A k \in Cams : at'[k] <= Len(ip_list'[k])
      <4> SUFFICES ASSUME NEW k \in Cams PROVE at'[k] <= Len(ip_list'[k])
          OBVIOUS
      <4>1. CASE k = req.cam
        BY <1>11, <2>1, <2>4, <3>1, <4>1 DEF Start, alg, TypeOK
      <4>2. CASE k # req.cam
        BY <1>11, <2>1, <2>4, <4>2 DEF Start, alg, TypeOK
      <4> QED
        BY <4>1, <4>2
    <3> QED
      BY <1>11, <2>4, <3>1, <3>2, <1>n DEF Start, TypeOK, alg, history
  <2> QED
    BY <2>3, <2>4
<1>12. CASE FillIndex \/ FillFd
  <2>1. req.cam \in Cams /\ ip_list \in [Cams -> Seq(Entries)]
    BY DEF TypeOK, Entries
  <2>2. fd \in Fds \cup {0} /\ owner[fd] \in Conns
    BY <1>12, <1>r DEF FillIndex, FillFd, ReqOK, fd, TypeOK, SlotsExact, Used
  <2> DEFINE n == Len(ip_list[req.cam])
  <2>3. n \in 1..Len(ip_list[req.cam])
    <3>1. pc \in {"index", "fd"}
      BY <1>12 DEF FillIndex, FillFd
    <3>2. Len(ip_list[req.cam]) > 0
      BY <3>1 DEF ReqOK
    <3>3. Len(ip_list[req.cam]) \in Nat
      BY <2>1
    <3> QED
      BY <3>2, <3>3
  <2>4. \/ ip_list' = [ip_list EXCEPT ![req.cam][n].cam = req.cam]
        \/ ip_list' = [ip_list EXCEPT ![req.cam][n].fd = fd]
    BY <1>12 DEF FillIndex, FillFd
  <2>5. /\ ip_list' \in [Cams -> Seq(Entries)]
        /\ \A k \in Cams : Len(ip_list'[k]) = Len(ip_list[k])
    <3> DEFINE l == ip_list[req.cam]
    <3>1. [l[n] EXCEPT !.cam = req.cam] \in Entries /\ [l[n] EXCEPT !.fd = fd] \in Entries
      <4>1. l[n] \in Entries
        BY <2>1, <2>3
      <4> QED
        BY <2>1, <2>2, <4>1 DEF Entries
    <3>2. \E e \in Entries : ip_list' = [ip_list EXCEPT ![req.cam] = [l EXCEPT ![n] = e]]
      BY <2>4, <3>1
    <3> HIDE DEF n
    <3> QED
      BY <2>1, <2>3, <3>2
  <2>6. \A k \in Cams : at'[k] <= Len(ip_list'[k])
    BY <1>12, <2>5 DEF FillIndex, FillFd, alg, TypeOK
  <2>7. asked' \in [Conns -> SUBSET Cams] /\ stray' \subseteq Conns
    <3>1. CASE FillIndex
      BY <3>1 DEF FillIndex, history, TypeOK
    <3>2. CASE FillFd
      <4>1. asked[owner[fd]] \cup {req.cam} \in SUBSET Cams
        BY <2>1, <2>2 DEF TypeOK
      <4> QED
        BY <2>2, <3>2, <4>1 DEF FillFd, Asks, TypeOK
    <3> QED
      BY <1>12, <3>1, <3>2
  <2>8. /\ pc' \in TcpSteps /\ ready' \subseteq Fds \cup {Listen}
        /\ req' \in [slot : Slots \cup {0}, type : DOMAIN Handler \cup {"none"},
                     cam : Cams, look : Cams]
    BY <1>12, <1>c DEF FillIndex, FillFd, TypeOK
  <2> QED
    BY <1>12, <2>5, <2>6, <2>7, <2>8, <1>n DEF FillIndex, FillFd, alg, TypeOK
<1>13. CASE DelNext
  <2>1. req.look + 1 \in Cams
    <3>1. req.look \in Cams
      BY DEF TypeOK
    <3>2. req.look # CamMax - 1
      BY <1>13 DEF DelNext, Over, LastLook
    <3> QED
      BY <3>1, <3>2
  <2>2. req' \in [slot : Slots \cup {0}, type : DOMAIN Handler \cup {"none"},
                  cam : Cams, look : Cams]
    BY <1>13, <2>1 DEF DelNext, TypeOK
  <2> QED
    BY <1>13, <2>2, <1>t DEF DelNext, TypeOK, client, slots, alg, history
<1>14. CASE DelEnd
  <2> DEFINE k == req.look
  <2>1. k \in Cams /\ req.cam \in Cams /\ ip_list \in [Cams -> Seq(Entries)]
    BY DEF TypeOK, Entries
  <2>2. owner[fd] \in Conns /\ fd # 0
    BY <1>14, <1>r DEF DelEnd, ReqOK, fd, Used
  <2>3. /\ ip_list' \in [Cams -> Seq(Entries)]
        /\ \A l \in Cams : l # k => ip_list'[l] = ip_list[l]
    <3>1. CASE Watching(k)
      <4>1. Without(ip_list[k], First(k)) \in Seq(Entries)
        BY <1>14, <2>1, <2>2, <3>1, FirstNode, WithoutList DEF DelEnd
      <4> QED
        BY <1>14, <2>1, <3>1, <4>1 DEF DelEnd
    <3>2. CASE ~Watching(k)
      BY <1>14, <2>1, <3>2 DEF DelEnd
    <3> QED
      BY <3>1, <3>2
  <2>4. \A l \in Cams : at'[l] <= Len(ip_list'[l])
    <3> SUFFICES ASSUME NEW l \in Cams PROVE at'[l] <= Len(ip_list'[l])
        OBVIOUS
    <3>1. CASE l = k
      BY <1>14, <2>3, <3>1 DEF DelEnd, alg
    <3>2. CASE l # k
      BY <1>14, <2>3, <3>2 DEF DelEnd, alg, TypeOK
    <3> QED
      BY <3>1, <3>2
  <2>5. asked' \in [Conns -> SUBSET Cams] /\ stray' \subseteq Conns
    <3>1. asked[owner[fd]] \ {req.cam} \in SUBSET Cams
      BY <2>2 DEF TypeOK
    <3>2. CASE UNCHANGED history
      BY <3>2 DEF history, TypeOK
    <3>3. CASE Stops
      <4>1. asked' \in [Conns -> SUBSET Cams]
        BY <3>1, <3>3 DEF Stops, TypeOK
      <4>2. stray' \subseteq Conns
        BY <2>2, <3>3 DEF Stops, TypeOK
      <4> QED
        BY <4>1, <4>2
    <3> QED
      BY <1>14, <3>2, <3>3 DEF DelEnd
  <2>6. /\ pc' \in TcpSteps /\ ready' \subseteq Fds \cup {Listen}
        /\ req' \in [slot : Slots \cup {0}, type : DOMAIN Handler \cup {"none"},
                     cam : Cams, look : Cams]
    BY <1>14, <1>c DEF DelEnd, AfterDel, TypeOK
  <2> QED
    BY <1>14, <2>3, <2>4, <2>5, <2>6, <1>n DEF DelEnd, alg, TypeOK
<1>15. CASE ClearSocket
  <2>1. req.slot \in Slots
    BY <1>15, <1>r DEF ClearSocket, ReqOK
  <2>2. owner' \in [Fds -> Conns \cup {NoConn}]
    BY <1>15 DEF ClearSocket, TypeOK
  <2>3. client_sockfd' \in [Slots -> Fds \cup {0}]
    BY <1>15, <2>1 DEF ClearSocket, TypeOK
  <2>4. conn_amount' \in Nat /\ client_fdset_all' \subseteq Fds
    <3>1. conn_amount \in Nat /\ client_fdset_all \subseteq Fds
      BY DEF TypeOK
    <3>2. conn_amount' = (IF conn_amount > 0 THEN conn_amount - 1 ELSE 0)
      BY <1>15 DEF ClearSocket
    <3>3. conn_amount' \in Nat
      BY ONLY <3>1, <3>2
    <3>4. client_fdset_all' = client_fdset_all \ {fd}
      BY <1>15 DEF ClearSocket
    <3> QED
      BY <3>1, <3>3, <3>4
  <2> QED
    BY <1>15, <2>2, <2>3, <2>4, <1>c DEF ClearSocket, TypeOK, client, alg, history
<1>16. ASSUME NEW c \in Conns, NEW f \in Fds, Accept(c, f) PROVE TypeOK'
  <2>1. owner' \in [Fds -> Conns \cup {NoConn}]
    BY <1>16, ZenonT(30) DEF Accept, TypeOK, slots
  <2>2. /\ client_sockfd' \in [Slots -> Fds \cup {0}]
        /\ conn_amount' \in Nat /\ client_fdset_all' \subseteq Fds
    <3>1. CASE UNCHANGED slots
      BY <3>1 DEF slots, TypeOK
    <3>2. ASSUME NEW s \in Slots, client_sockfd' = [client_sockfd EXCEPT ![s] = f],
                 client_fdset_all' = client_fdset_all \cup {f},
                 conn_amount' = conn_amount + 1
          PROVE  /\ client_sockfd' \in [Slots -> Fds \cup {0}]
                 /\ conn_amount' \in Nat /\ client_fdset_all' \subseteq Fds
      BY <3>2, SMTT(30) DEF TypeOK
    <3> QED
      BY <1>16, <3>1, <3>2 DEF Accept, FreeSlots
  <2>3. backlog' \subseteq Conns /\ pc' \in TcpSteps /\ ready' = {}
    BY <1>16 DEF Accept, TypeOK
  <2> QED
    BY <1>16, <2>1, <2>2, <2>3 DEF Accept, TypeOK, alg, history
<1>a. ASSUME NEW k \in Cams, AlgStep(k) PROVE TypeOK'
  <2>1. ASSUME Advance(k)
        PROVE  at' \in [Cams -> Nat] /\ \A l \in Cams : at'[l] <= Len(ip_list[l])
    <3> DEFINE n == IF at[k] < Len(ip_list[k]) THEN at[k] + 1 ELSE 0
    <3>1. at[k] \in Nat /\ ip_list[k] \in Seq([cam : Cams, fd : Fds \cup {0}])
      BY DEF TypeOK
    <3>2. Len(ip_list[k]) \in Nat
      BY <3>1
    <3>3. n \in Nat /\ n <= Len(ip_list[k])
      BY <3>1, <3>2
    <3>4. at' = [at EXCEPT ![k] = n]
      BY <2>1 DEF Advance
    <3> HIDE DEF n
    <3>5. at' \in [Cams -> Nat] /\ at'[k] = n /\ \A l \in Cams \ {k} : at'[l] = at[l]
      BY <3>3, <3>4 DEF TypeOK
    <3>6. \A l \in Cams : at[l] <= Len(ip_list[l])
      BY DEF TypeOK
    <3> QED
      BY <3>3, <3>5, <3>6
  <2>2. CASE Frame(k) \/ SkipNode(k)
    BY <2>1, <2>2 DEF Frame, SkipNode, TypeOK, client, slots, tcp, history
  <2>3. CASE SendBegin(k)
    BY <2>3 DEF SendBegin, TypeOK, client, slots, tcp, history
  <2>4. CASE SendEnd(k)
    <3>1. full' \in [Conns -> BOOLEAN]
      BY <2>4 DEF SendEnd, TypeOK
    <3> QED
      BY <2>1, <2>4, <3>1 DEF SendEnd, TypeOK, client, slots, tcp, history
  <2> QED
    BY <1>a, <2>2, <2>3, <2>4 DEF AlgStep
<1>17. CASE UNCHANGED vars
  BY <1>17 DEF vars, TypeOK, client, slots, tcp, alg, history
<1> QED
  BY <1>1, <1>2, <1>3, <1>4, <1>5, <1>6, <1>7, <1>8, <1>9, <1>10, <1>11, <1>12, <1>13,
     <1>14, <1>15, <1>16, <1>17, <1>a DEF Next, TcpStep

-----------------------------------------------------------------------------
(* The inductive invariant *)

\* A step that changes neither descriptors, slots and lists nor what the TCP thread
\* is at keeps the invariant.
LEMMA QuietStep ==
  ASSUME IInv, TypeOK', UNCHANGED <<owner, slots, ip_list, pc, req, history, backlog>>,
         \A c \in Conns : net'[c] = "none" <=> net[c] = "none"
  PROVE  IInv'
<1> USE DEF IInv
<1>1. UNCHANGED <<client_sockfd, conn_amount, client_fdset_all, Used, fd, asked, stray>>
  BY DEF slots, history, Used, fd
<1>2. \A k, f : NodesOf(k, f)' = NodesOf(k, f)
  BY DEF NodesOf
<1>3. SlotsExact'
  BY <1>1 DEF SlotsExact
<1>4. ReqOK'
  BY <1>1, <1>2 DEF ReqOK
<1>5. OwnerOK'
  BY <1>1 DEF OwnerOK, TypeOK
<1>6. NodesOwned'
  BY <1>1, <1>2 DEF NodesOwned, Unfilled
<1>7. WatchExact'
  BY <1>1, <1>2 DEF WatchExact
<1> QED
  BY <1>3, <1>4, <1>5, <1>6, <1>7

\* So does a step of the TCP thread from one request to the next, or to another
\* list, that keeps what is known of the request.
LEMMA PcStep ==
  ASSUME IInv, TypeOK', ReqOK', UNCHANGED <<owner, slots, ip_list, history, net, backlog>>,
         pc \notin {"index", "fd", "clear", "close"}, pc' \notin {"index", "fd"}
  PROVE  IInv'
<1> USE DEF IInv
<1>1. UNCHANGED <<client_sockfd, conn_amount, client_fdset_all, Used, asked, stray>>
  BY DEF slots, history, Used
<1>2. \A k, f : NodesOf(k, f)' = NodesOf(k, f)
  BY DEF NodesOf
<1>3. SlotsExact'
  BY <1>1 DEF SlotsExact
<1>5. OwnerOK'
  BY <1>1 DEF OwnerOK, TypeOK
<1>6. NodesOwned'
  BY <1>1, <1>2 DEF NodesOwned, Unfilled
<1>7. WatchExact'
  BY <1>1, <1>2 DEF WatchExact
<1> QED
  BY <1>3, <1>5, <1>6, <1>7

\* The steps of the TCP thread that only move it on.
LEMMA TcpMoves ==
  ASSUME IInv, TypeOK',
         \/ Select \/ ScanDone \/ AcceptFails \/ RecvBody \/ BodyLost \/ DelNext
         \/ \E s \in Slots : Recv(s)
         \/ Start /\ Watching(req.cam)
  PROVE  IInv'
<1>0. TypeOK /\ SlotsExact /\ ReqOK
  BY DEF IInv
<1>1. CASE Select \/ ScanDone \/ AcceptFails
  <2>1. ReqOK'
    BY <1>1 DEF Select, ScanDone, AcceptFails, ReqOK
  <2> QED
    BY <1>1, <2>1, PcStep DEF Select, ScanDone, AcceptFails, client
<1>2. CASE RecvBody \/ BodyLost \/ (Start /\ Watching(req.cam))
  <2>1. ReqOK'
    <3>1. CASE Continue
      BY <3>1 DEF Continue, ReqOK
    <3>2. CASE pc' = "spin" /\ UNCHANGED <<req, slots>>
      BY <1>0, <1>2, <3>2 DEF ReqOK, Used, slots, RecvBody, BodyLost, Start
    <3> QED
      BY <1>2, <3>1, <3>2 DEF RecvBody, BodyLost, Start
  <2> QED
    BY <1>2, <2>1, PcStep DEF RecvBody, BodyLost, Start, Continue, client
<1>3. ASSUME NEW s \in Slots, Recv(s) PROVE IInv'
  <2>0. s \in Used
    BY <1>3 DEF Recv, ReadySlots, Used
  <2>1. CASE req' = req /\ pc' = pc
    <3>1. ReqOK'
      BY <1>3, <2>1 DEF Recv, ReqOK
    <3> QED
      BY <1>3, <2>1, <3>1, PcStep DEF Recv, client
  <2>2. CASE \E type \in DOMAIN Handler, cam \in Cams :
               /\ req' = [slot |-> s, type |-> type, cam |-> cam, look |-> cam]
               /\ pc' = Handler[type] /\ (type = "eof" => cam = 0)
    <3>1. PICK type \in DOMAIN Handler, cam \in Cams :
               /\ req' = [slot |-> s, type |-> type, cam |-> cam, look |-> cam]
               /\ pc' = Handler[type] /\ (type = "eof" => cam = 0)
      BY <2>2
    <3>2. pc' \in {"del", "start", "body"} /\ (pc' = "del" => type \in {"eof", "stop"})
      BY <3>1 DEF Handler
    <3>3. req'.slot = s /\ req'.type = type /\ req'.cam = cam /\ req'.look = cam
      BY <3>1
    <3>4. UNCHANGED Used
      BY <1>3 DEF Recv, slots, Used
    <3>5. ~(\E k \in Cams : req'.cam = 0 /\ k < req'.look)
      BY <3>3 DEF Cams
    <3>6. ReqOK'
      BY <2>0, <3>1, <3>2, <3>3, <3>4, <3>5 DEF ReqOK
    <3> QED
      BY <1>3, <3>2, <3>6, PcStep DEF Recv, client
  <2>3. QED
    <3> DEFINE c == owner[client_sockfd[s]]
               m == IF inbox[c] = <<>> THEN [type |-> "eof", cam |-> 0]
                                       ELSE Head(inbox[c])
    <3>1. c \in Conns
      BY <1>0, <2>0 DEF SlotsExact
    <3>2. m.cam \in Cams /\ (m.type = "eof" => m.cam = 0)
      <4>1. inbox[c] # <<>> => Head(inbox[c]) \in Messages
        <5>1. inbox[c] \in Seq(Messages)
          BY <1>0, <3>1 DEF TypeOK
        <5> QED
          BY <5>1
      <4> QED
        BY <4>1, NumbersAssumption DEF Messages, Cams
    <3>3. \/ req' = req /\ pc' = pc
          \/ /\ m.type \in DOMAIN Handler
             /\ req' = [slot |-> s, type |-> m.type, cam |-> m.cam, look |-> m.cam]
             /\ pc' = Handler[m.type]
      BY <1>3 DEF Recv, FirstLook
    <3> HIDE DEF m
    <3> QED
      BY <2>1, <2>2, <3>2, <3>3
<1>4. CASE DelNext
  <2>1. req' = [req EXCEPT !.look = @ + 1] /\ UNCHANGED <<pc, Used, ip_list, client_sockfd>>
    BY <1>4 DEF DelNext, slots, Used
  <2>2. /\ req'.slot = req.slot /\ req'.type = req.type /\ req'.cam = req.cam
        /\ req'.look = req.look + 1 /\ req.look \in Cams /\ req.cam \in Cams
    BY <1>0, <2>1 DEF TypeOK
  <2>3. fd' = fd /\ \A k, f : NodesOf(k, f)' = NodesOf(k, f)
    BY <2>1, <2>2 DEF fd, NodesOf
  <2>4. NodesOf(req.look, fd) = {} /\ ~LastLook /\ pc = "del"
    BY <1>4 DEF DelNext, Over, Watching
  <2>5. req.type \in {"eof", "stop"}
    BY <1>0, <2>4 DEF ReqOK
  <2>6. req.cam = 0
    BY <1>0, <2>2, <2>4, <2>5 DEF LastLook, ReqOK, Cams
  <2>7. \A k \in Cams : k < req.look + 1 => NodesOf(k, fd) = {}
    BY <1>0, <2>2, <2>4, <2>6 DEF ReqOK, Cams
  <2>8. ReqOK'
    BY <1>0, <2>1, <2>2, <2>3, <2>4, <2>5, <2>6, <2>7 DEF ReqOK
  <2> QED
    BY <1>4, <2>4, <2>8, PcStep DEF DelNext, client
<1> QED
  BY <1>1, <1>2, <1>3, <1>4

NodesIn(list, f) == {i \in 1..Len(list) : list[i].fd = f}

\* The two properties of the nodes, of the state a step leads to.
LEMMA NextOwned ==
  ASSUME \A k \in Cams : \A i \in 1..Len(ip_list'[k]) :
            ~(pc' \in {"index", "fd"} /\ k = req'.cam /\ i = Len(ip_list'[k])) =>
            /\ ip_list'[k][i].cam = k /\ ip_list'[k][i].fd \in Fds
            /\ owner'[ip_list'[k][i].fd] \in Conns
            /\ k \in asked'[owner'[ip_list'[k][i].fd]]
            /\ NodesIn(ip_list'[k], ip_list'[k][i].fd) = {i}
  PROVE  NodesOwned'
BY DEF NodesOwned, Unfilled, NodesOf, NodesIn, Conns, Cams

LEMMA NextWatch ==
  ASSUME \A s \in Used' : \A k \in Cams :
            \/ pc' \in {"clear", "close"} /\ s = req'.slot
            \/ owner'[client_sockfd'[s]] \in stray'
            \/ k \in asked'[owner'[client_sockfd'[s]]]
                  <=> NodesIn(ip_list'[k], client_sockfd'[s]) # {}
  PROVE  WatchExact'
BY DEF WatchExact, NodesOf, NodesIn, Cams

\* STARTREALDATA and add_client: the node is added empty, then filled in.
LEMMA AddNode ==
  ASSUME IInv, TypeOK', (Start /\ ~Watching(req.cam)) \/ FillIndex \/ FillFd
  PROVE  IInv'
<1>0. TypeOK /\ SlotsExact /\ ReqOK /\ OwnerOK /\ NodesOwned /\ WatchExact
  BY DEF IInv
<1> USE FdsAssumption, NumbersAssumption
<1> DEFINE j == req.cam
           l == ip_list[j]
<1>1. /\ j \in Cams /\ ip_list \in [Cams -> Seq(Entries)] /\ l \in Seq(Entries)
      /\ Len(l) \in Nat /\ pc \in {"start", "index", "fd"} /\ req.slot \in Used
  <2>1. pc \in {"start", "index", "fd"}
    BY DEF Start, FillIndex, FillFd
  <2>2. j \in Cams /\ ip_list \in [Cams -> Seq(Entries)]
    BY <1>0 DEF TypeOK, Entries
  <2> QED
    BY <1>0, <2>1, <2>2 DEF ReqOK
<1>2. UNCHANGED <<client, owner, client_sockfd, conn_amount, client_fdset_all, Used>>
  BY DEF Start, FillIndex, FillFd, slots, Used
<1>3. fd \in Fds /\ owner[fd] \in Conns
  BY <1>0, <1>1 DEF SlotsExact, fd, Used, TypeOK
<1>4. SlotsExact' /\ (\A k \in Cams \ {j} : ip_list'[k] = ip_list[k])
  BY <1>0, <1>1, <1>2 DEF SlotsExact, Start, FillIndex, FillFd
<1>5. CASE Start /\ ~Watching(j)
  <2>1. /\ ip_list'[j] = Append(l, [cam |-> 0, fd |-> 0])
        /\ UNCHANGED <<req, history, fd>> /\ pc' = "index"
    BY <1>1, <1>2, <1>5 DEF Start, fd
  <2>2. /\ Len(ip_list'[j]) = Len(l) + 1 /\ ip_list'[j][Len(l) + 1].fd = 0
        /\ \A i \in 1..Len(l) : ip_list'[j][i] = l[i]
    BY <1>1, <2>1
  <2>3. \A k \in Cams, f \in Fds : NodesIn(ip_list'[k], f) = NodesOf(k, f)
    <3> SUFFICES ASSUME NEW k \in Cams, NEW f \in Fds
                 PROVE  NodesIn(ip_list'[k], f) = NodesOf(k, f)
        OBVIOUS
    <3>1. CASE k # j
      BY <1>4, <3>1 DEF NodesOf, NodesIn
    <3>2. CASE k = j
      BY <1>1, <2>2, <3>2, SMTT(30) DEF NodesOf, NodesIn
    <3> QED
      BY <3>1, <3>2
  <2>4. ReqOK'
    <3>1. NodesOf(j, fd) = {}
      BY <1>5 DEF Watching
    <3>2. NodesIn(ip_list'[j], fd') = {}
      BY <1>1, <1>3, <2>1, <2>3, <3>1
    <3>3. req'.slot \in Used' /\ req'.cam = j /\ pc' = "index"
      BY <1>1, <1>2, <2>1
    <3>4. Len(ip_list'[j]) > 0 /\ ip_list'[j][Len(ip_list'[j])].fd = 0
      BY <1>1, <2>2
    <3> QED
      BY <3>2, <3>3, <3>4 DEF ReqOK, NodesOf, NodesIn
  <2>5. OwnerOK'
    BY <1>0, <1>2, <2>1 DEF OwnerOK, client, history
  <2>6. NodesOwned'
    <3> SUFFICES ASSUME NEW k \in Cams, NEW i \in 1..Len(ip_list'[k]), ~Unfilled(k, i)'
                 PROVE  /\ ip_list'[k][i].cam = k /\ ip_list'[k][i].fd \in Fds
                        /\ owner'[ip_list'[k][i].fd] \in Conns
                        /\ k \in asked'[owner'[ip_list'[k][i].fd]]
                        /\ NodesIn(ip_list'[k], ip_list'[k][i].fd) = {i}
        BY NextOwned DEF Unfilled
    <3>1. i \in 1..Len(ip_list[k]) /\ ip_list'[k][i] = ip_list[k][i] /\ ~Unfilled(k, i)
      <4>1. CASE k = j
        <5>1. i # Len(l) + 1
          BY <2>1, <2>2, <4>1 DEF Unfilled
        <5>2. i \in 1..Len(l)
          BY <1>1, <2>2, <4>1, <5>1
        <5>3. pc \notin {"index", "fd"}
          BY <1>5 DEF Start
        <5> QED
          BY <2>2, <4>1, <5>2, <5>3 DEF Unfilled
      <4>2. CASE k # j
        BY <1>4, <1>5, <4>2 DEF Unfilled, Start
      <4> QED
        BY <4>1, <4>2
    <3>2. /\ ip_list[k][i].cam = k /\ ip_list[k][i].fd \in Fds
          /\ owner[ip_list[k][i].fd] \in Conns /\ k \in asked[owner[ip_list[k][i].fd]]
          /\ NodesOf(k, ip_list[k][i].fd) = {i}
      BY <1>0, <3>1 DEF NodesOwned
    <3> QED
      BY <1>2, <2>1, <2>3, <3>1, <3>2 DEF history
  <2>7. WatchExact'
    <3> SUFFICES ASSUME NEW s \in Used, NEW k \in Cams, owner[client_sockfd[s]] \notin stray
                 PROVE  k \in asked[owner[client_sockfd[s]]]
                          <=> NodesIn(ip_list'[k], client_sockfd[s]) # {}
        BY <1>2, <2>1, NextWatch DEF history
    <3>1. client_sockfd[s] \in Fds
      BY <1>0 DEF Used, TypeOK
    <3>2. pc \notin {"clear", "close"}
      BY <1>5 DEF Start
    <3> QED
      BY <1>0, <2>3, <3>1, <3>2 DEF WatchExact
  <2> QED
    BY <1>4, <2>4, <2>5, <2>6, <2>7 DEF IInv
<1>6. CASE FillIndex
  <2> DEFINE n == Len(l)
  <2>0. n \in 1..Len(l)
    BY <1>0, <1>1, <1>6 DEF ReqOK, FillIndex
  <2>1. /\ ip_list'[j] = [l EXCEPT ![n] = [l[n] EXCEPT !.cam = j]]
        /\ UNCHANGED <<req, history, fd>> /\ pc' = "fd"
    BY <1>1, <1>2, <1>6 DEF FillIndex, fd
  <2>2. /\ Len(ip_list'[j]) = n /\ ip_list'[j][n].cam = j
        /\ \A i \in 1..n : ip_list'[j][i].fd = l[i].fd
        /\ \A i \in 1..n : i # n => ip_list'[j][i] = l[i]
    <3>1. l[n] \in Entries
      BY <1>1, <2>0
    <3> QED
      BY <1>1, <2>0, <2>1, <3>1, SMTT(30) DEF Entries
  <2>3. \A k \in Cams, f \in Fds : NodesIn(ip_list'[k], f) = NodesOf(k, f)
    <3> SUFFICES ASSUME NEW k \in Cams, NEW f \in Fds
                 PROVE  NodesIn(ip_list'[k], f) = NodesOf(k, f)
        OBVIOUS
    <3>1. CASE k # j
      BY <1>4, <3>1 DEF NodesOf, NodesIn
    <3>2. CASE k = j
      BY <1>1, <2>2, <3>2 DEF NodesOf, NodesIn
    <3> QED
      BY <3>1, <3>2
  <2>4. ReqOK'
    BY <1>0, <1>1, <1>2, <1>3, <1>6, <2>0, <2>1, <2>2, <2>3, SMTT(30) DEF ReqOK, FillIndex,
       NodesOf, NodesIn
  <2>5. OwnerOK'
    BY <1>0, <1>2, <2>1 DEF OwnerOK, client, history
  <2>6. NodesOwned'
    <3> SUFFICES ASSUME NEW k \in Cams, NEW i \in 1..Len(ip_list'[k]), ~Unfilled(k, i)'
                 PROVE  /\ ip_list'[k][i].cam = k /\ ip_list'[k][i].fd \in Fds
                        /\ owner'[ip_list'[k][i].fd] \in Conns
                        /\ k \in asked'[owner'[ip_list'[k][i].fd]]
                        /\ NodesIn(ip_list'[k], ip_list'[k][i].fd) = {i}
        BY NextOwned DEF Unfilled
    <3>1. i \in 1..Len(ip_list[k]) /\ ip_list'[k][i] = ip_list[k][i] /\ ~Unfilled(k, i)
      BY <1>1, <1>4, <1>6, <2>1, <2>2 DEF Unfilled, FillIndex
    <3>2. /\ ip_list[k][i].cam = k /\ ip_list[k][i].fd \in Fds
          /\ owner[ip_list[k][i].fd] \in Conns /\ k \in asked[owner[ip_list[k][i].fd]]
          /\ NodesOf(k, ip_list[k][i].fd) = {i}
      BY <1>0, <3>1 DEF NodesOwned
    <3> QED
      BY <1>2, <2>1, <2>3, <3>1, <3>2 DEF history
  <2>7. WatchExact'
    <3> SUFFICES ASSUME NEW s \in Used, NEW k \in Cams, owner[client_sockfd[s]] \notin stray
                 PROVE  k \in asked[owner[client_sockfd[s]]]
                          <=> NodesIn(ip_list'[k], client_sockfd[s]) # {}
        BY <1>2, <2>1, NextWatch DEF history
    <3>1. client_sockfd[s] \in Fds
      BY <1>0 DEF Used, TypeOK
    <3>2. pc \notin {"clear", "close"}
      BY <1>6 DEF FillIndex
    <3> QED
      BY <1>0, <2>3, <3>1, <3>2 DEF WatchExact
  <2> QED
    BY <1>4, <2>4, <2>5, <2>6, <2>7 DEF IInv
<1>7. CASE FillFd
  <2> DEFINE n == Len(l)
  <2>0. /\ n \in 1..Len(l) /\ pc = "fd" /\ l[n].cam = j /\ l[n].fd = 0
        /\ NodesOf(j, fd) = {}
    BY <1>0, <1>1, <1>7 DEF ReqOK, FillFd
  <2>1. /\ ip_list'[j] = [l EXCEPT ![n] = [l[n] EXCEPT !.fd = fd]]
        /\ asked' = [asked EXCEPT ![owner[fd]] = @ \cup {j}]
        /\ UNCHANGED stray /\ pc' = "scan"
    BY <1>1, <1>7 DEF FillFd, Asks, Continue
  <2>2. /\ Len(ip_list'[j]) = n /\ ip_list'[j][n].cam = j /\ ip_list'[j][n].fd = fd
        /\ \A i \in 1..n : i # n => ip_list'[j][i] = l[i]
    <3>1. l[n] \in Entries
      BY <1>1, <2>0
    <3> QED
      BY <1>1, <2>0, <2>1, <3>1 DEF Entries
  <2>3. \A k \in Cams, f \in Fds : NodesIn(ip_list'[k], f) = IF k = j /\ f = fd THEN {n}
                                                   ELSE NodesOf(k, f)
    <3> SUFFICES ASSUME NEW k \in Cams, NEW f \in Fds
                 PROVE  NodesIn(ip_list'[k], f) = IF k = j /\ f = fd THEN {n} ELSE NodesOf(k, f)
        OBVIOUS
    <3>1. CASE k # j
      BY <1>4, <3>1 DEF NodesOf, NodesIn
    <3>2. CASE k = j /\ f = fd
      BY <1>1, <2>0, <2>2, <3>2 DEF NodesOf, NodesIn
    <3>3. CASE k = j /\ f # fd
      BY <1>1, <2>0, <2>2, <3>3 DEF NodesOf, NodesIn
    <3> QED
      BY <3>1, <3>2, <3>3
  <2>4. ReqOK'
    BY <2>1 DEF ReqOK
  <2>a. /\ asked \in [Conns -> SUBSET Cams] /\ asked'[owner[fd]] = asked[owner[fd]] \cup {j}
        /\ \A c \in Conns : c # owner[fd] => asked'[c] = asked[c]
    BY <1>0, <1>3, <2>1 DEF TypeOK
  <2>5. OwnerOK'
    BY <1>0, <1>2, <1>3, <2>a DEF OwnerOK, client
  <2>6. NodesOwned'
    <3> SUFFICES ASSUME NEW k \in Cams, NEW i \in 1..Len(ip_list'[k])
                 PROVE  /\ ip_list'[k][i].cam = k /\ ip_list'[k][i].fd \in Fds
                        /\ owner'[ip_list'[k][i].fd] \in Conns
                        /\ k \in asked'[owner'[ip_list'[k][i].fd]]
                        /\ NodesIn(ip_list'[k], ip_list'[k][i].fd) = {i}
        BY NextOwned DEF Unfilled
    <3>1. CASE k = j /\ i = n
      BY <1>1, <1>2, <1>3, <2>2, <2>3, <2>a, <3>1
    <3>2. CASE ~(k = j /\ i = n)
      <4>1. i \in 1..Len(ip_list[k]) /\ ip_list'[k][i] = ip_list[k][i] /\ ~Unfilled(k, i)
        BY <1>1, <1>4, <2>2, <3>2 DEF Unfilled
      <4>2. /\ ip_list[k][i].cam = k /\ ip_list[k][i].fd \in Fds
            /\ owner[ip_list[k][i].fd] \in Conns /\ k \in asked[owner[ip_list[k][i].fd]]
            /\ NodesOf(k, ip_list[k][i].fd) = {i}
        BY <1>0, <4>1 DEF NodesOwned
      <4>3. ~(k = j /\ ip_list[k][i].fd = fd)
        BY <2>0, <4>2
      <4> QED
        BY <1>2, <2>3, <2>a, <4>1, <4>2, <4>3
    <3> QED
      BY <3>1, <3>2
  <2>7. WatchExact'
    <3> SUFFICES ASSUME NEW s \in Used, NEW k \in Cams, owner[client_sockfd[s]] \notin stray
                 PROVE  k \in asked'[owner[client_sockfd[s]]]
                          <=> NodesIn(ip_list'[k], client_sockfd[s]) # {}
        BY <1>2, <2>1, NextWatch
    <3>1. client_sockfd[s] \in Fds /\ owner[client_sockfd[s]] \in Conns
      BY <1>0 DEF SlotsExact, Used, TypeOK
    <3>2. k \in asked[owner[client_sockfd[s]]] <=> NodesOf(k, client_sockfd[s]) # {}
      BY <1>0, <2>0 DEF WatchExact
    <3>3. owner[client_sockfd[s]] = owner[fd] <=> client_sockfd[s] = fd
      BY <1>0, <1>3, <3>1 DEF OwnerOK, Conns, NoConn
    <3> QED
      BY <2>3, <2>a, <3>1, <3>2, <3>3, ZenonT(30)
  <2> QED
    BY <1>4, <2>4, <2>5, <2>6, <2>7 DEF IInv
<1> QED
  BY <1>5, <1>6, <1>7

\* del_client: the only node of the descriptor in that list goes.
LEMMA DelNode ==
  ASSUME IInv, TypeOK', DelEnd
  PROVE  IInv'
<1>0. TypeOK /\ SlotsExact /\ ReqOK /\ OwnerOK /\ NodesOwned /\ WatchExact
  BY DEF IInv
<1> USE FdsAssumption, NumbersAssumption
<1> DEFINE k == req.look
           l == ip_list[k]
           c == owner[fd]
<1>1. /\ k \in Cams /\ req.cam \in Cams /\ ip_list \in [Cams -> Seq(Entries)]
      /\ l \in Seq(Entries) /\ pc = "del" /\ req.slot \in Used
      /\ req.type \in {"eof", "stop"} /\ (req.type = "eof" => req.cam = 0)
      /\ (req.cam # 0 => k = req.cam)
      /\ \A m \in Cams : req.cam = 0 /\ m < k => NodesOf(m, fd) = {}
  BY <1>0 DEF TypeOK, Entries, DelEnd, ReqOK
<1>2. UNCHANGED <<client, owner, client_sockfd, conn_amount, client_fdset_all, Used>>
  BY DEF DelEnd, slots, Used
<1>3. fd \in Fds /\ c \in Conns
  BY <1>0, <1>1 DEF SlotsExact, fd, Used, TypeOK
<1>4. SlotsExact'
  BY <1>0, <1>2 DEF SlotsExact
<1>5. /\ \A m \in Cams, f \in Fds : NodesIn(ip_list'[m], f) # {}
                                     <=> NodesOf(m, f) # {} /\ ~(m = k /\ f = fd)
      /\ \A m \in Cams : \A i \in 1..Len(ip_list'[m]) :
            \E j \in 1..Len(ip_list[m]) :
               /\ ip_list'[m][i] = ip_list[m][j] /\ ip_list[m][j].fd \in Fds
               /\ ~(m = k /\ ip_list[m][j].fd = fd)
               /\ (NodesOf(m, ip_list[m][j].fd) = {j}
                     => NodesIn(ip_list'[m], ip_list[m][j].fd) = {i})
  <2>a. \A m \in Cams : \A i \in 1..Len(ip_list[m]) : ip_list[m][i].fd \in Fds
    BY <1>0, <1>1 DEF NodesOwned, Unfilled
  <2>b. \A m \in Cams : Len(ip_list[m]) \in Nat
    BY <1>1
  <2>1. CASE ~Watching(k)
    <3>1. ip_list' = ip_list
      BY <2>1 DEF DelEnd
    <3>2. NodesOf(k, fd) = {}
      BY <2>1 DEF Watching
    <3>3. \A m \in Cams, f \in Fds : NodesIn(ip_list'[m], f) = NodesOf(m, f)
      BY <3>1 DEF NodesOf, NodesIn
    <3>4. \A i \in 1..Len(l) : l[i].fd # fd
      BY <3>2 DEF NodesOf
    <3> QED
      BY <2>a, <3>1, <3>2, <3>3, <3>4
  <2>2. CASE Watching(k)
    <3> DEFINE n == First(k)
    <3>1. n \in 1..Len(l) /\ NodesOf(k, fd) = {n}
      BY <1>0, <1>1, <1>3, <2>2, FirstNode
    <3>2. /\ ip_list'[k] = Without(l, n)
          /\ \A m \in Cams \ {k} : ip_list'[m] = ip_list[m]
      BY <1>1, <2>2 DEF DelEnd
    <3>3. /\ Len(ip_list'[k]) = Len(l) - 1
          /\ \A i \in 1..(Len(l) - 1) : ip_list'[k][i] = IF i < n THEN l[i] ELSE l[i + 1]
      BY <1>1, <3>1, <3>2, WithoutList
    <3> HIDE DEF n
    <3>4. \A m \in Cams \ {k}, f \in Fds : NodesIn(ip_list'[m], f) = NodesOf(m, f)
      BY <3>2 DEF NodesOf, NodesIn
    <3>5. l[n].fd = fd /\ \A i \in 1..Len(l) : l[i].fd = fd => i = n
      BY <3>1 DEF NodesOf
    <3>6. \A f \in Fds : NodesIn(ip_list'[k], f) # {} <=> NodesOf(k, f) # {} /\ f # fd
      <4> SUFFICES ASSUME NEW f \in Fds
                   PROVE  NodesIn(ip_list'[k], f) # {} <=> NodesOf(k, f) # {} /\ f # fd
          OBVIOUS
      <4>1. ASSUME NEW i \in 1..(Len(l) - 1), ip_list'[k][i].fd = f
            PROVE  f # fd /\ \E j \in 1..Len(l) : l[j].fd = f
        <5>1. CASE i < n
          BY <1>1, <2>b, <3>3, <3>5, <4>1, <5>1
        <5>2. CASE ~(i < n)
          <6>1. i + 1 \in 1..Len(l) /\ i + 1 # n
            BY <1>1, <2>b, <3>1, <4>1, <5>2
          <6>2. l[i + 1].fd = f
            BY <3>3, <4>1, <5>2
          <6> QED
            BY <3>5, <6>1, <6>2
        <5> QED
          BY <5>1, <5>2
      <4>2. ASSUME NEW j \in 1..Len(l), l[j].fd = f, f # fd
            PROVE  \E i \in 1..(Len(l) - 1) : ip_list'[k][i].fd = f
        <5>1. j # n
          BY <3>5, <4>2
        <5>2. CASE j < n
          <6>1. j \in 1..(Len(l) - 1)
            BY <1>1, <2>b, <3>1, <5>2
          <6> QED
            BY <3>3, <4>2, <5>2, <6>1
        <5>3. CASE j > n
          <6>1. j - 1 \in 1..(Len(l) - 1) /\ ~(j - 1 < n) /\ (j - 1) + 1 = j
            BY <1>1, <2>b, <3>1, <5>3
          <6> QED
            BY <3>3, <4>2, <6>1
        <5> QED
          BY <3>1, <5>1, <5>2, <5>3
      <4> QED
        BY <3>3, <4>1, <4>2 DEF NodesIn, NodesOf
    <3>7. ASSUME NEW i \in 1..(Len(l) - 1)
          PROVE  \E j \in 1..Len(l) :
                    /\ ip_list'[k][i] = l[j] /\ l[j].fd # fd
                    /\ (NodesOf(k, l[j].fd) = {j} => NodesIn(ip_list'[k], l[j].fd) = {i})
      <4> DEFINE j == IF i < n THEN i ELSE i + 1
      <4>1. j \in 1..Len(l) /\ j # n /\ ip_list'[k][i] = l[j]
        BY <1>1, <2>b, <3>1, <3>3, <3>7, SMTT(30)
      <4>2. ASSUME NodesOf(k, l[j].fd) = {j}, NEW h \in 1..(Len(l) - 1),
                   ip_list'[k][h].fd = l[j].fd
            PROVE  h = i
        <5> DEFINE g == IF h < n THEN h ELSE h + 1
        <5>1. g \in 1..Len(l) /\ ip_list'[k][h] = l[g]
          BY <1>1, <2>b, <3>1, <3>3, <4>2
        <5>2. g = j
          BY <4>2, <5>1 DEF NodesOf
        <5> QED
          BY <1>1, <2>b, <3>1, <5>2
      <4>3. NodesOf(k, l[j].fd) = {j} => NodesIn(ip_list'[k], l[j].fd) = {i}
        BY <3>3, <4>1, <4>2 DEF NodesIn
      <4> QED
        BY <3>5, <4>1, <4>3
    <3>8. ASSUME NEW m \in Cams, NEW i \in 1..Len(ip_list'[m])
          PROVE  \E j \in 1..Len(ip_list[m]) :
                    /\ ip_list'[m][i] = ip_list[m][j] /\ ip_list[m][j].fd \in Fds
                    /\ ~(m = k /\ ip_list[m][j].fd = fd)
                    /\ (NodesOf(m, ip_list[m][j].fd) = {j}
                          => NodesIn(ip_list'[m], ip_list[m][j].fd) = {i})
      <4>1. CASE m = k
        BY <2>a, <3>3, <3>7, <3>8, <4>1
      <4>2. CASE m # k
        <5>1. ip_list'[m] = ip_list[m] /\ ip_list[m][i].fd \in Fds
          BY <2>a, <3>2, <3>8, <4>2
        <5>2. NodesIn(ip_list'[m], ip_list[m][i].fd) = NodesOf(m, ip_list[m][i].fd)
          BY <3>4, <4>2, <5>1
        <5> QED
          BY <3>8, <4>2, <5>1, <5>2
      <4> QED
        BY <4>1, <4>2
    <3>9. \A m \in Cams, f \in Fds : NodesIn(ip_list'[m], f) # {}
                                     <=> NodesOf(m, f) # {} /\ ~(m = k /\ f = fd)
      BY <3>4, <3>6
    <3> QED
      BY <3>8, <3>9
  <2> QED
    BY <2>1, <2>2
<1>6. /\ req.type = "eof" => UNCHANGED history /\ pc' \in {"clear", "close"} /\ req' = req
      /\ req.type = "stop" => Stops /\ pc' = "scan"
  BY <1>1 DEF DelEnd, AfterDel, Continue
<1>7. ReqOK'
  <2>1. CASE pc' \in {"scan", "clear"}
    BY <1>1, <1>2, <1>6, <2>1 DEF ReqOK
  <2>2. CASE pc' = "close"
    <3>1. ~Watching(k) /\ LastLook /\ req.type = "eof"
      BY <1>1, <2>2 DEF DelEnd, AfterDel, Over, Continue
    <3>2. req.cam = 0 /\ k = CamMax - 1 /\ ip_list' = ip_list
      BY <1>1, <3>1 DEF LastLook, DelEnd
    <3>3. \A m \in Cams : NodesOf(m, fd) = {}
      BY <1>1, <3>1, <3>2 DEF Watching, Cams
    <3>4. \A m \in Cams : NodesOf(m, fd)' = {}
      BY <1>2, <1>6, <3>1, <3>2, <3>3 DEF NodesOf, fd
    <3> QED
      BY <1>1, <1>2, <1>6, <2>2, <3>1, <3>4 DEF ReqOK
  <2> QED
    BY <1>1, <1>6, <2>1, <2>2
<1>8. /\ \A b \in Conns \ {c} : asked'[b] = asked[b]
      /\ asked'[c] = IF req.type = "stop" THEN asked[c] \ {req.cam} ELSE asked[c]
      /\ \A b \in Conns : b \in stray => b \in stray'
  <2>1. asked \in [Conns -> SUBSET Cams]
    BY <1>0 DEF TypeOK
  <2>2. CASE req.type = "eof"
    BY <1>6, <2>2 DEF history
  <2>3. CASE req.type = "stop"
    BY <1>3, <1>6, <2>1, <2>3 DEF Stops
  <2> QED
    BY <1>1, <2>2, <2>3
<1>9. OwnerOK'
  BY <1>0, <1>2, <1>8 DEF OwnerOK, client
<1>s. \A f \in Fds : owner[f] = c <=> f = fd
  <2>1. c # NoConn
    BY <1>3 DEF Conns, NoConn
  <2>2. \A f, g \in Fds : owner[f] = owner[g] /\ owner[f] # NoConn => f = g
    BY <1>0 DEF OwnerOK
  <2> QED
    BY <1>3, <2>1, <2>2
<1>z. \A f \in Fds : req.cam = 0 /\ k # 0 => NodesOf(0, fd) = {}
  BY <1>1 DEF Cams
<1>10. NodesOwned'
  <2> SUFFICES ASSUME NEW m \in Cams, NEW i \in 1..Len(ip_list'[m])
               PROVE  /\ ip_list'[m][i].cam = m /\ ip_list'[m][i].fd \in Fds
                      /\ owner'[ip_list'[m][i].fd] \in Conns
                      /\ m \in asked'[owner'[ip_list'[m][i].fd]]
                      /\ NodesIn(ip_list'[m], ip_list'[m][i].fd) = {i}
      BY NextOwned
  <2>1. PICK j \in 1..Len(ip_list[m]) :
               /\ ip_list'[m][i] = ip_list[m][j] /\ ip_list[m][j].fd \in Fds
               /\ ~(m = k /\ ip_list[m][j].fd = fd)
               /\ (NodesOf(m, ip_list[m][j].fd) = {j}
                     => NodesIn(ip_list'[m], ip_list[m][j].fd) = {i})
    BY <1>5
  <2> DEFINE f == ip_list[m][j].fd
  <2>2. /\ ip_list[m][j].cam = m /\ f \in Fds /\ owner[f] \in Conns
        /\ m \in asked[owner[f]] /\ NodesOf(m, f) = {j}
    BY <1>0, <1>1 DEF NodesOwned, Unfilled
  <2>3. m \in asked'[owner[f]]
    <3>1. CASE f = fd /\ req.type = "stop" /\ m = req.cam
      <4>1. m = 0 /\ k # 0
        BY <1>1, <2>1, <3>1
      <4> QED
        BY <1>z, <2>2, <3>1, <4>1
    <3>2. CASE ~(f = fd /\ req.type = "stop" /\ m = req.cam)
      BY <1>3, <1>8, <1>s, <2>2, <3>2
    <3> QED
      BY <3>1, <3>2
  <2> QED
    BY <1>2, <2>1, <2>2, <2>3
<1>11. WatchExact'
  <2> SUFFICES ASSUME NEW s \in Used, NEW m \in Cams, owner[client_sockfd[s]] \notin stray',
                      ~(pc' \in {"clear", "close"} /\ s = req'.slot)
               PROVE  m \in asked'[owner[client_sockfd[s]]]
                        <=> NodesIn(ip_list'[m], client_sockfd[s]) # {}
      BY <1>2, NextWatch
  <2> DEFINE f == client_sockfd[s]
  <2>1. f \in Fds /\ owner[f] \in Conns
    BY <1>0 DEF SlotsExact, Used, TypeOK
  <2>2. m \in asked[owner[f]] <=> NodesOf(m, f) # {}
    BY <1>0, <1>1, <1>8, <2>1 DEF WatchExact
  <2>3. CASE f # fd
    BY <1>3, <1>5, <1>8, <1>s, <2>1, <2>2, <2>3, ZenonT(30)
  <2>4. CASE f = fd
    <3>1. s = req.slot
      BY <1>0, <1>1, <2>4 DEF SlotsExact, fd
    <3>2. req.type = "stop" /\ Stops
      BY <1>1, <1>6, <3>1
    <3>3. req.cam = 0 => 0 \in asked[c]
      BY <1>3, <2>4, <3>2 DEF Stops
    <3>4. m \in asked'[c] <=> m \in asked[c] /\ m # req.cam
      BY <1>8, <3>2
    <3>5. CASE k = req.cam
      BY <1>5, <2>1, <2>2, <2>4, <3>4, <3>5
    <3>6. CASE k # req.cam
      <4>1. req.cam = 0 /\ NodesOf(0, fd) = {}
        BY <1>1, <1>z, <2>1, <3>6
      <4>2. 0 \in Cams /\ 0 \notin asked[c]
        BY <1>0, <1>1, <1>8, <2>1, <2>4, <4>1 DEF WatchExact, Cams
      <4> QED
        BY <3>3, <4>1, <4>2
    <3> QED
      BY <3>5, <3>6
  <2> QED
    BY <2>3, <2>4
<1> QED
  BY <1>4, <1>7, <1>9, <1>10, <1>11 DEF IInv

\* A slot is given back, and the descriptor closed when no list names it.
LEMMA Forget ==
  ASSUME IInv, TypeOK', ClearSocket
  PROVE  IInv'
<1>0. TypeOK /\ SlotsExact /\ ReqOK /\ OwnerOK /\ NodesOwned /\ WatchExact
  BY DEF IInv
<1> USE FdsAssumption, NumbersAssumption
<1> DEFINE s == req.slot
<1>1. s \in Used /\ pc \in {"clear", "close"} /\ s \in Slots
  BY <1>0 DEF ClearSocket, ReqOK, Used
<1>2. /\ client_sockfd' = [client_sockfd EXCEPT ![s] = 0]
      /\ client_fdset_all' = client_fdset_all \ {fd}
      /\ UNCHANGED <<client, ip_list, history>> /\ pc' = "scan"
      /\ (owner' = owner \/ (pc = "close" /\ owner' = [owner EXCEPT ![fd] = NoConn]))
  BY DEF ClearSocket, Continue
<1>3. fd \in Fds /\ fd = client_sockfd[s]
  BY <1>0, <1>1 DEF fd, Used, TypeOK
<1>4. Used' = Used \ {s} /\ \A r \in Used' : client_sockfd'[r] = client_sockfd[r]
  BY <1>0, <1>1, <1>2 DEF Used, TypeOK
<1>5. \A f \in Fds : f # fd => owner'[f] = owner[f]
  BY <1>0, <1>2 DEF TypeOK
<1>6. owner'[fd] = owner[fd] \/ (pc = "close" /\ owner'[fd] = NoConn)
  BY <1>0, <1>2, <1>3, SMTT(30) DEF TypeOK
<1>7. \A r \in Used' : client_sockfd[r] \in Fds \ {fd}
  BY <1>0, <1>1, <1>3, <1>4 DEF SlotsExact, Used, TypeOK
<1>8. SlotsExact'
  <2>1. IsFiniteSet(Used)
    <3>1. IsFiniteSet(Slots)
      BY FS_Interval DEF Slots
    <3> QED
      BY <3>1, FS_Subset DEF Used
  <2>2. Cardinality(Used') = Cardinality(Used) - 1 /\ Cardinality(Used) \in Nat \ {0}
    <3>1. Cardinality(Used') = Cardinality(Used) - 1
      BY <1>1, <1>4, <2>1, FS_RemoveElement
    <3>2. Cardinality(Used) \in Nat
      BY <2>1, FS_CardinalityType
    <3>3. Cardinality(Used) # 0
      BY <1>1, <2>1, FS_EmptySet
    <3> QED
      BY <3>1, <3>2, <3>3
  <2>3. conn_amount = Cardinality(Used) /\ conn_amount <= MaxConn
    BY <1>0 DEF SlotsExact
  <2>4. conn_amount' = (IF conn_amount > 0 THEN conn_amount - 1 ELSE 0)
    BY DEF ClearSocket
  <2>5. conn_amount' = Cardinality(Used') /\ conn_amount' <= MaxConn
    BY <2>2, <2>3, <2>4
  <2>6. client_fdset_all' = {client_sockfd'[r] : r \in Used'}
    BY <1>0, <1>1, <1>2, <1>3, <1>4, <1>7 DEF SlotsExact
  <2>7. \A r \in Used' : owner'[client_sockfd'[r]] \in Conns
    BY <1>0, <1>4, <1>5, <1>7 DEF SlotsExact
  <2>8. \A q, r \in Used' : client_sockfd'[q] = client_sockfd'[r] => q = r
    BY <1>0, <1>4 DEF SlotsExact
  <2> QED
    BY <2>5, <2>6, <2>7, <2>8 DEF SlotsExact, Conns
<1>9. ReqOK'
  BY <1>2 DEF ReqOK
<1>10. OwnerOK'
  <2>1. \A f, g \in Fds : owner'[f] = owner'[g] /\ owner'[f] # NoConn => f = g
    BY <1>0, <1>5, <1>6, ZenonT(30) DEF OwnerOK
  <2>2. \A b \in Conns, f \in Fds : owner'[f] = b => owner[f] = b
    BY <1>5, <1>6 DEF Conns, NoConn
  <2> QED
    BY <1>0, <1>2, <2>1, <2>2 DEF OwnerOK, client, history
<1>11. NodesOwned'
  <2> SUFFICES ASSUME NEW k \in Cams, NEW i \in 1..Len(ip_list'[k])
               PROVE  /\ ip_list'[k][i].cam = k /\ ip_list'[k][i].fd \in Fds
                      /\ owner'[ip_list'[k][i].fd] \in Conns
                      /\ k \in asked'[owner'[ip_list'[k][i].fd]]
                      /\ NodesIn(ip_list'[k], ip_list'[k][i].fd) = {i}
      BY NextOwned
  <2> DEFINE f == ip_list[k][i].fd
  <2>1. ip_list' = ip_list /\ i \in 1..Len(ip_list[k]) /\ asked' = asked
    BY <1>2 DEF history
  <2>2. /\ ip_list[k][i].cam = k /\ f \in Fds /\ owner[f] \in Conns
        /\ k \in asked[owner[f]] /\ NodesOf(k, f) = {i}
    BY <1>0, <1>1, <2>1 DEF NodesOwned, Unfilled
  <2>3. pc = "close" => NodesOf(k, fd) = {}
    BY <1>0 DEF ReqOK
  <2>4. owner'[f] = owner[f]
    <3>1. CASE f = fd
      <4>1. pc # "close"
        BY <2>2, <2>3, <3>1
      <4> QED
        BY <1>6, <3>1, <4>1
    <3>2. CASE f # fd
      BY <1>5, <2>2, <3>2
    <3> QED
      BY <3>1, <3>2
  <2> QED
    BY <2>1, <2>2, <2>4 DEF NodesOf, NodesIn
<1>12. WatchExact'
  <2> SUFFICES ASSUME NEW r \in Used', NEW k \in Cams, owner'[client_sockfd'[r]] \notin stray'
               PROVE  k \in asked'[owner'[client_sockfd'[r]]]
                        <=> NodesIn(ip_list'[k], client_sockfd'[r]) # {}
      BY NextWatch
  <2> DEFINE f == client_sockfd[r]
  <2>1. f \in Fds \ {fd} /\ r \in Used /\ r # s /\ client_sockfd'[r] = f /\ owner'[f] = owner[f]
    BY <1>4, <1>5, <1>7
  <2>2. k \in asked[owner[f]] <=> NodesOf(k, f) # {}
    BY <1>0, <1>2, <2>1 DEF WatchExact, history
  <2> QED
    BY <1>2, <2>1, <2>2 DEF NodesOf, NodesIn, history
<1> QED
  BY <1>8, <1>9, <1>10, <1>11, <1>12 DEF IInv

\* A connection is accepted: its descriptor is new to every list.
LEMMA Admit ==
  ASSUME IInv, TypeOK', NEW c \in Conns, NEW f \in Fds, Accept(c, f)
  PROVE  IInv'
<1>0. TypeOK /\ SlotsExact /\ ReqOK /\ OwnerOK /\ NodesOwned /\ WatchExact
  BY DEF IInv
<1> USE FdsAssumption, NumbersAssumption
<1>1. /\ pc = "scan" /\ pc' = "select" /\ owner[f] = NoConn /\ c \in backlog
      /\ backlog' = backlog \ {c}
      /\ UNCHANGED <<net, ip_list, asked, stray>>
  BY DEF Accept, FreeFds, history
<1>2. /\ owner' = owner \/ owner' = [owner EXCEPT ![f] = c]
      /\ \/ UNCHANGED slots
         \/ /\ owner' = [owner EXCEPT ![f] = c] /\ conn_amount < MaxConn
            /\ \E s \in Slots \ Used :
                 /\ client_sockfd' = [client_sockfd EXCEPT ![s] = f]
                 /\ client_fdset_all' = client_fdset_all \cup {f}
                 /\ conn_amount' = conn_amount + 1
  BY DEF Accept, FreeSlots, Used
<1>3. /\ \A g \in Fds \ {f} : owner'[g] = owner[g]
      /\ owner'[f] \in {c, NoConn}
  BY <1>0, <1>1, <1>2, SMTT(30) DEF TypeOK
<1>4. asked[c] = {} /\ (\A g \in Fds : owner[g] # c) /\ net[c] # "none"
  BY <1>0, <1>1 DEF OwnerOK
<1>5. \A s \in Used : client_sockfd[s] \in Fds \ {f}
  BY <1>0, <1>1 DEF SlotsExact, Used, TypeOK, Conns, NoConn
<1>6. \A k \in Cams : NodesOf(k, f) = {}
  BY <1>0, <1>1 DEF NodesOwned, Unfilled, NodesOf, Conns, NoConn
<1>7. ReqOK'
  BY <1>1 DEF ReqOK
<1>8. OwnerOK'
  <2>1. \A g, h \in Fds : owner'[g] = owner'[h] /\ owner'[g] # NoConn => g = h
    BY <1>0, <1>3, <1>4 DEF OwnerOK
  <2>2. \A b \in Conns \ {c}, g \in Fds : owner[g] # b => owner'[g] # b
    BY <1>3 DEF Conns, NoConn
  <2> QED
    BY <1>0, <1>1, <1>4, <2>1, <2>2 DEF OwnerOK
<1>9. NodesOwned'
  <2> SUFFICES ASSUME NEW k \in Cams, NEW i \in 1..Len(ip_list'[k])
               PROVE  /\ ip_list'[k][i].cam = k /\ ip_list'[k][i].fd \in Fds
                      /\ owner'[ip_list'[k][i].fd] \in Conns
                      /\ k \in asked'[owner'[ip_list'[k][i].fd]]
                      /\ NodesIn(ip_list'[k], ip_list'[k][i].fd) = {i}
      BY NextOwned
  <2> DEFINE g == ip_list[k][i].fd
  <2>1. i \in 1..Len(ip_list[k])
    BY <1>1
  <2>2. /\ ip_list[k][i].cam = k /\ g \in Fds /\ owner[g] \in Conns
        /\ k \in asked[owner[g]] /\ NodesOf(k, g) = {i}
    BY <1>0, <1>1, <2>1 DEF NodesOwned, Unfilled
  <2>3. owner'[g] = owner[g]
    BY <1>1, <1>3, <2>2 DEF Conns, NoConn
  <2> QED
    BY <1>1, <2>1, <2>2, <2>3 DEF NodesOf, NodesIn
<1>w. ASSUME NEW s \in Used, NEW k \in Cams, owner[client_sockfd[s]] \notin stray
      PROVE  k \in asked[owner'[client_sockfd[s]]] <=> NodesIn(ip_list[k], client_sockfd[s]) # {}
  <2>1. k \in asked[owner[client_sockfd[s]]] <=> NodesOf(k, client_sockfd[s]) # {}
    BY <1>0, <1>1, <1>w DEF WatchExact
  <2> QED
    BY <1>3, <1>5, <2>1 DEF NodesOf, NodesIn
<1>10. CASE UNCHANGED slots
  <2>1. UNCHANGED <<client_sockfd, Used, conn_amount, client_fdset_all>>
    BY <1>10 DEF slots, Used
  <2>2. SlotsExact'
    BY <1>0, <1>3, <1>5, <2>1 DEF SlotsExact
  <2>3. WatchExact'
    BY <1>1, <1>3, <1>5, <1>w, <2>1, NextWatch
  <2> QED
    BY <1>7, <1>8, <1>9, <2>2, <2>3 DEF IInv
<1>11. ASSUME NEW s \in Slots \ Used, owner' = [owner EXCEPT ![f] = c],
              conn_amount < MaxConn, conn_amount' = conn_amount + 1,
              client_sockfd' = [client_sockfd EXCEPT ![s] = f],
              client_fdset_all' = client_fdset_all \cup {f}
       PROVE  IInv'
  <2>1. /\ Used' = Used \cup {s} /\ client_sockfd'[s] = f /\ owner'[f] = c
        /\ \A r \in Used : client_sockfd'[r] = client_sockfd[r]
    <3>1. client_sockfd \in [Slots -> Fds \cup {0}] /\ owner \in [Fds -> Conns \cup {NoConn}]
      BY <1>0 DEF TypeOK
    <3>2. /\ client_sockfd'[s] = f /\ owner'[f] = c /\ f # 0
          /\ \A r \in Slots : r # s => client_sockfd'[r] = client_sockfd[r]
      BY <1>11, <3>1
    <3> QED
      BY <1>11, <3>2 DEF Used
  <2>2. SlotsExact'
    <3>1. IsFiniteSet(Used)
      <4>1. IsFiniteSet(Slots)
        BY FS_Interval DEF Slots
      <4> QED
        BY <4>1, FS_Subset DEF Used
    <3>2. Cardinality(Used') = Cardinality(Used) + 1 /\ Cardinality(Used) \in Nat
      BY <1>11, <2>1, <3>1, FS_AddElement, FS_CardinalityType
    <3>3. conn_amount' = Cardinality(Used') /\ conn_amount' <= MaxConn
      BY <1>0, <1>11, <3>2 DEF SlotsExact
    <3>4. client_fdset_all' = {client_sockfd'[r] : r \in Used'}
      BY <1>0, <1>11, <2>1 DEF SlotsExact
    <3>5. \A r \in Used' : owner'[client_sockfd'[r]] \in Conns
      BY <1>0, <1>3, <1>5, <2>1 DEF SlotsExact
    <3>6. \A q, r \in Used' : client_sockfd'[q] = client_sockfd'[r] => q = r
      BY <1>0, <1>5, <2>1 DEF SlotsExact
    <3> QED
      BY <3>3, <3>4, <3>5, <3>6 DEF SlotsExact, Conns
  <2>3. WatchExact'
    <3> SUFFICES ASSUME NEW r \in Used', NEW k \in Cams,
                        owner'[client_sockfd'[r]] \notin stray'
                 PROVE  k \in asked'[owner'[client_sockfd'[r]]]
                          <=> NodesIn(ip_list'[k], client_sockfd'[r]) # {}
        BY NextWatch
    <3>1. CASE r = s
      BY <1>1, <1>4, <1>6, <2>1, <3>1 DEF NodesOf, NodesIn
    <3>2. CASE r # s
      BY <1>1, <1>3, <1>5, <1>w, <2>1, <3>2
    <3> QED
      BY <3>1, <3>2
  <2> QED
    BY <1>7, <1>8, <1>9, <2>2, <2>3 DEF IInv
<1> QED
  BY <1>2, <1>10, <1>11

LEMMA InitInv == Init => IInv
<1> SUFFICES ASSUME Init PROVE IInv
    OBVIOUS
<1> USE FdsAssumption, NumbersAssumption DEF Init
<1>1. NoRequest \in [slot : Slots \cup {0}, type : DOMAIN Handler \cup {"none"},
                     cam : Cams, look : Cams]
  BY DEF NoRequest, Cams
<1>2. TypeOK
  BY <1>1 DEF TypeOK, TcpSteps, NoConn, Cams
<1>3. Used = {}
  BY DEF Used
<1>4. SlotsExact
  <2>1. Cardinality(Used) = 0
    BY <1>3, FS_EmptySet
  <2> QED
    BY <1>3, <2>1 DEF SlotsExact
<1>5. ReqOK /\ OwnerOK
  BY DEF ReqOK, OwnerOK, Conns, NoConn
<1>6. NodesOwned
  BY DEF NodesOwned
<1>7. WatchExact
  BY <1>3 DEF WatchExact
<1> QED
  BY <1>2, <1>4, <1>5, <1>6, <1>7 DEF IInv

LEMMA StepInv == IInv /\ [Next]_vars => IInv'
<1> SUFFICES ASSUME IInv, [Next]_vars PROVE IInv'
    OBVIOUS
<1>0. TypeOK' /\ TypeOK
  BY TypeStep DEF IInv
<1>1. ASSUME NEW c \in Conns, Connect(c) PROVE IInv'
  <2>1. /\ UNCHANGED <<owner, slots, ip_list, pc, req, history>>
        /\ net' = [net EXCEPT ![c] = "open"] /\ backlog' = backlog \cup {c}
        /\ net[c] = "none"
    BY <1>1 DEF Connect, tcp
  <2>2. UNCHANGED <<client_sockfd, conn_amount, client_fdset_all, Used, fd, asked, stray>>
    BY <2>1 DEF slots, history, Used, fd
  <2>3. \A k, f : NodesOf(k, f)' = NodesOf(k, f)
    BY <2>1 DEF NodesOf
  <2>4. SlotsExact' /\ ReqOK'
    BY <2>1, <2>2, <2>3 DEF IInv, SlotsExact, ReqOK
  <2>5. \A b \in Conns : net'[b] = IF b = c THEN "open" ELSE net[b]
    BY <1>0, <2>1 DEF TypeOK
  <2>6. OwnerOK'
    BY <1>0, <2>1, <2>2, <2>5, SMTT(30) DEF IInv, OwnerOK, TypeOK
  <2>7. NodesOwned' /\ WatchExact'
    BY <2>1, <2>2, <2>3 DEF IInv, NodesOwned, Unfilled, WatchExact
  <2> QED
    BY <1>0, <2>4, <2>6, <2>7 DEF IInv
<1>2. ASSUME NEW c \in Conns, Leave(c) PROVE IInv'
  <2>1. \A b \in Conns : net'[b] = "none" <=> net[b] = "none"
    BY <1>0, <1>2 DEF Leave, TypeOK
  <2> QED
    BY <1>0, <1>2, <2>1, QuietStep DEF Leave, tcp
<1>3. ASSUME NEW c \in Conns, NEW m, Put(c, m) PROVE IInv'
  BY <1>0, <1>3, QuietStep DEF Put, tcp
<1>4. ASSUME NEW c \in Conns, Read(c) PROVE IInv'
  BY <1>0, <1>4, QuietStep DEF Read, tcp, client
<1>5. ASSUME NEW k \in Cams, AlgStep(k) PROVE IInv'
  BY <1>0, <1>5, QuietStep DEF AlgStep, Frame, SkipNode, SendBegin, SendEnd, tcp, client
<1>6. CASE UNCHANGED vars
  BY <1>0, <1>6, QuietStep DEF vars, tcp, client
<1>7. CASE TcpStep
  BY <1>0, <1>7, TcpMoves, AddNode, DelNode, Forget, Admit DEF TcpStep
<1> QED
  BY <1>1, <1>2, <1>3, <1>4, <1>5, <1>6, <1>7 DEF Next, Request, Body

-----------------------------------------------------------------------------

\* The slots of tcp_server.c are exact, for any number of slots, descriptors and
\* clients: none is lost or served twice, and never more than MaxConn are used.
THEOREM SlotsCorrect == Spec => []SlotsExact
<1>1. IInv => SlotsExact
  BY DEF IInv
<1> QED
  BY <1>1, InitInv, StepInv, PTL DEF Spec

\* The lists of client_net.c name only open descriptors, each once, of clients that
\* asked: what an algorithm thread sends never reaches a connection that was given
\* a number used before.
THEOREM WatchersCorrect == Spec => []NodesOwned
<1>1. IInv => NodesOwned
  BY DEF IInv
<1> QED
  BY <1>1, InitInv, StepInv, PTL DEF Spec

\* A connected client is in exactly the lists it asked to be in.
THEOREM WatchCorrect == Spec => []WatchExact
<1>1. IInv => WatchExact
  BY DEF IInv
<1> QED
  BY <1>1, InitInv, StepInv, PTL DEF Spec

\* Every variable has its type, and client_sock_lock one holder at most.
THEOREM RegistryTypes == Spec => []TypeOK
<1>1. IInv => TypeOK
  BY DEF IInv
<1> QED
  BY <1>1, InitInv, StepInv, PTL DEF Spec
=============================================================================
