------------------------------- MODULE Server -------------------------------
(***************************************************************************)
(* The server program (server.c, server_util.c): a select() loop over      *)
(* standard input, the passive TCP socket, the UDP socket and one socket   *)
(* per online client, whose handlers block in recv() until the peer they   *)
(* are talking to answers.  Every action ends where the process would next *)
(* block or move on to another peer.  The first branch of a handler that   *)
(* may fail is its success; DIE, and SIGPIPE on a send() to a process that *)
(* is gone, are the actions named for what went wrong.                     *)
(***************************************************************************)
EXTENDS Integers, Wire, TopicList

CONSTANTS NoConn,  \* what a free descriptor holds
          MaxFd    \* the largest descriptor the process may open

\* The descriptors the server opens first, in this order; 1 and 2 are not
\* in its sets.
STDIN == 0
TCP   == 3
UDP   == 4
FirstFd == 5
Fds == FirstFd..MaxFd

ASSUME ServerAssumption ==
  /\ NoConn \notin Conns
  /\ MaxFd \in Nat /\ FirstFd <= MaxFd

VARIABLES pc,          \* where the process is; "loop" is the select() loop
          clients,     \* clients_container
          file,        \* the connection each descriptor stands for
          read_fds,    \* the descriptors select() is to watch
          tmp_fds,     \* those found ready and not yet looked at
          fdmax,
          new_sockfd,  \* manage_connection_request's socket, 0 outside it
          at,          \* the client a walk over clients has reached, or 0
          cur,         \* the datagram send_data is forwarding, or 0
          udp,         \* datagrams waiting on the UDP socket, by number
          pub,         \* the topic of each datagram that ever got there
          malformed,   \* behind those in udp waits one the server cannot take
          stdin        \* "exit" has been typed

setVars == <<read_fds, tmp_fds, fdmax>>
inputVars == <<udp, pub, malformed, stdin>>
serverVars == <<pc, clients, file, setVars, new_sockfd, at, cur, inputVars>>

AckWaits == {"await_ack", "drain_ack", "bye_ack"}
Ended == {"dead", "stopped"}

Node == [topic : Topics \cup {NoTopic}, sf : {0, 1}]
List == {l \in [nodes : Seq(Node), tail : Nat] : l.tail <= Len(l.nodes)}
Client == [id : Ids, subs : List, sock : Fds \cup {-1}, online : BOOLEAN, queue : Seq(Nat)]

ServerTypeOK ==
  /\ pc \in {"loop", "await_id", "drain", "deliver", "bye"} \cup AckWaits \cup Ended
  /\ clients \in Seq(Client)
  /\ file \in [Fds -> Conns \cup {NoConn}]
  /\ read_fds \subseteq {STDIN, TCP, UDP} \cup Fds
  /\ tmp_fds \subseteq {STDIN, TCP, UDP} \cup Fds
  /\ fdmax \in Nat
  /\ new_sockfd \in Fds \cup {0}
  /\ at \in Nat
  /\ cur \in Nat
  /\ udp \in Seq(Nat)
  /\ pub \in Seq(Topics)
  /\ malformed \in BOOLEAN
  /\ stdin \in BOOLEAN

ServerInit ==
  /\ pc = "loop"
  /\ clients = << >>
  /\ file = [i \in Fds |-> NoConn]
  /\ read_fds = {STDIN, TCP, UDP}
  /\ tmp_fds = {}
  /\ fdmax = UDP
  /\ new_sockfd = 0
  /\ at = 0
  /\ cur = 0
  /\ udp = << >>
  /\ pub = << >>
  /\ malformed = FALSE
  /\ stdin = FALSE

-----------------------------------------------------------------------------
\* get_client_by_id and get_client_by_sock: the first client that matches.
IsById(k, id) ==
  /\ k \in 1..Len(clients)
  /\ clients[k].id = id
  /\ \A j \in 1..(k - 1) : clients[j].id # id

IsBySock(k, i) ==
  /\ k \in 1..Len(clients)
  /\ clients[k].sock = i
  /\ \A j \in 1..(k - 1) : clients[j].sock # i

Known(id) == \E k \in 1..Len(clients) : clients[k].id = id

\* The peer on the other side of a descriptor.
Peer(i) == file[i]

\* send() on p: another action is that it raises SIGPIPE, or returns -1.
Send(p, type) == s2c' = ToClient(p, Control(type))
MayFail(p) == cliEnd[p] = "closed"

\* close(i)
CloseFd(i) ==
  /\ file' = [file EXCEPT ![i] = NoConn]
  /\ srvEnd' = [srvEnd EXCEPT ![Peer(i)] = "closed"]

\* The process ends, and with it every connection.
Terminate(how) ==
  /\ pc' = how
  /\ srvEnd' = [p \in Conns |-> IF srvEnd[p] = "none" THEN "none" ELSE "closed"]
  /\ UNCHANGED <<c2s, s2c, cliEnd, clients, file, setVars, new_sockfd, at, cur, inputVars>>

Die == Terminate("dead")

-----------------------------------------------------------------------------
\* select() and the loop over the descriptors up to fdmax.
HasInput(i) ==
  \/ i = STDIN /\ stdin
  \/ i = TCP /\ \E p \in Conns : srvEnd[p] = "backlog"
  \/ i = UDP /\ (udp # << >> \/ malformed)
  \/ i \in Fds /\ file[i] # NoConn /\ ServerMayRecv(file[i])

\* Mutant: every watched socket is taken for ready.
ReadyUnchecked == {i \in read_fds : i <= fdmax /\ (i \in Fds \/ HasInput(i))}

ReadySet == {i \in read_fds : i <= fdmax /\ HasInput(i)}
Pending == {i \in tmp_fds : i <= fdmax}
Turn(i) == pc = "loop" /\ i \in Pending /\ \A j \in Pending : i <= j

Select ==
  /\ pc = "loop"
  /\ Pending = {}
  /\ ReadySet # {}
  /\ tmp_fds' = ReadySet
  /\ UNCHANGED <<wireVars, pc, clients, file, read_fds, fdmax, new_sockfd, at, cur, inputVars>>

-----------------------------------------------------------------------------
\* manage_connection_request() up to the recv() of the identifier.  The new
\* socket gets the lowest descriptor that is free.
IsLowestFree(i) == i \in Fds /\ file[i] = NoConn /\ \A j \in FirstFd..(i - 1) : file[j] # NoConn

AcceptConnection(p) ==
  /\ Turn(TCP)
  /\ srvEnd[p] = "backlog"
  /\ \E i \in Fds :
       /\ IsLowestFree(i)
       /\ new_sockfd' = i
       /\ file' = [file EXCEPT ![i] = p]
  /\ srvEnd' = [srvEnd EXCEPT ![p] = "open"]
  /\ Send(p, ID_REQUEST)
  /\ pc' = "await_id"
  /\ tmp_fds' = tmp_fds \ {TCP}
  /\ UNCHANGED <<c2s, cliEnd, clients, read_fds, fdmax, at, cur, inputVars>>

\* No descriptor is left for accept(), or the request is sent to nobody.
AcceptFails ==
  /\ Turn(TCP)
  /\ \/ \A i \in Fds : file[i] # NoConn
     \/ \E p \in Conns : srvEnd[p] = "backlog" /\ MayFail(p)
  /\ Die

\* The answer has arrived; Joins is the part the three outcomes share.
Answering(p) ==
  /\ pc = "await_id"
  /\ p = Peer(new_sockfd)
  /\ ServerMayRecv(p)

Identified(p) == Answering(p) /\ Incoming(p).type = ID_REPLY /\ c2s' \in AfterServerRecv(p)

\* FD_SET, (*fdmax)++ and back to the loop.
Register(fd) ==
  /\ read_fds' = read_fds \cup {fd}
  /\ fdmax' = fdmax + 1
  /\ new_sockfd' = 0
  /\ pc' = "loop"

NewClient(p) ==
  /\ Identified(p)
  /\ ~Known(Incoming(p).id)
  /\ clients' = Append(clients, [id |-> Incoming(p).id, subs |-> EmptyList,
                                 sock |-> new_sockfd, online |-> TRUE, queue |-> << >>])
  /\ Register(new_sockfd)
  /\ UNCHANGED <<s2c, cliEnd, srvEnd, file, tmp_fds, at, cur, inputVars>>

\* Mutant: the refused socket is not closed.
RefuseClientLeaks(p) ==
  /\ Identified(p)
  /\ \E k \in 1..Len(clients) : IsById(k, Incoming(p).id) /\ clients[k].online
  /\ Send(p, REFUSED)
  /\ new_sockfd' = 0
  /\ pc' = "loop"
  /\ UNCHANGED <<cliEnd, srvEnd, file, clients, setVars, at, cur, inputVars>>

RefuseClient(p) ==
  /\ Identified(p)
  /\ \E k \in 1..Len(clients) : IsById(k, Incoming(p).id) /\ clients[k].online
  /\ Send(p, REFUSED)
  /\ CloseFd(new_sockfd)
  /\ new_sockfd' = 0
  /\ pc' = "loop"
  /\ UNCHANGED <<cliEnd, clients, setVars, at, cur, inputVars>>

\* Mutant: the client keeps the -1 it got when it left.
ReturnClientOldSocket(p) ==
  /\ Identified(p)
  /\ \E k \in 1..Len(clients) :
       /\ IsById(k, Incoming(p).id)
       /\ ~clients[k].online
       /\ clients' = [clients EXCEPT ![k].online = TRUE]
       /\ at' = k
  /\ pc' = "drain"
  /\ UNCHANGED <<s2c, cliEnd, srvEnd, file, setVars, new_sockfd, cur, inputVars>>

\* An old client is back: it is online before its queue has been emptied.
ReturnClient(p) ==
  /\ Identified(p)
  /\ \E k \in 1..Len(clients) :
       /\ IsById(k, Incoming(p).id)
       /\ ~clients[k].online
       /\ clients' = [clients EXCEPT ![k].sock = new_sockfd, ![k].online = TRUE]
       /\ at' = k
  /\ pc' = "drain"
  /\ UNCHANGED <<s2c, cliEnd, srvEnd, file, setVars, new_sockfd, cur, inputVars>>

\* The peer went away instead of answering: buf still holds the request.
NoIdentity(p) == Answering(p) /\ Incoming(p).type # ID_REPLY /\ Die

IdentityUnrefusable(p) ==
  /\ Answering(p)
  /\ Incoming(p).type = ID_REPLY
  /\ \E k \in 1..Len(clients) : IsById(k, Incoming(p).id) /\ clients[k].online
  /\ MayFail(p)
  /\ Die

-----------------------------------------------------------------------------
\* empty_queue(): one queued publication at a time, each acknowledged.
Here == clients[at]
HerePeer == Peer(Here.sock)

\* Mutant: the queue's first element is sent and not removed.
SendQueuedKeeps ==
  /\ pc = "drain"
  /\ Here.queue # << >>
  /\ s2c' = ToClient(HerePeer, Publication(Head(Here.queue)))
  /\ pc' = "drain_ack"
  /\ UNCHANGED <<c2s, cliEnd, srvEnd, clients, file, setVars, new_sockfd, at, cur, inputVars>>

SendQueued ==
  /\ pc = "drain"
  /\ Here.queue # << >>
  /\ clients' = [clients EXCEPT ![at].queue = Tail(@)]
  /\ s2c' = ToClient(HerePeer, Publication(Head(Here.queue)))
  /\ pc' = "drain_ack"
  /\ UNCHANGED <<c2s, cliEnd, srvEnd, file, setVars, new_sockfd, at, cur, inputVars>>

SendQueuedFails == pc = "drain" /\ Here.queue # << >> /\ MayFail(HerePeer) /\ Die

QueueEmptied ==
  /\ pc = "drain"
  /\ Here.queue = << >>
  /\ Register(new_sockfd)
  /\ at' = 0
  /\ UNCHANGED <<wireVars, clients, file, tmp_fds, cur, inputVars>>

-----------------------------------------------------------------------------
\* A datagram: recvfrom(), build_msg(), build_sentBuffer(), then send_data()
\* walks the clients in the order they first connected.
ReceiveDatagram ==
  /\ Turn(UDP)
  /\ udp # << >>
  /\ cur' = Head(udp)
  /\ udp' = Tail(udp)
  /\ at' = 1
  /\ pc' = "deliver"
  /\ tmp_fds' = tmp_fds \ {UDP}
  /\ UNCHANGED <<wireVars, clients, file, read_fds, fdmax, new_sockfd, pub, malformed, stdin>>

\* An empty datagram is taken for a failure of recvfrom(): DIE.  One of a type
\* above 3 has a length that was never set, and copying that much from NULL
\* ends the process; Formats has the outcome that the length is 0.
ReceiveMalformed ==
  /\ Turn(UDP)
  /\ udp = << >>
  /\ malformed
  /\ Die

Visiting == pc = "deliver" /\ at <= Len(clients)
Wanted == Subscribed(Here.subs, pub[cur])
ToSend == Visiting /\ Wanted /\ Here.online

\* Mutant: store and forward whether or not the client is online.
ToStoreAlways == Visiting /\ Wanted /\ StoreForward(Here.subs, pub[cur])

ToStore == Visiting /\ Wanted /\ ~Here.online /\ StoreForward(Here.subs, pub[cur])

Skip ==
  /\ Visiting
  /\ ~(ToSend \/ ToStore)
  /\ at' = at + 1
  /\ UNCHANGED <<wireVars, pc, clients, file, setVars, new_sockfd, cur, inputVars>>

Enqueue ==
  /\ ToStore
  /\ clients' = [clients EXCEPT ![at].queue = Append(@, cur)]
  /\ at' = at + 1
  /\ UNCHANGED <<wireVars, pc, file, setVars, new_sockfd, cur, inputVars>>

\* Mutant: the next client is visited without waiting for the answer.
ForwardUnacked ==
  /\ ToSend
  /\ s2c' = ToClient(HerePeer, Publication(cur))
  /\ at' = at + 1
  /\ UNCHANGED <<c2s, cliEnd, srvEnd, pc, clients, file, setVars, new_sockfd, cur, inputVars>>

Forward ==
  /\ ToSend
  /\ s2c' = ToClient(HerePeer, Publication(cur))
  /\ pc' = "await_ack"
  /\ UNCHANGED <<c2s, cliEnd, srvEnd, clients, file, setVars, new_sockfd, at, cur, inputVars>>

ForwardFails == ToSend /\ MayFail(HerePeer) /\ Die

Forwarded ==
  /\ pc = "deliver"
  /\ at > Len(clients)
  /\ pc' = "loop"
  /\ at' = 0
  /\ cur' = 0
  /\ UNCHANGED <<wireVars, clients, file, setVars, new_sockfd, inputVars>>

-----------------------------------------------------------------------------
\* close_all_sockets(): the same farewell to every client, online or not.
ReceiveExit ==
  /\ Turn(STDIN)
  /\ at' = 1
  /\ pc' = "bye"
  /\ tmp_fds' = tmp_fds \ {STDIN}
  /\ UNCHANGED <<wireVars, clients, file, read_fds, fdmax, new_sockfd, cur, inputVars>>

SayBye ==
  /\ pc = "bye"
  /\ at <= Len(clients)
  /\ Here.sock # -1
  /\ Send(HerePeer, REFUSED)
  /\ pc' = "bye_ack"
  /\ UNCHANGED <<c2s, cliEnd, srvEnd, clients, file, setVars, new_sockfd, at, cur, inputVars>>

\* recv() on socket -1 leaves the buffer zeroed, which is not an ACK.
ByeFails ==
  /\ pc = "bye"
  /\ at <= Len(clients)
  /\ Here.sock # -1 => MayFail(HerePeer)
  /\ Die

Stop == pc = "bye" /\ at > Len(clients) /\ Terminate("stopped")

-----------------------------------------------------------------------------
\* The recv() after each send of empty_queue, send_data, close_all_sockets.
Acked == pc \in AckWaits /\ ServerMayRecv(HerePeer) /\ Incoming(HerePeer).type = ACK

\* Mutant: send_data returns after the first client it has served.
AckForwardReturns ==
  /\ pc = "await_ack"
  /\ Acked
  /\ c2s' \in AfterServerRecv(HerePeer)
  /\ pc' = "loop"
  /\ at' = 0
  /\ cur' = 0
  /\ UNCHANGED <<s2c, cliEnd, srvEnd, clients, file, setVars, new_sockfd, inputVars>>

AckForward ==
  /\ pc = "await_ack"
  /\ Acked
  /\ c2s' \in AfterServerRecv(HerePeer)
  /\ pc' = "deliver"
  /\ at' = at + 1
  /\ UNCHANGED <<s2c, cliEnd, srvEnd, clients, file, setVars, new_sockfd, cur, inputVars>>

AckQueued ==
  /\ pc = "drain_ack"
  /\ Acked
  /\ c2s' \in AfterServerRecv(HerePeer)
  /\ pc' = "drain"
  /\ UNCHANGED <<s2c, cliEnd, srvEnd, clients, file, setVars, new_sockfd, at, cur, inputVars>>

AckBye ==
  /\ pc = "bye_ack"
  /\ Acked
  /\ c2s' \in AfterServerRecv(HerePeer)
  /\ CloseFd(Here.sock)
  /\ pc' = "bye"
  /\ at' = at + 1
  /\ UNCHANGED <<s2c, cliEnd, clients, setVars, new_sockfd, cur, inputVars>>

\* Something else arrived first, or the peer is gone: DIE, LACK_ACK.
LackAck ==
  /\ pc \in AckWaits
  /\ ServerMayRecv(HerePeer)
  /\ Incoming(HerePeer).type # ACK
  /\ Die

-----------------------------------------------------------------------------
\* manage_command_from_client() and the answer main() sends after it.  The
\* result of recv() is not looked at: a peer that is gone is a subscription
\* to the empty topic, because the buffer is all zeroes.

\* What may become of all the clients when client k subscribes.
AfterSubscribe(k, topic, sf) ==
  LET lists == [j \in 1..Len(clients) |-> clients[j].subs]
  IN IF Subscribed(lists[k], topic)
       THEN {[clients EXCEPT ![k].subs = SetSf(@, topic, sf)]}
       ELSE {[j \in 1..Len(clients) |-> [clients[j] EXCEPT !.subs = new[j]]] :
               new \in Appended(lists, k, [topic |-> topic, sf |-> sf])}

AfterUnsubscribe(k, topic) == {[clients EXCEPT ![k].subs = Unsubscribe(@, topic)]}

\* Any other header changes nothing and is answered all the same.
AfterCommand(k, m) ==
  IF m.type = SUBSCRIBE THEN AfterSubscribe(k, m.topic, m.sf)
  ELSE IF m.type = UNSUBSCRIBE THEN AfterUnsubscribe(k, m.topic)
  ELSE {clients}

Commanding(i, k) ==
  /\ i \in Fds
  /\ Turn(i)
  /\ ServerMayRecv(Peer(i))
  /\ IsBySock(k, i)

\* Mutant: main() answers the exit command only.
ManageCommandSilent(i, k) ==
  /\ Commanding(i, k)
  /\ Incoming(Peer(i)).type # DISCONNECT
  /\ c2s' \in AfterServerRecv(Peer(i))
  /\ clients' \in AfterCommand(k, Incoming(Peer(i)))
  /\ tmp_fds' = tmp_fds \ {i}
  /\ UNCHANGED <<s2c, cliEnd, srvEnd, pc, file, read_fds, fdmax, new_sockfd, at, cur, inputVars>>

ManageCommand(i, k) ==
  /\ Commanding(i, k)
  /\ Incoming(Peer(i)).type # DISCONNECT
  /\ c2s' \in AfterServerRecv(Peer(i))
  /\ clients' \in AfterCommand(k, Incoming(Peer(i)))
  /\ Send(Peer(i), RESPONSE)
  /\ tmp_fds' = tmp_fds \ {i}
  /\ UNCHANGED <<cliEnd, srvEnd, pc, file, read_fds, fdmax, new_sockfd, at, cur, inputVars>>

\* Mutants: fdmax goes down whatever its value; the bit stays in the set.
UnregisterAlwaysDown(i) == read_fds' = read_fds \ {i} /\ fdmax' = fdmax - 1
UnregisterNot(i) == UNCHANGED <<read_fds, fdmax>>

\* FD_CLR, and (*fdmax)-- if this was the largest.
Unregister(i) ==
  /\ read_fds' = read_fds \ {i}
  /\ fdmax' = IF fdmax = i THEN fdmax - 1 ELSE fdmax

\* Mutant: a client that leaves gets 0 for its socket, which is standard input.
ManageExitZero(i, k) ==
  /\ Commanding(i, k)
  /\ Incoming(Peer(i)).type = DISCONNECT
  /\ c2s' \in AfterServerRecv(Peer(i))
  /\ clients' = [clients EXCEPT ![k].sock = 0, ![k].online = FALSE]
  /\ Unregister(i)
  /\ Send(Peer(i), RESPONSE)
  /\ CloseFd(i)
  /\ tmp_fds' = tmp_fds \ {i}
  /\ UNCHANGED <<cliEnd, pc, new_sockfd, at, cur, inputVars>>

ManageExit(i, k) ==
  /\ Commanding(i, k)
  /\ Incoming(Peer(i)).type = DISCONNECT
  /\ c2s' \in AfterServerRecv(Peer(i))
  /\ clients' = [clients EXCEPT ![k].sock = -1, ![k].online = FALSE]
  /\ Unregister(i)
  /\ Send(Peer(i), RESPONSE)
  /\ CloseFd(i)
  /\ tmp_fds' = tmp_fds \ {i}
  /\ UNCHANGED <<cliEnd, pc, new_sockfd, at, cur, inputVars>>

\* The answer is sent to nobody.
ResponseFails(i, k) == Commanding(i, k) /\ MayFail(Peer(i)) /\ Die

\* Following the freed tail ends the process, at once or when the memory it
\* damaged is used.
Corrupt(i, k) ==
  /\ Commanding(i, k)
  /\ Incoming(Peer(i)).type = SUBSCRIBE
  /\ ~Subscribed(clients[k].subs, Incoming(Peer(i)).topic)
  /\ Dangling(clients[k].subs)
  /\ Die

-----------------------------------------------------------------------------
Accepting == AcceptFails \/ \E p \in Conns : AcceptConnection(p)

Identifying ==
  \E p \in Conns :
    NewClient(p) \/ RefuseClient(p) \/ ReturnClient(p) \/ NoIdentity(p) \/ IdentityUnrefusable(p)

Draining == SendQueued \/ SendQueuedFails \/ QueueEmptied \/ AckQueued

Forwarding ==
  \/ ReceiveDatagram \/ ReceiveMalformed
  \/ Skip \/ Enqueue \/ Forward \/ ForwardFails \/ AckForward \/ Forwarded

Leaving == ReceiveExit \/ SayBye \/ ByeFails \/ AckBye \/ Stop

Commands ==
  \E i \in Fds : \E k \in 1..Len(clients) :
    ManageCommand(i, k) \/ ManageExit(i, k) \/ ResponseFails(i, k) \/ Corrupt(i, k)

ServerStep ==
  Select \/ Accepting \/ Identifying \/ Draining \/ Forwarding \/ Leaving \/ LackAck \/ Commands
=============================================================================
