------------------------------- MODULE Broker -------------------------------
(***************************************************************************)
(* The whole system: one server, the subscriber processes, their users and *)
(* the publishers.  Publishers and users are the environment: what they do *)
(* is bounded here and nothing obliges them to do it.                      *)
(***************************************************************************)
EXTENDS Server, Subscriber

CONSTANTS
  Paced,     \* users wait until the system is at rest, as test.py does
  Killable,  \* the subscriber processes a signal may end
  StopTyped, \* whether "exit" may be typed into the server
  Malformed, \* whether a publisher may send what the server cannot take
  MaxMsgs,   \* bound: datagrams published, the malformed one included
  MaxTyped,  \* bound: commands typed into one process
  Commanded  \* the headers of the commands users type

ASSUME BrokerAssumption ==
  /\ Paced \in BOOLEAN
  /\ Killable \subseteq Conns
  /\ StopTyped \in BOOLEAN
  /\ Malformed \in BOOLEAN
  /\ MaxMsgs \in Nat
  /\ MaxTyped \in Nat
  /\ Commanded \subseteq {m \in C2S : m.type \in {SUBSCRIBE, UNSUBSCRIBE, DISCONNECT}}

vars == <<wireVars, serverVars, subVars>>

TypeOK == WireTypeOK /\ SubTypeOK /\ ServerTypeOK

Init == WireInit /\ SubInit /\ ServerInit

-----------------------------------------------------------------------------
\* The environment.
Listening == pc \notin Ended

\* test.py types the next command after it has seen the effect of the last.
AtRest ==
  /\ pc = "loop"
  /\ ~stdin
  /\ udp = << >> /\ ~malformed
  /\ \A p \in Conns : /\ spc[p] \notin Waiting
                      /\ srvEnd[p] # "backlog"
                      /\ cliEnd[p] = "open" => c2s[p] = << >> /\ s2c[p] = << >>

UserConnects(p) ==
  /\ Listening
  /\ Paced => AtRest
  /\ Connect(p)
  /\ UNCHANGED serverVars

UserTypes(p) ==
  /\ typed[p] < MaxTyped
  /\ Paced => AtRest
  /\ \E m \in Commanded :
       \/ m.type = SUBSCRIBE /\ TypeSubscribe(p, m.topic, m.sf)
       \/ m.type = UNSUBSCRIBE /\ TypeUnsubscribe(p, m.topic)
       \/ m.type = DISCONNECT /\ TypeExit(p)
  /\ UNCHANGED serverVars

\* A datagram reaches the server's socket.  Datagrams are numbered in that
\* order; one that is lost on the way is one that was never published.
Publish(topic) ==
  /\ Listening
  /\ ~malformed
  /\ Len(pub) < MaxMsgs
  /\ Paced => \A p \in Conns : spc[p] \notin Waiting
  /\ pub' = Append(pub, topic)
  /\ udp' = Append(udp, Len(pub) + 1)
  /\ UNCHANGED <<wireVars, subVars, pc, clients, file, setVars, new_sockfd, at, cur, malformed, stdin>>

\* An empty datagram, or one of an unknown type.  It has no number: nobody is
\* shown it, and nothing behind it is ever read.
PublishMalformed ==
  /\ Listening
  /\ Malformed
  /\ ~malformed
  /\ Len(pub) < MaxMsgs
  /\ Paced => \A p \in Conns : spc[p] \notin Waiting
  /\ malformed' = TRUE
  /\ UNCHANGED <<wireVars, subVars, pc, clients, file, setVars, new_sockfd, at, cur, udp, pub, stdin>>

TypeServerExit ==
  /\ Listening
  /\ StopTyped
  /\ ~stdin
  /\ Paced => AtRest
  /\ stdin' = TRUE
  /\ UNCHANGED <<wireVars, subVars, pc, clients, file, setVars, new_sockfd, at, cur, udp, pub, malformed>>

Kill(p) ==
  /\ p \in Killable
  /\ Killed(p)
  /\ UNCHANGED serverVars

Environment ==
  \/ \E p \in Conns : UserConnects(p) \/ UserTypes(p) \/ Kill(p)
  \/ \E topic \in Topics : Publish(topic)
  \/ PublishMalformed
  \/ TypeServerExit

ServerRuns == ServerStep /\ UNCHANGED subVars
ProcessRuns(p) == SubscriberStep(p) /\ UNCHANGED serverVars

Next ==
  \/ Environment
  \/ ServerRuns
  \/ \E p \in Conns : ProcessRuns(p)

Spec == Init /\ [][Next]_vars

\* The operating system runs every process that can run.
FairSpec == Spec /\ WF_vars(ServerRuns) /\ \A p \in Conns : WF_vars(ProcessRuns(p))

-----------------------------------------------------------------------------
\* Properties.

\* The clients the server believes online.
Online == {k \in 1..Len(clients) : clients[k].online}

\* The bookkeeping of fdmax by ++ and -- (server_util.c:225, 246, 340), which
\* never looks at a descriptor: select() must still be told of every socket
\* in read_fds, or a client would be ignored for ever.
FdmaxCovers == \A i \in read_fds : i <= fdmax

\* Why that works: a descriptor in use is at most fdmax, but for the one
\* manage_connection_request has just got, which is at most one more.
Unregistered(i) == i = new_sockfd /\ pc \in {"await_id", "drain", "drain_ack", "dead"}
DescriptorsBelow ==
  /\ UDP <= fdmax
  /\ \A i \in Fds : file[i] # NoConn => i <= fdmax \/ (Unregistered(i) /\ i <= fdmax + 1)

\* Where a connection in progress and the walks over the clients stand.
Placed ==
  /\ pc \in {"await_id", "drain", "drain_ack"} => new_sockfd \in Fds /\ new_sockfd <= fdmax + 1
  /\ pc \in {"drain"} \cup AckWaits => at \in 1..Len(clients)
  /\ pc \in {"deliver", "bye"} => at >= 1

\* While the server is in its loop, a watched socket is open and belongs to
\* exactly one online client (manage_command_from_client follows the result
\* of get_client_by_sock unseen), no identifier has two clients, and no two
\* clients share a socket.
SocketsKnown ==
  pc \notin {"bye", "bye_ack"} \cup Ended =>
    /\ \A i \in read_fds \cap Fds :
         /\ file[i] # NoConn
         /\ \E k \in Online : clients[k].sock = i
    /\ \A k \in 1..Len(clients) :
         /\ clients[k].online <=> clients[k].sock # -1
         /\ clients[k].online => file[clients[k].sock] # NoConn
         /\ \A j \in 1..(k - 1) : /\ clients[j].id # clients[k].id
                                  /\ clients[k].online => clients[j].sock # clients[k].sock

\* The socket of a connection in progress: open, not yet watched, and no
\* client's until the client is back.
Settling ==
  pc \in {"await_id", "drain", "drain_ack"} =>
    /\ file[new_sockfd] # NoConn
    /\ new_sockfd \notin read_fds
    /\ IF pc = "await_id"
         THEN \A k \in 1..Len(clients) : clients[k].sock # new_sockfd
         ELSE clients[at].sock = new_sockfd

\* What the server's bookkeeping of its sockets and clients keeps at every
\* step, from accept() to close(): the inductive invariant.
Bookkeeping ==
  TypeOK /\ Placed /\ DescriptorsBelow /\ FdmaxCovers /\ SocketsKnown /\ Settling

\* A socket select() found ready still has something to read when its turn
\* comes, whatever the handlers before it have read: otherwise the recv() of
\* manage_command_from_client (server_util.c:275) would block the server.
TurnNeverBlocks ==
  pc = "loop" => \A i \in Pending \cap Fds : file[i] # NoConn /\ ServerMayRecv(file[i])

\* The server sends a subscriber nothing before the last thing it sent has
\* been acknowledged, so that the subscriber's recv(), which looks at one
\* header only (subscriber.c:91-95), never swallows a second message; and it
\* sends its main loop nothing but publications and refusals.
StopAndWait ==
  \A p \in Conns : spc[p] = "loop" =>
    /\ Len(s2c[p]) <= 1
    /\ \A k \in 1..Len(s2c[p]) : s2c[p][k].type \in {DATA, REFUSED}

\* An acknowledgement is under way only to a server that waits for it, so
\* none is ever read as a command or as the answer to a later message.
AckAligned ==
  \A p \in Conns : \A k \in 1..Len(c2s[p]) :
    c2s[p][k].type = ACK /\ srvEnd[p] = "open"
      => pc \in AckWaits /\ file[clients[at].sock] = p

\* What an identifier is shown, over all its processes, is in the order the
\* datagrams arrived and has no duplicates: neither a reconnection, nor a
\* client with many matching subscriptions, nor a queue being emptied while
\* new datagrams arrive, repeats or overtakes one.
InOrder ==
  \A i \in Ids : \A j, k \in 1..Len(shown[i]) :
    j < k /\ shown[i][j] # 0 /\ shown[i][k] # 0 => shown[i][j] < shown[i][k]

\* Store and forward loses nothing to a stale queue: a queue that is not
\* empty belongs to a client that is offline or whose queue is being emptied
\* right now, and everything in it is newer than all its client was shown.
QueueNewer ==
  \A k \in 1..Len(clients) : \A n \in 1..Len(clients[k].queue) :
    /\ clients[k].online => at = k /\ pc \in {"drain", "drain_ack", "dead"}
    /\ \A j \in 1..Len(shown[clients[k].id]) :
         shown[clients[k].id][j] < clients[k].queue[n]

\* What an identifier wants, is next decided upon for, is owed and has been
\* shown: the mapping onto Delivery.
ClientsOf(i) == {k \in 1..Len(clients) : clients[k].id = i}
Wants(i) ==
  {t \in Topics : \E k \in ClientsOf(i) :
     Subscribed(clients[k].subs, t) /\ (clients[k].online \/ StoreForward(clients[k].subs, t))}
Decided(i) == \E k \in ClientsOf(i) : k < at \/ (k = at /\ pc # "deliver")
NextFor(i) ==
  IF cur # 0 THEN IF Decided(i) THEN cur + 1 ELSE cur
  ELSE IF udp # << >> THEN Head(udp) ELSE Len(pub) + 1
InFlight(i) ==
  {n \in 1..Len(pub) : \E p \in Conns : /\ IdOf[p] = i
                                        /\ \E k \in 1..Len(s2c[p]) : s2c[p][k] = Publication(n)}
UnderWay(i) == IF InFlight(i) = {} THEN << >> ELSE <<CHOOSE n \in InFlight(i) : TRUE>>
Queued(i) == IF ClientsOf(i) = {} THEN << >> ELSE clients[CHOOSE k \in ClientsOf(i) : TRUE].queue

\* A phantom is shown last, by a process whose server has ended.
Published(i) ==
  LET log == shown[i]
  IN IF log # << >> /\ log[Len(log)] = 0 THEN SubSeq(log, 1, Len(log) - 1) ELSE log

Promise == INSTANCE Delivery WITH
  wants <- [i \in Ids |-> Wants(i)],
  next  <- [i \in Ids |-> NextFor(i)],
  owed  <- [i \in Ids |-> UnderWay(i) \o Queued(i)],
  shown <- [i \in Ids |-> Published(i)]

\* When users wait their turn and nobody is killed, the broker implements
\* Delivery: send_data, empty_queue and the acknowledgements lose nothing,
\* forward nothing unwanted and pass over no client that subscribed, however
\* departures, returns, queues and new datagrams follow one another.
KeepsPromise == Promise!Spec

\* When users wait their turn, the server aborts in three situations only: it
\* is told to exit while a client is offline, a list has lost its tail, or it
\* has taken all datagrams before one that is empty or of no known type.
AbortsExplained ==
  Paced /\ pc = "dead" =>
    \/ malformed /\ udp = << >>
    \/ stdin /\ \E k \in 1..Len(clients) : ~clients[k].online
    \/ \E k \in 1..Len(clients) : Dangling(clients[k].subs)

-----------------------------------------------------------------------------
\* What the documentation says and the program does not do.

\* test.py:351: "Tests that messages from topics not subscribed to are not
\* received."  A publication is forwarded to a client that has subscribed to
\* its topic (server_util.c:139 leaves the last character out).
OnlySubscribedTopics ==
  pc = "await_ack" => \E n \in 1..Len(Here.subs.nodes) : Here.subs.nodes[n].topic = pub[cur]

\* readme.txt:77-79: a subscription the server has processed is in the
\* client's list (server_util.c:305 appends behind a tail that
\* server_util.c:313-330 may have freed).
SubscriptionRecorded ==
  [][\A i \in Fds : \A k \in 1..Len(clients) :
       /\ Commanding(i, k)
       /\ Incoming(Peer(i)).type = SUBSCRIBE
       /\ pc' = "loop" /\ i \notin tmp_fds'
       => \E n \in 1..Len(clients'[k].subs.nodes) :
            clients'[k].subs.nodes[n].topic = Incoming(Peer(i)).topic]_vars

\* readme.txt:70-71 and 77-79: the server acknowledges commands and collects
\* acknowledgements, and goes on; with processes that are never killed and
\* never told to stop it, it does not abort (server_util.c:150).
ServerSurvives == pc # "dead"

\* readme.txt:73-75: exit sends every client its farewell, waits for the
\* answers and closes the sockets, and the server returns (server_util.c:266).
ExitIsOrderly == stdin => pc # "dead"

-----------------------------------------------------------------------------
\* Liveness, under FairSpec.

\* Whatever its peer does, the server leaves the recv() it has blocked in:
\* every process answers or ends (server_util.c:146, 181, 213, 263).
ServerReturns == pc \notin {"loop"} \cup Ended ~> pc \in {"loop"} \cup Ended

\* A user who types a command, or connects, gets the prompt back.
EveryWaitEnds == \A p \in Conns : spc[p] \in Waiting ~> spc[p] \notin Waiting

\* A publication the server owes an online client: queued while it was away,
\* or being forwarded with the client still to be visited and subscribed.
Owed(id, n) ==
  \E k \in Online :
    /\ clients[k].id = id
    /\ \/ \E j \in 1..Len(clients[k].queue) : clients[k].queue[j] = n
       \/ pc = "deliver" /\ cur = n /\ at <= k /\ Subscribed(clients[k].subs, pub[n])

\* Every publication owed to an online client is shown to its user.
OwedIsShown ==
  \A id \in Ids : \A n \in 1..MaxMsgs :
    Owed(id, n) ~> \E j \in 1..Len(shown[id]) : shown[id][j] = n
=============================================================================
