------------------------------ MODULE Dialogue ------------------------------
(***************************************************************************)
(* The inductive invariant behind AckAligned, StopAndWait and              *)
(* TurnNeverBlocks of Broker: where the two ends of a connection stand and *)
(* what may be under way between them, for every connection by itself, and *)
(* how the server's descriptors and its walks over the clients lead to the *)
(* connections they stand for.                                             *)
(***************************************************************************)
EXTENDS Broker

\* The server waits for this subscriber's identifier, or acknowledgement.
Joining(p) == pc = "await_id" /\ file[new_sockfd] = p
Acking(p) == pc \in AckWaits /\ file[clients[at].sock] = p

\* A header a user typed; what the server sends without being asked.
IsCommand(m) == m.type \in {SUBSCRIBE, UNSUBSCRIBE, DISCONNECT}
IsPushed(m) == m.type \in {DATA, REFUSED}

-----------------------------------------------------------------------------
\* The two ends of a connection.
Ends(p) ==
  /\ cliEnd[p] = "none" <=> spc[p] = "off"
  /\ cliEnd[p] = "closed" <=> spc[p] \in {"done", "died"}
  /\ srvEnd[p] = "none" <=> spc[p] = "off"
  /\ srvEnd[p] \in {"none", "backlog"} => c2s[p] = << >> /\ s2c[p] = << >>
  /\ srvEnd[p] = "backlog" => spc[p] \in {"await_request", "died"}

\* What the server has sent and the subscriber not read: a process that has
\* typed a command may find a publication behind the answer, or before it.
Down(p) ==
  /\ spc[p] \in {"off", "done", "died"} => s2c[p] = << >>
  /\ spc[p] = "await_request" =>
       Len(s2c[p]) <= 1 /\ \A k \in 1..Len(s2c[p]) : s2c[p][k].type = ID_REQUEST
  /\ spc[p] = "loop" =>
       Len(s2c[p]) <= 1 /\ \A k \in 1..Len(s2c[p]) : IsPushed(s2c[p][k])
  /\ spc[p] \in {"await_response", "await_exit"} =>
       /\ Len(s2c[p]) <= 2
       /\ \A k \in 1..Len(s2c[p]) : s2c[p][k].type = RESPONSE \/ IsPushed(s2c[p][k])
       /\ Len(s2c[p]) = 2 => s2c[p][1].type = RESPONSE /\ IsPushed(s2c[p][2])
  /\ srvEnd[p] = "open" /\ ~Acking(p) => \A k \in 1..Len(s2c[p]) : ~IsPushed(s2c[p][k])

\* What the subscriber has sent and the server not read, while the server's
\* end is open: at most the answer it waits for, and one command behind it.
Answer(p) ==
  \/ c2s[p][1].type = ID_REPLY /\ Joining(p)
  \/ c2s[p][1].type = ACK /\ Acking(p) /\ s2c[p] = << >>

Request(p, k) ==
  /\ IsCommand(c2s[p][k])
  /\ k = Len(c2s[p])
  /\ spc[p] # "loop"
  /\ \A j \in 1..Len(s2c[p]) : s2c[p][j].type # RESPONSE

Up(p) ==
  srvEnd[p] = "open" =>
    /\ spc[p] = "await_request" => Joining(p) /\ c2s[p] = << >>
    /\ \A k \in 1..Len(c2s[p]) : (k = 1 /\ Answer(p)) \/ Request(p, k)

\* What the two programs keep between them on every connection.
InDialogue(p) == Ends(p) /\ Down(p) /\ Up(p)
Conversing == \A p \in Conns : InDialogue(p)

-----------------------------------------------------------------------------
\* A connection is open while a descriptor stands for it, and one does.
FilesMatch ==
  /\ \A i, j \in Fds : file[i] = file[j] /\ file[i] # NoConn => i = j
  /\ IF pc \in Ended
       THEN \A p \in Conns : srvEnd[p] \notin {"backlog", "open"}
       ELSE \A p \in Conns : srvEnd[p] = "open" <=> \E i \in Fds : file[i] = p

\* The client whose acknowledgement is awaited has a socket, and the farewell
\* closes each client's own.
PeersOpen ==
  /\ pc \in AckWaits => clients[at].sock # -1
  /\ pc \in {"bye", "bye_ack"} =>
       \A k \in at..Len(clients) : clients[k].sock # -1 =>
         /\ file[clients[k].sock] # NoConn
         /\ \A j \in 1..(k - 1) : clients[j].sock # clients[k].sock

\* A socket found ready stays ready until its turn: nobody else reads from it
\* unless to take an acknowledgement, and none was there to make it ready.
StaysReady ==
  /\ tmp_fds \subseteq read_fds
  /\ pc \notin {"bye", "bye_ack"} \cup Ended => \A i \in tmp_fds \cap Fds :
       \/ cliEnd[file[i]] = "closed"
       \/ c2s[file[i]] # << >> /\ Head(c2s[file[i]]).type # ACK

\* The inductive invariant, beside Bookkeeping.
InStep == Conversing /\ FilesMatch /\ PeersOpen /\ StaysReady
=============================================================================
