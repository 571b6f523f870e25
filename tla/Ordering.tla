------------------------------ MODULE Ordering ------------------------------
(***************************************************************************)
(* The inductive invariant behind InOrder and QueueNewer of Broker, on top *)
(* of that of Dialogue: for every identifier, what its user has been shown *)
(* is older than what is on its way to one of its processes, that is older *)
(* than what is queued for it, and that is older than what the server's    *)
(* walk over the clients has yet to decide upon.                           *)
(***************************************************************************)
EXTENDS Dialogue

\* Datagrams are numbered by arrival: how many the server has taken.
Taken == Len(pub) - Len(udp)

\* The datagram in the server's hand is still to be decided upon for client k.
Undecided(k) == (pc = "deliver" /\ at <= k) \/ (pc = "await_ack" /\ at < k)

\* What client k may have been given is older than this.
Due(k) == IF Undecided(k) THEN cur ELSE Taken + 1

\* The messages on their way to p that carry a publication.
Carrying(p) == {k \in 1..Len(s2c[p]) : s2c[p][k].type = DATA}

-----------------------------------------------------------------------------
\* A process and the client it is taken for have the same identifier.
Named ==
  /\ \A p \in Conns : \A k \in 1..Len(c2s[p]) :
       c2s[p][k].type = ID_REPLY => c2s[p][k].id = IdOf[p]
  /\ \A k \in 1..Len(clients) : \A i \in Fds :
       clients[k].sock = i /\ file[i] # NoConn => IdOf[file[i]] = clients[k].id

\* The datagrams that wait, and the one in hand, follow those taken before.
Numbered ==
  /\ Len(udp) <= Len(pub)
  /\ \A j \in 1..Len(udp) : udp[j] = Taken + j
  /\ pc \in {"deliver", "await_ack"} => cur = Taken /\ cur # 0

\* Only one publication is under way at a time, and while the server runs only
\* on a connection it has open.
OneCarried ==
  /\ \A p, q \in Conns : Carrying(p) # {} /\ Carrying(q) # {} => p = q
  /\ \A p \in Conns : Carrying(p) # {} /\ pc \notin Ended => srvEnd[p] = "open"

\* It is newer than all its user has been shown.
CarriedNewer ==
  \A p \in Conns : \A k \in Carrying(p) :
    /\ s2c[p][k].n \in 1..Taken
    /\ \A j \in 1..Len(shown[IdOf[p]]) : shown[IdOf[p]][j] < s2c[p][k].n

\* A queue is in order, newer than what is under way to its client, and that
\* client is away or being given the queue.
QueuesSorted ==
  \A k \in 1..Len(clients) : \A n \in 1..Len(clients[k].queue) :
    /\ 0 < clients[k].queue[n] /\ clients[k].queue[n] < Due(k)
    /\ \A m \in 1..(n - 1) : clients[k].queue[m] < clients[k].queue[n]
    /\ \A p \in Conns : \A j \in Carrying(p) :
         IdOf[p] = clients[k].id => s2c[p][j].n < clients[k].queue[n]

\* Nothing has been shown that the server has not taken, nor to a client the
\* walk has yet to reach what is being forwarded.
ShownBefore ==
  /\ \A i \in Ids : \A j \in 1..Len(shown[i]) : shown[i][j] <= Taken
  /\ \A k \in 1..Len(clients) : \A j \in 1..Len(shown[clients[k].id]) :
       shown[clients[k].id][j] < Due(k)

\* The inductive invariant, beside Bookkeeping and InStep.
InSequence ==
  /\ Named /\ Numbered /\ OneCarried
  /\ CarriedNewer /\ QueuesSorted /\ ShownBefore /\ QueueNewer /\ InOrder
=============================================================================
