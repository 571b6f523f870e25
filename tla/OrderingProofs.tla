--------------------------- MODULE OrderingProofs ---------------------------
(***************************************************************************)
(* Proof that InSequence of Ordering is inductive beside Bookkeeping and   *)
(* InStep, and from it the order of delivery: every identifier is shown    *)
(* each publication at most once and in the order of arrival, and what is  *)
(* queued for it is newer than all it has been shown.                      *)
(***************************************************************************)
EXTENDS Ordering, DialogueProofs

\* The two parts of QueueNewer.
Away ==
  \A k \in 1..Len(clients) : clients[k].queue # << >> /\ clients[k].online =>
    at = k /\ pc \in {"drain", "drain_ack", "dead"}
Older ==
  \A k \in 1..Len(clients) : \A n \in 1..Len(clients[k].queue) :
    \A j \in 1..Len(shown[clients[k].id]) : shown[clients[k].id][j] < clients[k].queue[n]

\* What is said of the publications themselves, wherever they are, ...
InLine == CarriedNewer /\ QueuesSorted /\ ShownBefore /\ Older /\ InOrder

\* ... and all that is assumed of a state in the steps below.
Settled == Bookkeeping /\ InStep /\ InSequence

\* A queue's elements are numbers, and it is empty if it has none.
LEMMA QueueType ==
  ASSUME ServerTypeOK, NEW k \in 1..Len(clients)
  PROVE  /\ clients[k].queue \in Seq(Nat) /\ clients[k].id \in Ids
         /\ clients[k].queue # << >> <=> \E n \in 1..Len(clients[k].queue) : TRUE
  <1>1. clients[k].queue \in Seq(Nat) /\ clients[k].id \in Ids
    BY ClientType DEF Client
  <1>2. \A s \in Seq(Nat) : s # << >> <=> \E n \in 1..Len(s) : TRUE
    <2> SUFFICES ASSUME NEW s \in Seq(Nat) PROVE s # << >> <=> \E n \in 1..Len(s) : TRUE
      OBVIOUS
    <2>1. CASE s = << >>
      BY <2>1
    <2>2. CASE s # << >>
      <3>1. 1 \in 1..Len(s)
        BY <2>2
      <3> QED BY <2>2, <3>1
    <2> QED BY <2>1, <2>2
  <1> QED BY <1>1, <1>2

\* InSequence, taken apart.
LEMMA Parts ==
  ASSUME ServerTypeOK
  PROVE  InSequence <=> Named /\ Numbered /\ OneCarried /\ Away /\ InLine
  <1>1. QueueNewer <=> Away /\ Older
    BY QueueType DEF QueueNewer, Away, Older
  <1> QED BY <1>1 DEF InSequence, InLine

\* The same of the next state, put together.
LEMMA PartsLater ==
  ASSUME ServerTypeOK', Named', Numbered', OneCarried', Away', InLine'
  PROVE  InSequence'
  <1>1. ASSUME NEW k \in 1..Len(clients')
        PROVE  clients'[k].queue # << >> <=> \E n \in 1..Len(clients'[k].queue) : TRUE
    <2>1. clients'[k] \in Client
      BY <1>1 DEF ServerTypeOK
    <2>2. clients'[k].queue \in Seq(Nat)
      BY <2>1 DEF Client
    <2>3. CASE clients'[k].queue = << >>
      BY <2>3
    <2>4. CASE clients'[k].queue # << >>
      <3>1. 1 \in 1..Len(clients'[k].queue)
        BY <2>2, <2>4
      <3> QED BY <2>4, <3>1
    <2> QED BY <2>3, <2>4
  <1>2. QueueNewer'
    BY <1>1 DEF QueueNewer, Away, Older, InLine
  <1> QED BY <1>2 DEF InSequence, InLine

\* The count of datagrams taken, and what a client may have been given.
LEMMA DueType ==
  ASSUME ServerTypeOK, Numbered
  PROVE  Taken \in Nat /\ \A k : Due(k) \in Nat
  BY DEF ServerTypeOK, Numbered, Taken, Due

\* Nothing beyond the datagrams taken is due.
LEMMA DueBound ==
  ASSUME ServerTypeOK, Numbered, NEW k
  PROVE  Due(k) <= Taken + 1
  <1>1. Taken \in Nat
    BY DueType
  <1> QED BY <1>1 DEF Numbered, Due, Undecided

-----------------------------------------------------------------------------
\* Steps that move no publication.

\* Nothing is under way that was not before.
CarriesLess ==
  \A p \in Conns : \A k \in Carrying(p)' : \E j \in Carrying(p) : s2c'[p][k] = s2c[p][j]

\* Every client is an old one with its queue, which has not been passed over,
\* or a new one without a queue.
ClientsStill ==
  \A k \in 1..Len(clients') :
    \/ /\ k \in 1..Len(clients)
       /\ clients'[k].id = clients[k].id /\ clients'[k].queue = clients[k].queue
       /\ Due(k) <= Due(k)'
    \/ clients'[k].queue = << >> /\ Due(k)' = Taken' + 1

\* They leave the publications in line.
LEMMA QuietStep ==
  ASSUME TypeOK, TypeOK', Numbered, Numbered', InLine,
         CarriesLess, ClientsStill, UNCHANGED shown, Taken <= Taken'
  PROVE  InLine'
  <1> USE DEF InLine
  <1>1. Taken \in Nat /\ Taken' \in Nat /\ \A k : Due(k) \in Nat /\ Due(k)' \in Nat
    <2>1. ServerTypeOK /\ ServerTypeOK'
      BY DEF TypeOK
    <2>2. Taken \in Nat /\ \A k : Due(k) \in Nat
      BY <2>1, DueType
    <2>3. Taken' \in Nat /\ \A k : Due(k)' \in Nat
      BY <2>1 DEF ServerTypeOK, Numbered, Taken, Due
    <2> QED BY <2>2, <2>3
  <1>2. shown \in [Ids -> Seq(Nat)] /\ IdOf \in [Conns -> Ids]
    BY IdOfAssumption DEF TypeOK, SubTypeOK
  <1>3. ASSUME NEW k \in 1..Len(clients')
        PROVE  clients'[k].queue \in Seq(Nat) /\ clients'[k].id \in Ids
    <2>1. clients'[k] \in Client
      BY <1>3 DEF TypeOK, ServerTypeOK
    <2> QED BY <2>1 DEF Client
  <1>4. CarriedNewer'
    <2> SUFFICES ASSUME NEW p \in Conns, NEW k \in Carrying(p)'
                 PROVE  /\ s2c'[p][k].n \in 1..Taken'
                        /\ \A j \in 1..Len(shown'[IdOf[p]]) : shown'[IdOf[p]][j] < s2c'[p][k].n
      BY DEF CarriedNewer
    <2>1. PICK j \in Carrying(p) : s2c'[p][k] = s2c[p][j]
      BY DEF CarriesLess
    <2>2. s2c[p][j].n \in 1..Taken
      BY DEF CarriedNewer
    <2> QED BY <1>1, <2>1, <2>2 DEF CarriedNewer
  <1>5. QueuesSorted'
    <2> SUFFICES ASSUME NEW k \in 1..Len(clients'), NEW n \in 1..Len(clients'[k].queue)
                 PROVE  /\ 0 < clients'[k].queue[n] /\ clients'[k].queue[n] < Due(k)'
                        /\ \A m \in 1..(n - 1) : clients'[k].queue[m] < clients'[k].queue[n]
                        /\ \A p \in Conns : \A j \in Carrying(p)' :
                             IdOf[p] = clients'[k].id => s2c'[p][j].n < clients'[k].queue[n]
      BY DEF QueuesSorted
    <2>1. /\ k \in 1..Len(clients)
          /\ clients'[k].id = clients[k].id /\ clients'[k].queue = clients[k].queue
          /\ Due(k) <= Due(k)'
      BY DEF ClientsStill
    <2>2. n \in 1..Len(clients[k].queue) /\ clients[k].queue[n] \in Nat
      BY <1>3, <2>1
    <2>3. 0 < clients[k].queue[n] /\ clients[k].queue[n] < Due(k)
      BY <2>1, <2>2 DEF QueuesSorted
    <2>4. clients[k].queue[n] < Due(k)'
      BY <1>1, <2>1, <2>2, <2>3
    <2>5. \A m \in 1..(n - 1) : clients[k].queue[m] < clients[k].queue[n]
      BY <2>1, <2>2 DEF QueuesSorted
    <2>6. ASSUME NEW p \in Conns, NEW j \in Carrying(p)', IdOf[p] = clients[k].id
          PROVE  s2c'[p][j].n < clients[k].queue[n]
      <3>1. PICK i \in Carrying(p) : s2c'[p][j] = s2c[p][i]
        BY DEF CarriesLess
      <3> QED BY <2>1, <2>2, <2>6, <3>1 DEF QueuesSorted
    <2> QED BY <2>1, <2>3, <2>4, <2>5, <2>6
  <1>6. ShownBefore'
    <2>1. ASSUME NEW i \in Ids, NEW j \in 1..Len(shown'[i]) PROVE shown'[i][j] <= Taken'
      <3>1. shown[i][j] \in Nat /\ shown[i][j] <= Taken
        BY <1>2, <2>1 DEF ShownBefore
      <3> QED BY <1>1, <3>1
    <2>2. ASSUME NEW k \in 1..Len(clients'), NEW j \in 1..Len(shown'[clients'[k].id])
          PROVE  shown'[clients'[k].id][j] < Due(k)'
      <3>1. CASE /\ k \in 1..Len(clients)
                 /\ clients'[k].id = clients[k].id /\ Due(k) <= Due(k)'
        <4>1. shown[clients[k].id][j] \in Nat /\ shown[clients[k].id][j] < Due(k)
          BY <1>2, <1>3, <2>2, <3>1 DEF ShownBefore
        <4> QED BY <1>1, <3>1, <4>1
      <3>2. CASE Due(k)' = Taken' + 1
        <4>1. clients'[k].id \in Ids /\ shown'[clients'[k].id][j] \in Nat
          BY <1>2, <1>3, <2>2
        <4> QED BY <1>1, <2>1, <2>2, <3>2, <4>1
      <3> QED BY <3>1, <3>2 DEF ClientsStill
    <2> QED BY <2>1, <2>2 DEF ShownBefore
  <1>7. Older'
    <2> SUFFICES ASSUME NEW k \in 1..Len(clients'), NEW n \in 1..Len(clients'[k].queue),
                        NEW j \in 1..Len(shown'[clients'[k].id])
                 PROVE  shown'[clients'[k].id][j] < clients'[k].queue[n]
      BY DEF Older
    <2>1. /\ k \in 1..Len(clients)
          /\ clients'[k].id = clients[k].id /\ clients'[k].queue = clients[k].queue
      BY DEF ClientsStill
    <2> QED BY <2>1 DEF Older
  <1>8. InOrder'
    BY DEF InOrder
  <1> QED BY <1>4, <1>5, <1>6, <1>7, <1>8

-----------------------------------------------------------------------------
\* The connections.

\* What recv() and the end of a process take away, and what a header adds,
\* carries no publication that was not under way.
LEMMA LessRead ==
  ASSUME WireTypeOK, NEW p \in Conns, s2c' \in AfterClientRecv(p)
  PROVE  CarriesLess
  <1> SUFFICES ASSUME NEW q \in Conns, NEW k \in Carrying(q)'
               PROVE  \E j \in Carrying(q) : s2c'[q][k] = s2c[q][j]
    BY DEF CarriesLess
  <1>1. CASE q # p
    BY <1>1, ClientReads DEF Carrying
  <1>2. CASE q = p
    <2>1. PICK n \in 0..Len(s2c[p]) :
            /\ Len(s2c'[p]) = Len(s2c[p]) - n
            /\ \A i \in 1..Len(s2c'[p]) : s2c'[p][i] = s2c[p][i + n]
      BY ClientReads
    <2>2. k \in 1..Len(s2c'[p]) /\ s2c'[p][k].type = DATA
      BY <1>2 DEF Carrying
    <2>3. k + n \in 1..Len(s2c[p]) /\ s2c'[p][k] = s2c[p][k + n]
      <3>1. PICK l \in Nat : l = Len(s2c[p])
        BY DEF WireTypeOK
      <3> QED BY <2>1, <2>2, <3>1
    <2> QED BY <1>2, <2>2, <2>3 DEF Carrying
  <1> QED BY <1>1, <1>2

\* A process that ends carries nothing.
LEMMA LessQuit ==
  ASSUME WireTypeOK, NEW p \in Conns, NEW how, Quit(p, how, s2c)
  PROVE  CarriesLess
  BY DEF WireTypeOK, Quit, CarriesLess, Carrying

\* A message without a publication adds none.
LEMMA LessSent ==
  ASSUME WireTypeOK, NEW p \in Conns, NEW m \in S2C, m.type # DATA, s2c' = ToClient(p, m)
  PROVE  CarriesLess
  <1> SUFFICES ASSUME NEW q \in Conns, NEW k \in Carrying(q)'
               PROVE  k \in Carrying(q) /\ s2c'[q][k] = s2c[q][k]
    BY DEF CarriesLess
  <1>1. CASE q # p \/ cliEnd[p] = "closed"
    BY <1>1, ServerSends DEF Carrying
  <1>2. CASE q = p /\ cliEnd[p] # "closed"
    <2>1. /\ Len(s2c'[p]) = Len(s2c[p]) + 1
          /\ s2c'[p][Len(s2c[p]) + 1] = m
          /\ \A i \in 1..Len(s2c[p]) : s2c'[p][i] = s2c[p][i]
      BY <1>2, Sent
    <2>2. PICK l \in Nat : l = Len(s2c[p])
      BY DEF WireTypeOK
    <2>3. k \in 1..(l + 1) /\ s2c'[p][k].type = DATA
      BY <1>2, <2>1, <2>2 DEF Carrying
    <2>4. k # l + 1
      BY <2>1, <2>2, <2>3
    <2>5. k \in 1..Len(s2c[p])
      BY <2>2, <2>3, <2>4
    <2> QED BY <1>2, <2>1, <2>3, <2>5 DEF Carrying
  <1> QED BY <1>1, <1>2

\* Neither does a step that sends and reads nothing.
LEMMA LessSame ==
  ASSUME UNCHANGED s2c
  PROVE  CarriesLess
  BY DEF CarriesLess, Carrying

\* Of what is under way, less goes no further than it did.
LEMMA OneLess ==
  ASSUME OneCarried, CarriesLess, pc' \notin Ended => pc \notin Ended,
         pc' \notin Ended => \A p \in Conns : Carrying(p) # {} => srvEnd'[p] = srvEnd[p]
  PROVE  OneCarried'
  <1>1. \A p \in Conns : Carrying(p)' # {} => Carrying(p) # {}
    BY DEF CarriesLess
  <1> QED BY <1>1 DEF OneCarried

\* The identifiers on their way to the server.
RepliesNamed ==
  \A p \in Conns : \A k \in 1..Len(c2s[p]) : c2s[p][k].type = ID_REPLY => c2s[p][k].id = IdOf[p]

\* What is left after a recv() of the server still names its sender.
LEMMA NamedRead ==
  ASSUME WireTypeOK, RepliesNamed, NEW p \in Conns, c2s' \in AfterServerRecv(p)
  PROVE  RepliesNamed'
  <1> SUFFICES ASSUME NEW q \in Conns, NEW k \in 1..Len(c2s'[q]), c2s'[q][k].type = ID_REPLY
               PROVE  c2s'[q][k].id = IdOf[q]
    BY DEF RepliesNamed
  <1>1. CASE q # p
    BY <1>1, ServerReads DEF RepliesNamed
  <1>2. CASE q = p
    <2>1. PICK n \in 0..Len(c2s[p]) :
            /\ Len(c2s'[p]) = Len(c2s[p]) - n
            /\ \A i \in 1..Len(c2s'[p]) : c2s'[p][i] = c2s[p][i + n]
      BY ServerReads
    <2>2. k + n \in 1..Len(c2s[p]) /\ c2s'[p][k] = c2s[p][k + n]
      <3>1. PICK l \in Nat : l = Len(c2s[p])
        BY DEF WireTypeOK
      <3> QED BY <1>2, <2>1, <3>1
    <2> QED BY <1>2, <2>2 DEF RepliesNamed
  <1> QED BY <1>1, <1>2

\* So does what a process sends, when it sends its own identifier.
LEMMA NamedSent ==
  ASSUME WireTypeOK, RepliesNamed, NEW p \in Conns, NEW m \in C2S,
         m.type = ID_REPLY => m.id = IdOf[p], c2s' = ToServer(p, m)
  PROVE  RepliesNamed'
  <1> SUFFICES ASSUME NEW q \in Conns, NEW k \in 1..Len(c2s'[q]), c2s'[q][k].type = ID_REPLY
               PROVE  c2s'[q][k].id = IdOf[q]
    BY DEF RepliesNamed
  <1>1. CASE q # p \/ srvEnd[p] = "closed"
    <2>1. c2s'[q] = c2s[q]
      BY <1>1, SubscriberSends
    <2> QED BY <2>1 DEF RepliesNamed
  <1>2. CASE q = p /\ srvEnd[p] # "closed"
    <2>1. /\ Len(c2s'[p]) = Len(c2s[p]) + 1
          /\ c2s'[p][Len(c2s[p]) + 1] = m
          /\ \A i \in 1..Len(c2s[p]) : c2s'[p][i] = c2s[p][i]
      <3>1. LET c == ToServer(p, m)
            IN /\ Len(c[p]) = Len(c2s[p]) + 1
               /\ c[p][Len(c2s[p]) + 1] = m
               /\ \A i \in 1..Len(c2s[p]) : c[p][i] = c2s[p][i]
        BY <1>2, SubscriberSends
      <3> DEFINE d == ToServer(p, m)
      <3>2. c2s' = d
        OBVIOUS
      <3>3. /\ Len(d[p]) = Len(c2s[p]) + 1
            /\ d[p][Len(c2s[p]) + 1] = m
            /\ \A i \in 1..Len(c2s[p]) : d[p][i] = c2s[p][i]
        BY <3>1
      <3> HIDE DEF d
      <3> QED BY <3>2, <3>3
    <2>2. PICK l \in Nat : l = Len(c2s[p])
      BY DEF WireTypeOK
    <2>3. CASE k = l + 1
      BY <1>2, <2>1, <2>2, <2>3
    <2>4. CASE k # l + 1
      <3>1. k \in 1..Len(c2s[p])
        BY <1>2, <2>1, <2>2, <2>4
      <3> QED BY <1>2, <2>1, <3>1 DEF RepliesNamed
    <2> QED BY <2>3, <2>4
  <1> QED BY <1>1, <1>2

-----------------------------------------------------------------------------
\* The subscribers.

\* What has been printed before stays, and at most one publication follows.
LEMMA ShowAppends ==
  ASSUME SubTypeOK, NEW p \in Conns, NEW n \in Nat, NEW i \in Ids
  PROVE  /\ Show(p, n)[i] \in Seq(Nat)
         /\ \A j \in 1..Len(Show(p, n)[i]) :
              \/ j \in 1..Len(shown[i]) /\ Show(p, n)[i][j] = shown[i][j]
              \/ i = IdOf[p] /\ j = Len(shown[i]) + 1 /\ Show(p, n)[i][j] = n
  <1>1. shown \in [Ids -> Seq(Nat)] /\ IdOf[p] \in Ids
    BY IdOfAssumption DEF SubTypeOK
  <1>2. CASE Show(p, n) = shown
    BY <1>1, <1>2
  <1>3. CASE Show(p, n) = [shown EXCEPT ![IdOf[p]] = Append(shown[IdOf[p]], n)]
    <2>1. CASE i # IdOf[p]
      BY <1>1, <1>3, <2>1
    <2>2. CASE i = IdOf[p]
      <3>1. Show(p, n)[i] = Append(shown[i], n)
        BY <1>1, <1>3, <2>2
      <3> QED BY <1>1, <2>2, <3>1
    <2> QED BY <2>1, <2>2
  <1> QED BY <1>2, <1>3 DEF Show

\* Printing what is newer than everything shown before and older than all
\* that follows, or a phantom, leaves the publications in line.
LEMMA ShowStep ==
  ASSUME TypeOK, TypeOK', Numbered, InLine, CarriesLess,
         UNCHANGED <<pc, clients, at, cur, udp, pub>>,
         NEW p \in Conns, NEW n \in Nat, shown' = Show(p, n), n <= Taken,
         n # 0 =>
           /\ \A j \in 1..Len(shown[IdOf[p]]) : shown[IdOf[p]][j] < n
           /\ \A k \in 1..Len(clients) : clients[k].id = IdOf[p] =>
                n < Due(k) /\ \A m \in 1..Len(clients[k].queue) : n < clients[k].queue[m]
           /\ \A q \in Conns : IdOf[q] = IdOf[p] => Carrying(q)' = {}
  PROVE  InLine'
  <1> USE DEF InLine
  <1>1. Taken' = Taken /\ \A k : Due(k)' = Due(k)
    BY DEF Taken, Due, Undecided
  <1>2. Taken \in Nat /\ \A k : Due(k) \in Nat \ {0}
    <2>1. Taken \in Nat /\ \A k : Due(k) \in Nat
      BY DueType DEF TypeOK
    <2>2. \A k : Due(k) # 0
      BY <2>1 DEF Due, Undecided, Numbered
    <2> QED BY <2>1, <2>2
  <1>3. shown \in [Ids -> Seq(Nat)] /\ IdOf \in [Conns -> Ids]
    BY IdOfAssumption DEF TypeOK, SubTypeOK
  <1>4. ASSUME NEW k \in 1..Len(clients)
        PROVE  clients[k].queue \in Seq(Nat) /\ clients[k].id \in Ids
    BY <1>4, QueueType DEF TypeOK
  <1>5. ASSUME NEW i \in Ids, NEW j \in 1..Len(shown'[i])
        PROVE  \/ j \in 1..Len(shown[i]) /\ shown'[i][j] = shown[i][j]
               \/ i = IdOf[p] /\ j = Len(shown[i]) + 1 /\ shown'[i][j] = n
    BY <1>5, ShowAppends DEF TypeOK
  <1>6. CarriedNewer'
    <2> SUFFICES ASSUME NEW q \in Conns, NEW k \in Carrying(q)'
                 PROVE  /\ s2c'[q][k].n \in 1..Taken
                        /\ \A j \in 1..Len(shown'[IdOf[q]]) : shown'[IdOf[q]][j] < s2c'[q][k].n
      BY <1>1 DEF CarriedNewer
    <2>1. PICK l \in Carrying(q) : s2c'[q][k] = s2c[q][l]
      BY DEF CarriesLess
    <2>2. s2c'[q][k].n \in 1..Taken
      BY <2>1 DEF CarriedNewer
    <2>3. ASSUME NEW j \in 1..Len(shown'[IdOf[q]]) PROVE shown'[IdOf[q]][j] < s2c'[q][k].n
      <3>1. CASE j \in 1..Len(shown[IdOf[q]]) /\ shown'[IdOf[q]][j] = shown[IdOf[q]][j]
        BY <2>1, <3>1 DEF CarriedNewer
      <3>2. CASE IdOf[q] = IdOf[p] /\ shown'[IdOf[q]][j] = n
        <4>1. n = 0
          BY <3>2
        <4> QED BY <2>2, <3>2, <4>1, <1>2
      <3> QED BY <1>3, <1>5, <2>3, <3>1, <3>2
    <2> QED BY <2>2, <2>3
  <1>7. QueuesSorted'
    <2> SUFFICES ASSUME NEW k \in 1..Len(clients), NEW m \in 1..Len(clients[k].queue)
                 PROVE  /\ 0 < clients[k].queue[m] /\ clients[k].queue[m] < Due(k)
                        /\ \A l \in 1..(m - 1) : clients[k].queue[l] < clients[k].queue[m]
                        /\ \A q \in Conns : \A j \in Carrying(q)' :
                             IdOf[q] = clients[k].id => s2c'[q][j].n < clients[k].queue[m]
      BY <1>1 DEF QueuesSorted
    <2>1. /\ 0 < clients[k].queue[m] /\ clients[k].queue[m] < Due(k)
          /\ \A l \in 1..(m - 1) : clients[k].queue[l] < clients[k].queue[m]
      BY DEF QueuesSorted
    <2>2. ASSUME NEW q \in Conns, NEW j \in Carrying(q)', IdOf[q] = clients[k].id
          PROVE  s2c'[q][j].n < clients[k].queue[m]
      <3>1. PICK l \in Carrying(q) : s2c'[q][j] = s2c[q][l]
        BY DEF CarriesLess
      <3> QED BY <2>2, <3>1 DEF QueuesSorted
    <2> QED BY <2>1, <2>2
  <1>8. ShownBefore'
    <2>1. ASSUME NEW i \in Ids, NEW j \in 1..Len(shown'[i]) PROVE shown'[i][j] <= Taken
      BY <1>5, <2>1 DEF ShownBefore
    <2>2. ASSUME NEW k \in 1..Len(clients), NEW j \in 1..Len(shown'[clients[k].id])
          PROVE  shown'[clients[k].id][j] < Due(k)
      <3>1. CASE j \in 1..Len(shown[clients[k].id])
                 /\ shown'[clients[k].id][j] = shown[clients[k].id][j]
        BY <3>1 DEF ShownBefore
      <3>2. CASE clients[k].id = IdOf[p] /\ shown'[clients[k].id][j] = n
        BY <1>2, <3>2
      <3> QED BY <1>4, <1>5, <2>2, <3>1, <3>2
    <2> QED BY <1>1, <2>1, <2>2 DEF ShownBefore
  <1>9. Older'
    <2> SUFFICES ASSUME NEW k \in 1..Len(clients), NEW m \in 1..Len(clients[k].queue),
                        NEW j \in 1..Len(shown'[clients[k].id])
                 PROVE  shown'[clients[k].id][j] < clients[k].queue[m]
      BY DEF Older
    <2>1. CASE j \in 1..Len(shown[clients[k].id])
               /\ shown'[clients[k].id][j] = shown[clients[k].id][j]
      BY <2>1 DEF Older
    <2>2. CASE clients[k].id = IdOf[p] /\ shown'[clients[k].id][j] = n
      <3>1. 0 < clients[k].queue[m]
        BY DEF QueuesSorted
      <3> QED BY <2>2, <3>1
    <2> QED BY <1>4, <1>5, <2>1, <2>2
  <1>10. InOrder'
    <2> SUFFICES ASSUME NEW i \in Ids, NEW j \in 1..Len(shown'[i]), NEW k \in 1..Len(shown'[i]),
                        j < k, shown'[i][j] # 0, shown'[i][k] # 0
                 PROVE  shown'[i][j] < shown'[i][k]
      BY DEF InOrder
    <2>1. PICK l \in Nat : l = Len(shown[i])
      BY <1>3
    <2>2. j \in 1..Len(shown[i]) /\ shown'[i][j] = shown[i][j]
      <3>1. k \in Int /\ k <= l + 1
        BY <1>5, <2>1
      <3>2. j # l + 1
        BY <3>1, <2>1
      <3> QED BY <1>5, <2>1, <3>2
    <2>3. CASE k \in 1..Len(shown[i]) /\ shown'[i][k] = shown[i][k]
      BY <2>2, <2>3 DEF InOrder
    <2>4. CASE i = IdOf[p] /\ shown'[i][k] = n
      BY <2>2, <2>4
    <2> QED BY <1>5, <2>3, <2>4
  <1> QED BY <1>6, <1>7, <1>8, <1>9, <1>10

\* What a subscriber or the environment does leaves the server's place alone.
LEMMA ServerStands ==
  ASSUME Named, Numbered, OneCarried, Away, UNCHANGED <<pc, clients, file, at>>,
         UNCHANGED <<cur, udp, pub>> \/ Numbered', CarriesLess, RepliesNamed',
         \A q \in Conns : Carrying(q) # {} => srvEnd'[q] = srvEnd[q]
  PROVE  Named' /\ Numbered' /\ OneCarried' /\ Away'
  <1>1. Named'
    BY DEF Named, RepliesNamed
  <1>2. Numbered'
    BY DEF Numbered, Taken
  <1>3. OneCarried'
    BY OneLess
  <1>4. Away'
    BY DEF Away
  <1> QED BY <1>1, <1>2, <1>3, <1>4

\* A publication on its way to a subscriber in its main loop is the only one,
\* and the client the walk stands at is the one that awaits it.
LEMMA CarriedHere ==
  ASSUME Settled, NEW p \in Conns, Carrying(p) # {}, pc \notin Ended
  PROVE  /\ pc \in AckWaits /\ at \in 1..Len(clients)
         /\ file[clients[at].sock] = p /\ clients[at].sock \in Fds
         /\ clients[at].id = IdOf[p]
  <1> USE DEF Settled
  <1>1. srvEnd[p] = "open" /\ InDialogue(p)
    BY DEF InSequence, OneCarried, InStep, Conversing
  <1>2. Acking(p)
    BY <1>1 DEF InDialogue, Down, Carrying, IsPushed
  <1>3. at \in 1..Len(clients) /\ clients[at].sock \in Fds /\ file[clients[at].sock] # NoConn
    BY <1>2, AwaitedPeer DEF Acking, Orderly, Here
  <1>4. clients[at].id = IdOf[p]
    BY <1>2, <1>3 DEF Acking, InSequence, Named
  <1> QED BY <1>2, <1>3, <1>4 DEF Acking

\* The publication a subscriber prints is next in line for its identifier.
LEMMA ReceivedNext ==
  ASSUME Settled, NEW p \in Conns, ReceiveData(p), CarriesLess
  PROVE  LET n == Arrived(p).n IN
         /\ n \in 1..Taken
         /\ \A j \in 1..Len(shown[IdOf[p]]) : shown[IdOf[p]][j] < n
         /\ \A k \in 1..Len(clients) : clients[k].id = IdOf[p] =>
              n < Due(k) /\ \A m \in 1..Len(clients[k].queue) : n < clients[k].queue[m]
         /\ \A q \in Conns : Carrying(q)' = {}
  <1> DEFINE n == Arrived(p).n
  <1> USE DEF Settled
  <1>0. TypeOK /\ WireTypeOK /\ Numbered
    BY DEF Bookkeeping, TypeOK, InSequence
  <1>1. s2c[p] \in Seq(S2C) /\ s2c[p] # << >> /\ spc[p] = "loop" /\ s2c' \in AfterClientRecv(p)
    BY <1>0 DEF ReceiveData, WireTypeOK
  <1>2. Arrived(p) = s2c[p][1] /\ 1 \in 1..Len(s2c[p]) /\ s2c[p][1].type = DATA
    BY <1>1 DEF Arrived, ReceiveData
  <1>3. 1 \in Carrying(p) /\ n = s2c[p][1].n
    BY <1>2 DEF Carrying
  <1>4. n \in 1..Taken /\ \A j \in 1..Len(shown[IdOf[p]]) : shown[IdOf[p]][j] < n
    BY <1>3 DEF InSequence, CarriedNewer
  <1>5. ASSUME NEW k \in 1..Len(clients), clients[k].id = IdOf[p]
        PROVE  n < Due(k) /\ \A m \in 1..Len(clients[k].queue) : n < clients[k].queue[m]
    <2>1. \A m \in 1..Len(clients[k].queue) : n < clients[k].queue[m]
      BY <1>3, <1>5 DEF InSequence, QueuesSorted
    <2>2. ~Undecided(k)
      <3> SUFFICES ASSUME Undecided(k) PROVE FALSE
        OBVIOUS
      <3>1. pc \notin Ended
        BY DEF Undecided, Ended
      <3>2. /\ pc \in AckWaits /\ at \in 1..Len(clients) /\ clients[at].id = IdOf[p]
        BY <1>3, <3>1, CarriedHere
      <3>3. at < k /\ pc = "await_ack"
        BY <3>2 DEF Undecided, AckWaits
      <3>4. clients[at].id # clients[k].id
        <4>1. at \in 1..(k - 1)
          BY <3>2, <3>3
        <4> QED BY <3>3, <4>1 DEF Bookkeeping, SocketsKnown, Ended
      <3> QED BY <1>5, <3>2, <3>4
    <2>3. Taken \in Nat /\ Due(k) = Taken + 1
      BY <1>0, <2>2, DueType DEF Due, TypeOK
    <2> QED BY <1>4, <2>1, <2>3
  <1>6. ASSUME NEW q \in Conns PROVE Carrying(q)' = {}
    <2>1. CASE q # p
      <3>1. Carrying(q) = {}
        BY <1>3, <2>1 DEF InSequence, OneCarried
      <3> QED BY <3>1 DEF CarriesLess
    <2>2. CASE q = p
      <3>1. Len(s2c[p]) <= 1
        BY <1>1 DEF InStep, Conversing, InDialogue, Down
      <3>2. Len(s2c[p]) = 1
        BY <1>1, <3>1, OneElement
      <3>3. PICK m \in 0..Len(s2c[p]) : m >= 1 /\ Len(s2c'[p]) = Len(s2c[p]) - m
        BY <1>0, <1>1, ClientReads
      <3>4. Len(s2c'[p]) = 0
        BY <3>2, <3>3
      <3>5. \A j : j \notin 1..Len(s2c'[p])
        BY <3>4
      <3> QED BY <2>2, <3>5 DEF Carrying
    <2> QED BY <2>1, <2>2
  <1> QED BY <1>4, <1>5, <1>6

\* A step that takes messages away or adds headers or datagrams breaks no
\* order.
LEMMA ElsewhereSequence ==
  ASSUME Settled, TypeOK', UNCHANGED <<pc, clients, file, at, cur, shown>>,
         UNCHANGED <<udp, pub>> \/ (Numbered' /\ Taken' = Taken), CarriesLess, RepliesNamed',
         \A q \in Conns : Carrying(q) # {} => srvEnd'[q] = srvEnd[q]
  PROVE  InSequence'
  <1>0. TypeOK /\ ServerTypeOK /\ ServerTypeOK'
    BY DEF Settled, Bookkeeping, TypeOK
  <1>1. Named /\ Numbered /\ OneCarried /\ Away /\ InLine
    BY <1>0, Parts DEF Settled
  <1>2. Named' /\ Numbered' /\ OneCarried' /\ Away'
    BY <1>1, ServerStands
  <1>3. Taken' = Taken /\ Taken \in Nat
    BY <1>0, <1>1, DueType DEF Taken
  <1>4. ClientsStill
    BY <1>0, <1>1, <1>3, DueType DEF ClientsStill, Due, Undecided
  <1>5. Taken <= Taken'
    BY <1>3
  <1>6. InLine'
    BY <1>0, <1>1, <1>2, <1>4, <1>5, QuietStep
  <1> QED BY <1>0, <1>2, <1>6, PartsLater

\* Nothing a subscriber does by itself breaks the order.
LEMMA ProcessSequence ==
  ASSUME Settled, TypeOK', NEW p \in Conns, ProcessRuns(p)
  PROVE  InSequence'
  <1> USE DEF Settled
  <1>0. TypeOK /\ WireTypeOK /\ ServerTypeOK /\ ServerTypeOK' /\ s2c[p] \in Seq(S2C)
    BY DEF Bookkeeping, TypeOK, WireTypeOK
  <1>1. /\ SubscriberStep(p)
        /\ UNCHANGED <<pc, clients, file, at, cur, udp, pub>>
    BY DEF ProcessRuns, serverVars, setVars, inputVars
  <1>2. Named /\ Numbered /\ OneCarried /\ Away /\ InLine /\ RepliesNamed
    BY <1>0, Parts DEF Named, RepliesNamed
  <1>3. srvEnd' = srvEnd
    BY <1>1 DEF SubscriberStep, SendId, Answered, ExitAnswered, WrongHeader, ReceiveData,
                ReceiveRefused, ReceiveEnd
  <1>4. CarriesLess
    <2>1. CASE SendId(p) \/ ReceiveData(p)
      BY <1>0, <2>1, LessRead DEF SendId, ReceiveData
    <2>2. CASE Answered(p)
      <3>1. s2c[p] # << >> /\ s2c' = AfterClientRecvOne(p)
        BY <2>2 DEF Answered, Arrived, ZeroS2C, Control, RESPONSE
      <3>2. AfterClientRecvOne(p) \in AfterClientRecv(p)
        <4>1. 1 \in 1..Len(s2c[p])
          BY <1>0, <3>1
        <4>2. AfterClientRecv(p) =
                {[s2c EXCEPT ![p] = SubSeq(s2c[p], k + 1, Len(s2c[p]))] : k \in 1..Len(s2c[p])}
          BY <3>1 DEF AfterClientRecv
        <4>3. [s2c EXCEPT ![p] = SubSeq(s2c[p], 1 + 1, Len(s2c[p]))] \in AfterClientRecv(p)
          BY <4>1, <4>2
        <4>4. 1 + 1 = 2
          OBVIOUS
        <4> QED BY <4>3, <4>4 DEF AfterClientRecvOne
      <3> QED BY <1>0, <3>1, <3>2, LessRead
    <2>3. CASE \E how : Quit(p, how, s2c)
      BY <1>0, <2>3, LessQuit
    <2>4. CASE UNCHANGED s2c
      BY <2>4, LessSame
    <2> QED BY <1>1, <2>1, <2>2, <2>3, <2>4
            DEF SubscriberStep, ExitAnswered, WrongHeader, ReceiveRefused, ReceiveEnd
  <1>5. RepliesNamed'
    <2>1. CASE UNCHANGED c2s
      BY <1>2, <2>1 DEF RepliesNamed
    <2>2. CASE c2s' = ToServer(p, Command(ACK, NoTopic, 0))
      <3>1. Command(ACK, NoTopic, 0) \in C2S
        BY <1>0, HeaderType DEF ACK
      <3>2. Command(ACK, NoTopic, 0).type # ID_REPLY
        BY DEF Command, ACK, ID_REPLY
      <3> QED BY <1>0, <1>2, <2>2, <3>1, <3>2, NamedSent
    <2>3. CASE c2s' = ToServer(p, IdReply(IdOf[p]))
      <3>1. IdReply(IdOf[p]) \in C2S /\ IdReply(IdOf[p]).id = IdOf[p]
        BY <1>0, HeaderType, IdOfAssumption DEF IdReply
      <3> QED BY <1>0, <1>2, <2>3, <3>1, NamedSent
    <2> QED BY <1>1, <2>1, <2>2, <2>3
            DEF SubscriberStep, SendId, Answered, ExitAnswered, WrongHeader, ReceiveData,
                ReceiveRefused, ReceiveEnd
  <1>6. Named' /\ Numbered' /\ OneCarried' /\ Away'
    BY <1>1, <1>2, <1>3, <1>4, <1>5, ServerStands
  <1>7. CASE UNCHANGED shown
    BY <1>1, <1>3, <1>4, <1>5, <1>7, ElsewhereSequence
  <1>8. CASE ReceiveData(p)
    <2>1. Arrived(p).n \in Nat /\ Arrived(p).n <= Taken /\ shown' = Show(p, Arrived(p).n)
      BY <1>4, <1>8, ReceivedNext DEF ReceiveData
    <2>2. InLine'
      BY <1>0, <1>1, <1>2, <1>4, <1>8, <2>1, ReceivedNext, ShowStep
    <2> QED BY <1>0, <1>6, <2>2, PartsLater
  <1>9. CASE shown' = Show(p, ZeroS2C.n)
    <2>1. ZeroS2C.n = 0 /\ Taken \in Nat
      BY <1>0, <1>2, DueType DEF ZeroS2C, Control
    <2>2. shown' = Show(p, 0) /\ 0 <= Taken
      BY <1>9, <2>1
    <2>3. InLine'
      BY <1>0, <1>1, <1>2, <1>4, <2>2, ShowStep
    <2> QED BY <1>0, <1>6, <2>3, PartsLater
  <1> QED BY <1>1, <1>7, <1>8, <1>9
          DEF SubscriberStep, SendId, Answered, ExitAnswered, WrongHeader, ReceiveRefused, ReceiveEnd

-----------------------------------------------------------------------------
\* The environment.

\* A datagram that arrives is the next one in number.
LEMMA PublishNumbers ==
  ASSUME ServerTypeOK, Numbered, NEW topic \in Topics, Publish(topic)
  PROVE  Numbered' /\ Taken' = Taken
  <1>1. PICK n \in Nat : n = Len(pub)
    BY DEF ServerTypeOK
  <1>2. PICK m \in Nat : m = Len(udp)
    BY DEF ServerTypeOK
  <1>3. Len(pub') = n + 1 /\ Len(udp') = m + 1 /\ m <= n /\ Taken = n - m
    BY <1>1, <1>2 DEF Publish, ServerTypeOK, Numbered, Taken
  <1>4. Taken' = Taken
    BY <1>1, <1>2, <1>3 DEF Taken
  <1>5. ASSUME NEW j \in 1..(m + 1) PROVE udp'[j] = Taken + j
    <2>1. CASE j = m + 1
      <3>1. udp'[j] = n + 1
        BY <1>1, <1>2, <2>1 DEF Publish, ServerTypeOK
      <3> QED BY <1>3, <2>1, <3>1
    <2>2. CASE j # m + 1
      <3>1. j \in 1..Len(udp)
        BY <1>2, <2>2
      <3>2. udp'[j] = udp[j]
        BY <3>1 DEF Publish, ServerTypeOK
      <3> QED BY <3>1, <3>2 DEF Numbered
    <2> QED BY <2>1, <2>2
  <1>6. Len(udp') <= Len(pub')
    BY <1>3
  <1>7. \A j \in 1..Len(udp') : udp'[j] = Taken' + j
    BY <1>3, <1>4, <1>5
  <1>8. pc' \in {"deliver", "await_ack"} => cur' = Taken' /\ cur' # 0
    BY <1>4 DEF Publish, Numbered
  <1> QED BY <1>4, <1>6, <1>7, <1>8 DEF Numbered

\* Nothing a user, a publisher or a signal does breaks the order.
LEMMA EnvironmentSequence ==
  ASSUME Settled, TypeOK', Environment
  PROVE  InSequence'
  <1> USE DEF Settled
  <1>0. TypeOK /\ WireTypeOK /\ ServerTypeOK /\ Numbered /\ RepliesNamed
    BY DEF Bookkeeping, TypeOK, InSequence, Named, RepliesNamed
  <1>1. ASSUME NEW p \in Conns, UserConnects(p) PROVE InSequence'
    <2>1. /\ UNCHANGED <<pc, clients, file, at, cur, shown, udp, pub, s2c, c2s>>
          /\ spc[p] = "off" /\ srvEnd' = [srvEnd EXCEPT ![p] = "backlog"]
      BY <1>1 DEF UserConnects, Connect, serverVars, inputVars
    <2>2. Len(s2c[p]) = 0
      <3>1. s2c[p] = << >>
        BY <2>1 DEF InStep, Conversing, InDialogue, Down
      <3> QED BY <3>1
    <2>3. Carrying(p) = {}
      <3>1. \A j : j \notin 1..Len(s2c[p])
        BY <2>2
      <3> QED BY <3>1 DEF Carrying
    <2>4. \A q \in Conns : Carrying(q) # {} => srvEnd'[q] = srvEnd[q]
      BY <1>0, <2>1, <2>3 DEF WireTypeOK
    <2>5. CarriesLess /\ RepliesNamed'
      BY <1>0, <2>1, LessSame DEF RepliesNamed
    <2> QED BY <2>1, <2>4, <2>5, ElsewhereSequence
  <1>2. ASSUME NEW p \in Conns, UserTypes(p) PROVE InSequence'
    <2>1. UNCHANGED <<pc, clients, file, at, cur, udp, pub>>
      BY <1>2 DEF UserTypes, serverVars, inputVars
    <2>2. PICK m \in Commanded :
            \/ TypeSubscribe(p, m.topic, m.sf)
            \/ TypeUnsubscribe(p, m.topic)
            \/ TypeExit(p)
      BY <1>2 DEF UserTypes
    <2>3. m.topic \in Topics \cup {NoTopic} /\ m.sf \in {0, 1}
      BY BrokerAssumption DEF C2S
    <2>4. /\ Command(SUBSCRIBE, m.topic, m.sf) \in C2S
          /\ Command(UNSUBSCRIBE, m.topic, 0) \in C2S
          /\ Command(DISCONNECT, NoTopic, 0) \in C2S
      BY <1>0, <2>3, HeaderType DEF SUBSCRIBE, UNSUBSCRIBE, DISCONNECT
    <2>5. /\ Command(SUBSCRIBE, m.topic, m.sf).type # ID_REPLY
          /\ Command(UNSUBSCRIBE, m.topic, 0).type # ID_REPLY
          /\ Command(DISCONNECT, NoTopic, 0).type # ID_REPLY
      BY DEF Command, SUBSCRIBE, UNSUBSCRIBE, DISCONNECT, ID_REPLY
    <2>6. PICK d \in C2S : d.type # ID_REPLY /\ \E next : Type(p, d, next)
      BY <2>2, <2>4, <2>5 DEF TypeSubscribe, TypeUnsubscribe, TypeExit
    <2>7. c2s' = ToServer(p, d) /\ UNCHANGED <<s2c, srvEnd, shown>>
      BY <2>6 DEF Type
    <2>8. RepliesNamed'
      BY <1>0, <2>6, <2>7, NamedSent
    <2>9. CarriesLess
      BY <2>7, LessSame
    <2> QED BY <2>1, <2>7, <2>8, <2>9, ElsewhereSequence
  <1>3. ASSUME NEW p \in Conns, Kill(p) PROVE InSequence'
    <2>1. /\ UNCHANGED <<pc, clients, file, at, cur, udp, pub, c2s, srvEnd, shown>>
          /\ Quit(p, "died", s2c)
      BY <1>3 DEF Kill, Killed, serverVars, inputVars
    <2>2. CarriesLess /\ RepliesNamed'
      BY <1>0, <2>1, LessQuit DEF RepliesNamed
    <2> QED BY <2>1, <2>2, ElsewhereSequence
  <1>4. ASSUME NEW topic \in Topics, Publish(topic) PROVE InSequence'
    <2>1. UNCHANGED <<pc, clients, file, at, cur, shown, s2c, c2s, srvEnd>>
      BY <1>4 DEF Publish, wireVars, subVars
    <2>2. Numbered' /\ Taken' = Taken
      BY <1>0, <1>4, PublishNumbers
    <2>3. CarriesLess /\ RepliesNamed'
      BY <1>0, <2>1, LessSame DEF RepliesNamed
    <2> QED BY <2>1, <2>2, <2>3, ElsewhereSequence
  <1>5. CASE PublishMalformed \/ TypeServerExit
    <2>1. UNCHANGED <<pc, clients, file, at, cur, shown, udp, pub, s2c, c2s, srvEnd>>
      BY <1>5 DEF PublishMalformed, TypeServerExit, wireVars, subVars
    <2>2. CarriesLess /\ RepliesNamed'
      BY <1>0, <2>1, LessSame DEF RepliesNamed
    <2> QED BY <2>1, <2>2, ElsewhereSequence
  <1> QED BY <1>1, <1>2, <1>3, <1>4, <1>5 DEF Environment

-----------------------------------------------------------------------------
\* The server, where it moves no publication.

\* The identifiers of the clients.
ClientsNamed ==
  \A k \in 1..Len(clients) : \A i \in Fds :
    clients[k].sock = i /\ file[i] # NoConn => IdOf[file[i]] = clients[k].id

\* Nothing is under way unless the server waits for an acknowledgement, nor
\* when the acknowledgement is there.
LEMMA NothingCarried ==
  ASSUME Settled, NEW p \in Conns, pc \notin AckWaits \cup Ended \/ Acked
  PROVE  Carrying(p) = {}
  <1> SUFFICES ASSUME Carrying(p) # {} PROVE FALSE
    OBVIOUS
  <1> USE DEF Settled
  <1>1. pc \notin Ended
    BY DEF Acked, AckWaits, Ended
  <1>2. pc \in AckWaits /\ file[clients[at].sock] = p /\ Acked
    BY <1>1, CarriedHere
  <1>3. HerePeer = p /\ srvEnd[p] = "open" /\ InDialogue(p)
    BY <1>1, <1>2 DEF HerePeer, Here, Peer, InSequence, OneCarried, InStep, Conversing
  <1>4. c2s[p] \in Seq(C2S) /\ c2s[p] # << >> /\ Head(c2s[p]).type = ACK
    <2>1. c2s[p] \in Seq(C2S)
      BY DEF Bookkeeping, TypeOK, WireTypeOK
    <2>2. Incoming(p).type = ACK
      BY <1>2, <1>3 DEF Acked
    <2> QED BY <2>1, <2>2 DEF Incoming, ZeroC2S, Command, ACK
  <1>5. 1 \in 1..Len(c2s[p]) /\ c2s[p][1].type = ACK
    BY <1>4
  <1>6. Answer(p)
    BY <1>3, <1>5 DEF InDialogue, Up, Request, IsCommand, ACK, SUBSCRIBE, UNSUBSCRIBE, DISCONNECT
  <1>7. s2c[p] = << >>
    BY <1>5, <1>6 DEF Answer, ACK, ID_REPLY
  <1>8. Len(s2c[p]) = 0
    BY <1>7
  <1>9. \A j : j \notin 1..Len(s2c[p])
    BY <1>8
  <1> QED BY <1>9 DEF Carrying

\* A step of the server under which nothing is under way, the queues are the
\* same, and no client is put back behind the walk.
LEMMA QuietSequence ==
  ASSUME Settled, TypeOK', UNCHANGED shown, Numbered', Taken <= Taken', CarriesLess,
         pc' \notin Ended => (pc \notin AckWaits \cup Ended \/ Acked),
         RepliesNamed', ClientsNamed', ClientsStill, Away'
  PROVE  InSequence'
  <1>0. TypeOK /\ ServerTypeOK /\ ServerTypeOK'
    BY DEF Settled, Bookkeeping, TypeOK
  <1>1. Numbered /\ OneCarried /\ InLine
    BY <1>0, Parts DEF Settled
  <1>2. OneCarried'
    <2>1. pc' \notin Ended => \A p \in Conns : Carrying(p) = {}
      BY NothingCarried
    <2>2. pc' \notin Ended => pc \notin Ended
      BY DEF Acked, AckWaits, Ended
    <2> QED BY <1>1, <2>1, <2>2, OneLess
  <1>3. Named'
    BY DEF Named, RepliesNamed, ClientsNamed
  <1>4. InLine'
    BY <1>0, <1>1, QuietStep
  <1> QED BY <1>0, <1>2, <1>3, <1>4, PartsLater

\* The number in hand counts for no client for which it did not before.
LEMMA DueGrows ==
  ASSUME ServerTypeOK, Numbered, UNCHANGED <<udp, pub>>, NEW k,
         Undecided(k)' => Undecided(k) /\ cur' = cur
  PROVE  Due(k) <= Due(k)'
  <1>1. Taken \in Nat /\ Due(k) \in Nat /\ Due(k) <= Taken + 1 /\ Taken' = Taken
    BY DueType, DueBound DEF Taken
  <1>2. CASE Undecided(k)'
    BY <1>1, <1>2 DEF Due
  <1>3. CASE ~Undecided(k)'
    BY <1>1, <1>3 DEF Due
  <1> QED BY <1>2, <1>3

\* No walk is under way afterwards, or the walk goes on with the same datagram.
WalksOn ==
  \/ pc' \notin {"deliver", "await_ack"}
  \/ /\ cur' = cur
     /\ \/ pc = "deliver" /\ pc' = "deliver" /\ at' = at + 1
        \/ pc = "deliver" /\ pc' = "await_ack" /\ at' = at
        \/ pc = "await_ack" /\ pc' = "deliver" /\ at' = at + 1

\* The datagrams stay numbered then, and no client is put back.
LEMMA WalkGoesOn ==
  ASSUME ServerTypeOK, Numbered, UNCHANGED <<udp, pub>>, WalksOn
  PROVE  /\ Numbered' /\ Taken' = Taken /\ Taken <= Taken'
         /\ \A k \in Nat : Due(k) <= Due(k)'
  <1>1. Taken' = Taken /\ Taken \in Nat
    BY DueType DEF Taken
  <1>2. Numbered'
    BY <1>1 DEF Numbered, WalksOn
  <1>3. ASSUME NEW k \in Nat PROVE Due(k) <= Due(k)'
    <2>1. at \in Nat
      BY DEF ServerTypeOK
    <2>2. Undecided(k)' => Undecided(k) /\ cur' = cur
      BY <2>1 DEF Undecided, WalksOn
    <2> QED BY <2>2, DueGrows
  <1> QED BY <1>1, <1>2, <1>3

\* A step that leaves the clients and the descriptors alone.
LEMMA StandingSequence ==
  ASSUME Settled, TypeOK', UNCHANGED <<clients, file, shown, udp, pub>>, WalksOn, CarriesLess,
         pc' \notin Ended => (pc \notin AckWaits \cup Ended \/ Acked), RepliesNamed', Away'
  PROVE  InSequence'
  <1>1. ServerTypeOK /\ Numbered /\ ClientsNamed
    BY DEF Settled, Bookkeeping, TypeOK, InSequence, Named, ClientsNamed
  <1>2. Numbered' /\ Taken <= Taken' /\ \A k \in Nat : Due(k) <= Due(k)'
    BY <1>1, WalkGoesOn
  <1>3. ClientsStill
    BY <1>1, <1>2 DEF ClientsStill, ServerTypeOK
  <1>4. ClientsNamed'
    BY <1>1 DEF ClientsNamed
  <1> QED BY <1>2, <1>3, <1>4, QuietSequence

\* The channels, where the server reads, is silent, or sends no publication.
LEMMA ServerChannels ==
  ASSUME Settled, NEW p \in Conns,
         UNCHANGED c2s \/ c2s' \in AfterServerRecv(p),
         UNCHANGED s2c \/ \E type \in 1..6 : s2c' = ToClient(p, Control(type))
  PROVE  RepliesNamed' /\ CarriesLess
  <1>1. WireTypeOK /\ RepliesNamed
    BY DEF Settled, Bookkeeping, TypeOK, InSequence, Named, RepliesNamed
  <1>2. RepliesNamed'
    <2>1. CASE UNCHANGED c2s
      BY <1>1, <2>1 DEF RepliesNamed
    <2>2. CASE c2s' \in AfterServerRecv(p)
      BY <1>1, <2>2, NamedRead
    <2> QED BY <2>1, <2>2
  <1>3. CarriesLess
    <2>1. CASE UNCHANGED s2c
      BY <2>1, LessSame
    <2>2. CASE \E type \in 1..6 : s2c' = ToClient(p, Control(type))
      <3>1. PICK type \in 1..6 : s2c' = ToClient(p, Control(type))
        BY <2>2
      <3>2. Control(type) \in S2C
        BY <1>1, HeaderType
      <3>3. Control(type).type # DATA
        BY DEF Control, DATA
      <3> QED BY <1>1, <3>1, <3>2, <3>3, LessSent
    <2> QED BY <2>1, <2>2
  <1> QED BY <1>2, <1>3

\* The same, for a handler that uses no channel.
LEMMA SilentChannels ==
  ASSUME Settled, UNCHANGED <<c2s, s2c>>
  PROVE  RepliesNamed' /\ CarriesLess
  BY LessSame DEF Settled, InSequence, Named, RepliesNamed

\* The end of the process.
LEMMA EndSequence ==
  ASSUME Settled, TypeOK', NEW how \in Ended, Terminate(how), UNCHANGED subVars,
         pc \in {"drain", "drain_ack"} => how = "dead", pc \notin Ended
  PROVE  InSequence'
  <1>1. /\ UNCHANGED <<clients, file, shown, udp, pub, c2s, s2c, at>> /\ pc' = how
    BY DEF Terminate, setVars, inputVars, subVars
  <1>2. RepliesNamed' /\ CarriesLess
    BY <1>1, SilentChannels
  <1>3. WalksOn
    BY <1>1 DEF WalksOn, Ended
  <1>4. Away'
    <2>1. ServerTypeOK
      BY DEF Settled, Bookkeeping, TypeOK
    <2>2. Away
      BY <2>1, Parts DEF Settled
    <2> QED BY <1>1, <2>2 DEF Away, Ended
  <1> QED BY <1>1, <1>2, <1>3, <1>4, StandingSequence

\* Steps of the loop, the walks and the farewell that send no publication.
LEMMA QuietWalk ==
  ASSUME Settled, TypeOK', UNCHANGED subVars,
         Select \/ QueueEmptied \/ Skip \/ Forwarded \/ ReceiveExit \/ SayBye
  PROVE  InSequence'
  <1>1. /\ UNCHANGED <<clients, file, shown, udp, pub, c2s>>
        /\ pc \notin AckWaits \cup Ended
        /\ pc \in {"drain", "drain_ack", "dead"} => QueueEmptied
    BY DEF Select, QueueEmptied, Skip, Visiting, Forwarded, ReceiveExit, SayBye, Turn, Register,
           wireVars, setVars, inputVars, subVars, AckWaits, Ended
  <1>2. WalksOn
    BY DEF Select, QueueEmptied, Skip, Visiting, Forwarded, ReceiveExit, SayBye, Register, WalksOn
  <1>3. RepliesNamed' /\ CarriesLess
    <2>1. CASE SayBye
      <3>1. pc = "bye" /\ at <= Len(clients) /\ Here.sock # -1
        BY <2>1 DEF SayBye
      <3>2. at \in 1..Len(clients) /\ at \in at..Len(clients)
        BY <3>1 DEF Settled, Bookkeeping, Placed, TypeOK, ServerTypeOK
      <3>3. clients[at].sock # -1 /\ file[clients[at].sock] # NoConn
        BY <3>1, <3>2 DEF Settled, InStep, PeersOpen, Here
      <3>4. clients[at].sock \in Fds
        BY <3>2, <3>3, ClientType DEF Settled, Bookkeeping, TypeOK, Client
      <3>5. HerePeer \in Conns
        BY <3>3, <3>4 DEF HerePeer, Here, Peer, Settled, Bookkeeping, TypeOK, ServerTypeOK
      <3>6. s2c' = ToClient(HerePeer, Control(REFUSED))
        BY <2>1 DEF SayBye, Send
      <3>7. REFUSED \in 1..6
        BY DEF REFUSED
      <3> QED BY <1>1, <3>5, <3>6, <3>7, ServerChannels
    <2>2. CASE Select \/ QueueEmptied \/ Skip \/ Forwarded \/ ReceiveExit
      BY <2>2, SilentChannels DEF Select, QueueEmptied, Skip, Forwarded, ReceiveExit, wireVars
    <2> QED BY <2>1, <2>2
  <1>4. Away'
    <2>1. ServerTypeOK
      BY DEF Settled, Bookkeeping, TypeOK
    <2>2. Away
      BY <2>1, Parts DEF Settled
    <2>3. CASE pc \notin {"drain", "drain_ack", "dead"}
      BY <1>1, <2>2, <2>3 DEF Away
    <2>4. CASE QueueEmptied
      BY <1>1, <2>2, <2>4 DEF Away, QueueEmptied, Here
    <2> QED BY <1>1, <2>3, <2>4
  <1> QED BY <1>1, <1>2, <1>3, <1>4, StandingSequence

\* The datagram the server takes is the next one, and every client is older.
LEMMA DatagramSequence ==
  ASSUME Settled, TypeOK', UNCHANGED subVars, ReceiveDatagram
  PROVE  InSequence'
  <1>0. ServerTypeOK /\ Numbered /\ ClientsNamed /\ Away
    <2>1. ServerTypeOK
      BY DEF Settled, Bookkeeping, TypeOK
    <2> QED BY <2>1, Parts DEF Settled, Named, ClientsNamed
  <1>1. /\ pc = "loop" /\ pc' = "deliver" /\ at' = 1 /\ cur' = Head(udp) /\ udp' = Tail(udp)
        /\ udp # << >> /\ UNCHANGED <<clients, file, pub, shown, c2s, s2c>>
    BY DEF ReceiveDatagram, Turn, wireVars, subVars
  <1>2. PICK n \in Nat : n = Len(pub)
    BY <1>0 DEF ServerTypeOK
  <1>3. PICK m \in Nat : m = Len(udp)
    BY <1>0 DEF ServerTypeOK
  <1>4. m # 0 /\ m <= n /\ Taken = n - m /\ \A j \in 1..m : udp[j] = Taken + j
    BY <1>0, <1>1, <1>2, <1>3 DEF Numbered, Taken, ServerTypeOK
  <1>5. Len(udp') = m - 1 /\ \A j \in 1..(m - 1) : udp'[j] = udp[j + 1]
    BY <1>0, <1>1, <1>3 DEF ServerTypeOK
  <1>6. cur' = Taken + 1
    <2>1. cur' = udp[1]
      BY <1>0, <1>1 DEF ServerTypeOK
    <2>2. 1 \in 1..m
      BY <1>4
    <2> QED BY <1>4, <2>1, <2>2
  <1>7. Taken' = Taken + 1
    BY <1>1, <1>2, <1>4, <1>5 DEF Taken
  <1>8. Numbered'
    <2>1. Len(udp') <= Len(pub')
      BY <1>1, <1>2, <1>4, <1>5
    <2>2. ASSUME NEW j \in 1..Len(udp') PROVE udp'[j] = Taken' + j
      <3>1. j \in 1..(m - 1) /\ j + 1 \in 1..m
        BY <1>4, <1>5
      <3>2. udp'[j] = Taken + (j + 1)
        BY <1>4, <1>5, <3>1
      <3> QED BY <1>2, <1>3, <1>4, <1>7, <3>1, <3>2
    <2>3. cur' = Taken' /\ cur' # 0
      BY <1>2, <1>3, <1>4, <1>6, <1>7
    <2> QED BY <2>1, <2>2, <2>3 DEF Numbered
  <1>9. ClientsStill
    <2> SUFFICES ASSUME NEW k \in 1..Len(clients) PROVE Due(k) <= Due(k)'
      BY <1>1 DEF ClientsStill
    <2>1. k \in Nat /\ at' <= k
      BY <1>0, <1>1 DEF ServerTypeOK
    <2>2. Due(k)' = Taken + 1
      BY <1>1, <1>6, <2>1 DEF Due, Undecided
    <2>3. Due(k) <= Taken + 1 /\ Due(k) \in Nat /\ Taken \in Nat
      BY <1>0, DueBound, DueType
    <2> QED BY <2>2, <2>3
  <1>10. RepliesNamed' /\ CarriesLess
    BY <1>1, SilentChannels
  <1>11. ClientsNamed' /\ Away'
    BY <1>0, <1>1 DEF ClientsNamed, Away
  <1>12. Taken <= Taken'
    BY <1>2, <1>3, <1>4, <1>7
  <1> QED BY <1>1, <1>8, <1>9, <1>10, <1>11, <1>12, QuietSequence DEF AckWaits, Ended

\* An acknowledgement lets the walk, or the queue, go on.
LEMMA AckSequence ==
  ASSUME Settled, TypeOK', UNCHANGED subVars, AckForward \/ AckQueued
  PROVE  InSequence'
  <1>1. /\ UNCHANGED <<clients, file, shown, udp, pub, s2c>>
        /\ Acked /\ c2s' \in AfterServerRecv(HerePeer)
    BY DEF AckForward, AckQueued, setVars, inputVars, subVars
  <1>2. WalksOn
    BY DEF AckForward, AckQueued, WalksOn
  <1>3. HerePeer \in Conns
    <2>1. pc \in AckWaits
      BY <1>1 DEF Acked
    <2>2. Here.sock \in Fds /\ file[Here.sock] # NoConn /\ file[Here.sock] = HerePeer
      BY <2>1, AwaitedPeer DEF Settled, Orderly
    <2> QED BY <2>2 DEF Settled, Bookkeeping, TypeOK, ServerTypeOK
  <1>4. RepliesNamed' /\ CarriesLess
    BY <1>1, <1>3, ServerChannels
  <1>5. Away'
    <2>1. ServerTypeOK
      BY DEF Settled, Bookkeeping, TypeOK
    <2>2. Away
      BY <2>1, Parts DEF Settled
    <2> QED BY <1>1, <2>2 DEF Away, AckForward, AckQueued
  <1> QED BY <1>1, <1>2, <1>4, <1>5, StandingSequence

\* Clients that are the same but for their sockets and lists.
LEMMA SameStill ==
  ASSUME ServerTypeOK, Numbered, UNCHANGED <<udp, pub>>, WalksOn, Len(clients') = Len(clients),
         \A k \in 1..Len(clients) :
           clients'[k].id = clients[k].id /\ clients'[k].queue = clients[k].queue
  PROVE  ClientsStill
  <1>1. \A k \in Nat : Due(k) <= Due(k)'
    BY WalkGoesOn
  <1>2. \A k \in 1..Len(clients) : k \in Nat
    BY DEF ServerTypeOK
  <1> QED BY <1>1, <1>2 DEF ClientsStill

\* A connection request: the descriptor of the new socket is no client's.
LEMMA AcceptSequence ==
  ASSUME Settled, TypeOK', UNCHANGED subVars, NEW p \in Conns, AcceptConnection(p)
  PROVE  InSequence'
  <1>0. TypeOK /\ ServerTypeOK /\ Numbered /\ ClientsNamed /\ Away
    <2>1. TypeOK /\ ServerTypeOK
      BY DEF Settled, Bookkeeping, TypeOK
    <2> QED BY <2>1, Parts DEF Settled, Named, ClientsNamed
  <1>1. /\ pc = "loop" /\ pc' = "await_id" /\ UNCHANGED <<clients, shown, udp, pub, c2s>>
        /\ s2c' = ToClient(p, Control(ID_REQUEST))
    BY DEF AcceptConnection, Turn, Send, inputVars, subVars
  <1>2. RepliesNamed' /\ CarriesLess
    BY <1>1, ServerChannels DEF ID_REQUEST
  <1>3. WalksOn
    BY <1>1 DEF WalksOn
  <1>4. Numbered' /\ Taken <= Taken' /\ ClientsStill
    BY <1>0, <1>1, <1>3, WalkGoesOn, SameStill
  <1>5. Away'
    BY <1>0, <1>1 DEF Away
  <1>6. ClientsNamed'
    <2>1. PICK i \in Fds : IsLowestFree(i) /\ file' = [file EXCEPT ![i] = p]
      BY DEF AcceptConnection
    <2> SUFFICES ASSUME NEW k \in 1..Len(clients), NEW j \in Fds,
                        clients[k].sock = j, file'[j] # NoConn
                 PROVE  IdOf[file'[j]] = clients[k].id
      BY <1>1 DEF ClientsNamed
    <2>2. j \in Nat /\ clients[k].online /\ file[j] # NoConn
      BY <1>1 DEF Settled, Bookkeeping, SocketsKnown, Ended, Fds, FirstFd
    <2>3. j # i /\ file'[j] = file[j]
      BY <1>0, <2>1, <2>2 DEF IsLowestFree, TypeOK, ServerTypeOK
    <2> QED BY <1>0, <2>2, <2>3 DEF ClientsNamed
  <1> QED BY <1>1, <1>2, <1>4, <1>5, <1>6, QuietSequence DEF subVars, AckWaits, Ended

\* The identifier in the answer is that of the process at the other end.
LEMMA AnswerNames ==
  ASSUME Settled, NEW p \in Conns, Identified(p)
  PROVE  /\ Incoming(p).id = IdOf[p] /\ file[new_sockfd] = p /\ new_sockfd \in Fds
         /\ pc = "await_id" /\ c2s' \in AfterServerRecv(p)
  <1>1. /\ pc = "await_id" /\ c2s' \in AfterServerRecv(p) /\ file[new_sockfd] = p
        /\ Incoming(p).type = ID_REPLY
    BY DEF Identified, Answering, Peer
  <1>2. c2s[p] \in Seq(C2S) /\ new_sockfd \in Fds
    BY <1>1 DEF Settled, Bookkeeping, Placed, TypeOK, WireTypeOK
  <1>3. c2s[p] # << >>
    BY <1>1 DEF Incoming, ZeroC2S, Command, ID_REPLY
  <1>4. 1 \in 1..Len(c2s[p]) /\ Incoming(p) = c2s[p][1]
    BY <1>2, <1>3 DEF Incoming
  <1>5. Incoming(p).id = IdOf[p]
    BY <1>1, <1>4 DEF Settled, InSequence, Named
  <1> QED BY <1>1, <1>2, <1>5

\* A new client has no queue.
LEMMA NewClientSequence ==
  ASSUME Settled, TypeOK', UNCHANGED subVars, NEW p \in Conns, NewClient(p)
  PROVE  InSequence'
  <1>0. TypeOK /\ ServerTypeOK /\ Numbered /\ ClientsNamed /\ Away
    <2>1. TypeOK /\ ServerTypeOK
      BY DEF Settled, Bookkeeping, TypeOK
    <2> QED BY <2>1, Parts DEF Settled, Named, ClientsNamed
  <1>1. /\ Incoming(p).id = IdOf[p] /\ file[new_sockfd] = p /\ new_sockfd \in Fds
        /\ pc = "await_id" /\ c2s' \in AfterServerRecv(p)
    BY AnswerNames DEF NewClient
  <1>2. /\ pc' = "loop" /\ UNCHANGED <<s2c, file, shown, udp, pub, at>>
    BY DEF NewClient, Register, inputVars, subVars
  <1>3. RepliesNamed' /\ CarriesLess
    BY <1>1, <1>2, ServerChannels
  <1>4. WalksOn
    BY <1>2 DEF WalksOn
  <1>5. Numbered' /\ Taken <= Taken' /\ Taken' = Taken /\ \A k \in Nat : Due(k) <= Due(k)'
    BY <1>0, <1>2, <1>4, WalkGoesOn
  <1> DEFINE new == [id |-> Incoming(p).id, subs |-> EmptyList,
                     sock |-> new_sockfd, online |-> TRUE, queue |-> << >>]
  <1>6. PICK l \in Nat : l = Len(clients)
    BY <1>0 DEF ServerTypeOK
  <1>7. /\ Len(clients') = l + 1 /\ clients'[l + 1] = new
        /\ \A k \in 1..l : clients'[k] = clients[k]
    BY <1>0, <1>6 DEF NewClient, ServerTypeOK
  <1>8. ASSUME NEW k \in 1..Len(clients')
        PROVE  (k \in 1..Len(clients) /\ clients'[k] = clients[k]) \/ clients'[k] = new
    BY <1>6, <1>7
  <1>9. new.queue = << >> /\ new.id = IdOf[p] /\ new.sock = new_sockfd
    BY <1>1
  <1> HIDE DEF new
  <1>10. ClientsStill
    <2> SUFFICES ASSUME NEW k \in 1..Len(clients')
                 PROVE  \/ /\ k \in 1..Len(clients)
                           /\ clients'[k].id = clients[k].id /\ clients'[k].queue = clients[k].queue
                           /\ Due(k) <= Due(k)'
                        \/ clients'[k].queue = << >> /\ Due(k)' = Taken' + 1
      BY DEF ClientsStill
    <2>1. k \in Nat /\ Due(k)' = Taken' + 1
      BY <1>2, <1>6, <1>7 DEF Due, Undecided
    <2> QED BY <1>5, <1>8, <1>9, <2>1
  <1>11. ClientsNamed'
    BY <1>0, <1>1, <1>2, <1>8, <1>9 DEF ClientsNamed
  <1>12. Away'
    BY <1>0, <1>1, <1>8, <1>9 DEF Away
  <1> QED BY <1>1, <1>2, <1>3, <1>5, <1>10, <1>11, <1>12, QuietSequence DEF AckWaits, Ended

\* A refused one leaves the clients as they are.
LEMMA RefuseSequence ==
  ASSUME Settled, TypeOK', UNCHANGED subVars, NEW p \in Conns, RefuseClient(p)
  PROVE  InSequence'
  <1>0. TypeOK /\ ServerTypeOK /\ Numbered /\ ClientsNamed /\ Away
    <2>1. TypeOK /\ ServerTypeOK
      BY DEF Settled, Bookkeeping, TypeOK
    <2> QED BY <2>1, Parts DEF Settled, Named, ClientsNamed
  <1>1. pc = "await_id" /\ c2s' \in AfterServerRecv(p)
    BY AnswerNames DEF RefuseClient
  <1>2. /\ pc' = "loop" /\ UNCHANGED <<clients, shown, udp, pub>>
        /\ s2c' = ToClient(p, Control(REFUSED)) /\ CloseFd(new_sockfd)
    BY DEF RefuseClient, Send, inputVars, subVars
  <1>3. RepliesNamed' /\ CarriesLess
    BY <1>1, <1>2, ServerChannels DEF REFUSED
  <1>4. WalksOn
    BY <1>2 DEF WalksOn
  <1>5. Numbered' /\ Taken <= Taken' /\ ClientsStill
    BY <1>0, <1>2, <1>4, WalkGoesOn, SameStill
  <1>6. Away'
    BY <1>0, <1>1, <1>2 DEF Away
  <1>7. ClientsNamed'
    BY <1>0, <1>2 DEF ClientsNamed, CloseFd, TypeOK, ServerTypeOK
  <1> QED BY <1>1, <1>2, <1>3, <1>5, <1>6, <1>7, QuietSequence DEF subVars, AckWaits, Ended

\* One that is back has the socket of the process that gave its identifier.
LEMMA ReturnSequence ==
  ASSUME Settled, TypeOK', UNCHANGED subVars, NEW p \in Conns, ReturnClient(p)
  PROVE  InSequence'
  <1>0. TypeOK /\ ServerTypeOK /\ Numbered /\ ClientsNamed /\ Away
    <2>1. TypeOK /\ ServerTypeOK
      BY DEF Settled, Bookkeeping, TypeOK
    <2> QED BY <2>1, Parts DEF Settled, Named, ClientsNamed
  <1>1. /\ Incoming(p).id = IdOf[p] /\ file[new_sockfd] = p /\ new_sockfd \in Fds
        /\ pc = "await_id" /\ c2s' \in AfterServerRecv(p)
    BY AnswerNames DEF ReturnClient
  <1>2. pc' = "drain" /\ UNCHANGED <<s2c, file, shown, udp, pub>>
    BY DEF ReturnClient, setVars, inputVars, subVars
  <1>3. RepliesNamed' /\ CarriesLess
    BY <1>1, <1>2, ServerChannels
  <1>4. WalksOn
    BY <1>2 DEF WalksOn
  <1>5. PICK k \in 1..Len(clients) :
          /\ clients[k].id = Incoming(p).id
          /\ clients' = [clients EXCEPT ![k].sock = new_sockfd, ![k].online = TRUE]
          /\ at' = k
    BY DEF ReturnClient, IsById
  <1>6. Len(clients') = Len(clients)
    BY <1>0, <1>1, <1>5, ClientType
  <1>7. ASSUME NEW j \in 1..Len(clients)
        PROVE  /\ clients'[j].id = clients[j].id /\ clients'[j].queue = clients[j].queue
               /\ j # k => clients'[j] = clients[j]
               /\ j = k => clients'[j].sock = new_sockfd
    <2>1. clients[j] \in Client /\ clients \in Seq(Client)
      BY <1>0, ClientType DEF ServerTypeOK
    <2> QED BY <1>5, <2>1 DEF Client
  <1>8. Numbered' /\ Taken <= Taken' /\ ClientsStill
    BY <1>0, <1>2, <1>4, <1>6, <1>7, WalkGoesOn, SameStill
  <1>9. Away'
    BY <1>0, <1>1, <1>2, <1>5, <1>6, <1>7 DEF Away
  <1>10. ClientsNamed'
    <2> SUFFICES ASSUME NEW j \in 1..Len(clients), NEW i \in Fds,
                        clients'[j].sock = i, file[i] # NoConn
                 PROVE  IdOf[file[i]] = clients'[j].id
      BY <1>2, <1>6 DEF ClientsNamed
    <2>1. CASE j = k
      BY <1>1, <1>5, <1>7, <2>1
    <2>2. CASE j # k
      BY <1>0, <1>7, <2>2 DEF ClientsNamed
    <2> QED BY <2>1, <2>2
  <1> QED BY <1>1, <1>2, <1>3, <1>8, <1>9, <1>10, QuietSequence DEF AckWaits, Ended

\* A command is no concern of the queues.
LEMMA CommandQueues ==
  ASSUME ServerTypeOK, NEW k \in 1..Len(clients), NEW m \in C2S, NEW c \in AfterCommand(k, m)
  PROVE  \A j \in 1..Len(clients) : c[j].queue = clients[j].queue
  <1> DEFINE Good(d) == \A j \in 1..Len(clients) : d[j].queue = clients[j].queue
  <1>1. \A j \in 1..Len(clients) : clients[j] \in Client
    BY ClientType
  <1>2. ASSUME NEW l PROVE Good([clients EXCEPT ![k].subs = l])
    BY <1>1 DEF ServerTypeOK, Client
  <1>3. ASSUME NEW new PROVE Good([j \in 1..Len(clients) |-> [clients[j] EXCEPT !.subs = new[j]]])
    BY <1>1 DEF Client
  <1>4. Good(clients)
    OBVIOUS
  <1>5. ASSUME c \in AfterSubscribe(k, m.topic, m.sf) PROVE Good(c)
    <2>1. CASE Subscribed(clients[k].subs, m.topic)
      <3>1. c = [clients EXCEPT ![k].subs = SetSf(clients[k].subs, m.topic, m.sf)]
        BY <1>5, <2>1 DEF AfterSubscribe
      <3> QED BY <1>2, <3>1
    <2>2. CASE ~Subscribed(clients[k].subs, m.topic)
      <3>1. PICK new : c = [j \in 1..Len(clients) |-> [clients[j] EXCEPT !.subs = new[j]]]
        BY <1>5, <2>2 DEF AfterSubscribe
      <3> QED BY <1>3, <3>1
    <2> QED BY <2>1, <2>2
  <1>6. ASSUME c \in AfterUnsubscribe(k, m.topic) PROVE Good(c)
    <2>1. c = [clients EXCEPT ![k].subs = Unsubscribe(clients[k].subs, m.topic)]
      BY <1>6 DEF AfterUnsubscribe
    <2> QED BY <1>2, <2>1
  <1> QED BY <1>4, <1>5, <1>6 DEF AfterCommand

\* A command leaves every client with its queue; who leaves has none.
LEMMA CommandSequence ==
  ASSUME Settled, TypeOK', UNCHANGED subVars, NEW i \in Fds, NEW k \in 1..Len(clients),
         ManageCommand(i, k) \/ ManageExit(i, k)
  PROVE  InSequence'
  <1>0. TypeOK /\ WireTypeOK /\ ServerTypeOK /\ Numbered /\ ClientsNamed /\ Away
    <2>1. TypeOK /\ WireTypeOK /\ ServerTypeOK
      BY DEF Settled, Bookkeeping, TypeOK
    <2> QED BY <2>1, Parts DEF Settled, Named, ClientsNamed
  <1>1. /\ pc = "loop" /\ pc' = "loop" /\ clients[k].sock = i
        /\ c2s' \in AfterServerRecv(Peer(i)) /\ s2c' = ToClient(Peer(i), Control(RESPONSE))
        /\ UNCHANGED <<shown, udp, pub>>
    BY DEF ManageCommand, ManageExit, Commanding, Turn, IsBySock, Send, inputVars, subVars
  <1>2. Peer(i) \in Conns
    <2>1. clients[k].online /\ file[i] # NoConn
      BY <1>1 DEF Settled, Bookkeeping, SocketsKnown, Ended, Fds, FirstFd
    <2> QED BY <1>0, <2>1 DEF Peer, ServerTypeOK
  <1>3. RepliesNamed' /\ CarriesLess
    BY <1>1, <1>2, ServerChannels DEF RESPONSE
  <1>4. WalksOn
    BY <1>1 DEF WalksOn
  <1>5. /\ Len(clients') = Len(clients)
        /\ \A j \in 1..Len(clients) :
             /\ clients'[j].id = clients[j].id /\ clients'[j].queue = clients[j].queue
             /\ clients'[j].sock \in {clients[j].sock, -1}
             /\ clients'[j].online => clients[j].online
        /\ \A j \in Fds : file'[j] \in {file[j], NoConn}
    <2>1. CASE ManageCommand(i, k)
      <3>1. Incoming(Peer(i)) \in C2S
        BY <1>0, <1>2, HeaderType
      <3>2. clients' \in AfterCommand(k, Incoming(Peer(i))) /\ UNCHANGED file
        BY <2>1 DEF ManageCommand
      <3> QED BY <1>0, <3>1, <3>2, CommandType, CommandQueues DEF SameClients
    <2>2. CASE ManageExit(i, k)
      <3>1. /\ clients' = [clients EXCEPT ![k].sock = -1, ![k].online = FALSE]
            /\ file' = [file EXCEPT ![i] = NoConn]
        BY <2>2 DEF ManageExit, CloseFd
      <3>2. Len(clients') = Len(clients)
        BY <1>0, <3>1, ClientType
      <3>3. ASSUME NEW j \in 1..Len(clients)
            PROVE  /\ clients'[j].id = clients[j].id /\ clients'[j].queue = clients[j].queue
                   /\ clients'[j].sock \in {clients[j].sock, -1}
                   /\ clients'[j].online => clients[j].online
        <4>1. clients[j] \in Client /\ clients \in Seq(Client)
          BY <1>0, ClientType DEF ServerTypeOK
        <4> QED BY <3>1, <4>1 DEF Client
      <3> QED BY <1>0, <3>1, <3>2, <3>3 DEF ServerTypeOK
    <2> QED BY <2>1, <2>2
  <1>6. Numbered' /\ Taken <= Taken' /\ ClientsStill
    BY <1>0, <1>1, <1>4, <1>5, WalkGoesOn, SameStill
  <1>7. Away'
    BY <1>0, <1>1, <1>5 DEF Away
  <1>8. ClientsNamed'
    BY <1>0, <1>5 DEF ClientsNamed, Fds, FirstFd
  <1> QED BY <1>1, <1>3, <1>6, <1>7, <1>8, QuietSequence DEF subVars, AckWaits, Ended

\* The farewell is acknowledged and the socket closed.
LEMMA FarewellSequence ==
  ASSUME Settled, TypeOK', UNCHANGED subVars, AckBye
  PROVE  InSequence'
  <1>0. TypeOK /\ ServerTypeOK /\ Numbered /\ ClientsNamed /\ Away
    <2>1. TypeOK /\ ServerTypeOK
      BY DEF Settled, Bookkeeping, TypeOK
    <2> QED BY <2>1, Parts DEF Settled, Named, ClientsNamed
  <1>1. /\ pc = "bye_ack" /\ pc' = "bye" /\ Acked /\ c2s' \in AfterServerRecv(HerePeer)
        /\ CloseFd(Here.sock) /\ UNCHANGED <<clients, s2c, shown, udp, pub>>
    BY DEF AckBye, inputVars, subVars
  <1>2. HerePeer \in Conns
    <2>1. pc \in AckWaits
      BY <1>1 DEF Acked
    <2>2. Here.sock \in Fds /\ file[Here.sock] # NoConn /\ file[Here.sock] = HerePeer
      BY <2>1, AwaitedPeer DEF Settled, Orderly
    <2> QED BY <1>0, <2>2 DEF ServerTypeOK
  <1>3. RepliesNamed' /\ CarriesLess
    BY <1>1, <1>2, ServerChannels
  <1>4. WalksOn
    BY <1>1 DEF WalksOn
  <1>5. Numbered' /\ Taken <= Taken' /\ ClientsStill
    BY <1>0, <1>1, <1>4, WalkGoesOn, SameStill
  <1>6. Away'
    BY <1>0, <1>1 DEF Away
  <1>7. ClientsNamed'
    BY <1>0, <1>1 DEF ClientsNamed, CloseFd, ServerTypeOK
  <1> QED BY <1>1, <1>3, <1>5, <1>6, <1>7, QuietSequence DEF subVars

-----------------------------------------------------------------------------
\* The server, where it moves a publication.

\* What send() puts on its way is one publication, and nothing else is.
LEMMA PublicationSent ==
  ASSUME WireTypeOK, \A q \in Conns : Carrying(q) = {}, NEW p \in Conns, NEW n \in Nat,
         s2c' = ToClient(p, Publication(n)), NEW q \in Conns, NEW k \in Carrying(q)'
  PROVE  q = p /\ s2c'[q][k].n = n
  <1>1. Publication(n) \in S2C /\ Publication(n).n = n
    BY HeaderType DEF Publication
  <1>2. CASE s2c'[q] = s2c[q]
    <2>1. k \in Carrying(q)
      BY <1>2 DEF Carrying
    <2> QED BY <2>1
  <1>3. CASE q = p /\ cliEnd[p] # "closed"
    <2>1. /\ Len(s2c'[p]) = Len(s2c[p]) + 1
          /\ s2c'[p][Len(s2c[p]) + 1] = Publication(n)
          /\ \A i \in 1..Len(s2c[p]) : s2c'[p][i] = s2c[p][i]
      <3> DEFINE m == Publication(n)
      <3>1. m \in S2C /\ s2c' = ToClient(p, m)
        BY <1>1
      <3> HIDE DEF m
      <3>2. /\ Len(s2c'[p]) = Len(s2c[p]) + 1
            /\ s2c'[p][Len(s2c[p]) + 1] = m
            /\ \A i \in 1..Len(s2c[p]) : s2c'[p][i] = s2c[p][i]
        BY <1>3, <3>1, Sent
      <3> QED BY <3>2 DEF m
    <2>2. PICK l \in Nat : l = Len(s2c[p])
      BY DEF WireTypeOK
    <2>3. k \in 1..(l + 1) /\ s2c'[p][k].type = DATA
      BY <1>3, <2>1, <2>2 DEF Carrying
    <2>4. k = l + 1
      <3> SUFFICES ASSUME k # l + 1 PROVE FALSE
        OBVIOUS
      <3>1. k \in 1..Len(s2c[p])
        BY <2>2, <2>3
      <3>2. s2c[p][k].type = DATA
        BY <2>1, <2>3, <3>1
      <3>3. k \in Carrying(p)
        BY <3>1, <3>2 DEF Carrying
      <3> QED BY <3>3
    <2>5. s2c'[p][k] = Publication(n)
      BY <2>1, <2>2, <2>4
    <2> QED BY <1>1, <1>3, <2>5
  <1>4. q # p \/ cliEnd[p] = "closed" => s2c'[q] = s2c[q]
    BY <1>1, ServerSends
  <1> QED BY <1>2, <1>3, <1>4

\* A publication newer than what has been shown, and older than what is queued
\* for the same identifier, may be sent; a queue may lose its first element.
LEMMA SendStep ==
  ASSUME TypeOK, TypeOK', Numbered, Numbered', InLine, \A q \in Conns : Carrying(q) = {},
         UNCHANGED <<shown, udp, pub>>, NEW p \in Conns, NEW n \in 1..Taken,
         s2c' = ToClient(p, Publication(n)),
         \A j \in 1..Len(shown[IdOf[p]]) : shown[IdOf[p]][j] < n,
         Len(clients') = Len(clients),
         \A k \in 1..Len(clients) :
           /\ clients'[k].id = clients[k].id /\ Due(k) <= Due(k)'
           /\ \E d \in {0, 1} :
                \A m \in 1..Len(clients'[k].queue) :
                  /\ m + d \in 1..Len(clients[k].queue)
                  /\ clients'[k].queue[m] = clients[k].queue[m + d]
           /\ clients[k].id = IdOf[p] =>
                \A m \in 1..Len(clients'[k].queue) : n < clients'[k].queue[m]
  PROVE  InLine'
  <1> USE DEF InLine
  <1>0. ServerTypeOK /\ ServerTypeOK' /\ WireTypeOK
    BY DEF TypeOK
  <1>1. Taken' = Taken /\ Taken \in Nat /\ \A k : Due(k) \in Nat /\ Due(k)' \in Nat
    <2>1. Taken' = Taken /\ Taken \in Nat /\ \A k : Due(k) \in Nat
      BY <1>0, DueType DEF Taken
    <2>2. \A k : Due(k)' \in Nat
      BY <1>0, <2>1 DEF ServerTypeOK, Due
    <2> QED BY <2>1, <2>2
  <1>2. shown \in [Ids -> Seq(Nat)]
    BY DEF TypeOK, SubTypeOK
  <1>3. ASSUME NEW q \in Conns, NEW k \in Carrying(q)' PROVE q = p /\ s2c'[q][k].n = n
    BY <1>0, <1>1, <1>3, PublicationSent
  <1>4. CarriedNewer'
    BY <1>1, <1>3 DEF CarriedNewer
  <1>5. ASSUME NEW k \in 1..Len(clients), NEW m \in 1..Len(clients'[k].queue)
        PROVE  /\ 0 < clients'[k].queue[m] /\ clients'[k].queue[m] < Due(k)'
               /\ \A l \in 1..(m - 1) : clients'[k].queue[l] < clients'[k].queue[m]
               /\ \A j \in 1..Len(shown[clients[k].id]) :
                    shown[clients[k].id][j] < clients'[k].queue[m]
    <2>1. PICK d \in {0, 1} :
            \A i \in 1..Len(clients'[k].queue) :
              /\ i + d \in 1..Len(clients[k].queue)
              /\ clients'[k].queue[i] = clients[k].queue[i + d]
      OBVIOUS
    <2>2. m \in Nat /\ m + d \in 1..Len(clients[k].queue)
          /\ clients'[k].queue[m] = clients[k].queue[m + d]
      BY <1>5, <2>1
    <2>3. clients[k].queue[m + d] \in Nat
      <3>1. clients[k].queue \in Seq(Nat)
        BY <1>0, QueueType
      <3> QED BY <2>2, <3>1
    <2>4. 0 < clients[k].queue[m + d] /\ clients[k].queue[m + d] < Due(k)
      BY <2>2 DEF QueuesSorted
    <2>5. Due(k) <= Due(k)'
      OBVIOUS
    <2>6. clients'[k].queue[m] < Due(k)'
      BY <1>1, <2>2, <2>3, <2>4, <2>5
    <2>7. ASSUME NEW l \in 1..(m - 1) PROVE clients'[k].queue[l] < clients'[k].queue[m]
      <3>1. l \in 1..Len(clients'[k].queue) /\ l + d \in 1..((m + d) - 1)
        BY <1>5, <2>1, <2>2
      <3>2. clients[k].queue[l + d] < clients[k].queue[m + d]
        BY <2>2, <3>1 DEF QueuesSorted
      <3> QED BY <2>1, <2>2, <3>1, <3>2
    <2>8. \A j \in 1..Len(shown[clients[k].id]) :
            shown[clients[k].id][j] < clients'[k].queue[m]
      BY <2>2 DEF Older
    <2> QED BY <2>2, <2>4, <2>6, <2>7, <2>8
  <1>6. QueuesSorted'
    <2> SUFFICES ASSUME NEW k \in 1..Len(clients), NEW m \in 1..Len(clients'[k].queue)
                 PROVE  /\ 0 < clients'[k].queue[m] /\ clients'[k].queue[m] < Due(k)'
                        /\ \A l \in 1..(m - 1) : clients'[k].queue[l] < clients'[k].queue[m]
                        /\ \A q \in Conns : \A j \in Carrying(q)' :
                             IdOf[q] = clients'[k].id => s2c'[q][j].n < clients'[k].queue[m]
      BY DEF QueuesSorted
    <2>1. ASSUME NEW q \in Conns, NEW j \in Carrying(q)', IdOf[q] = clients'[k].id
          PROVE  s2c'[q][j].n < clients'[k].queue[m]
      BY <1>3, <2>1
    <2> QED BY <1>5, <2>1
  <1>7. ShownBefore'
    <2>1. ASSUME NEW k \in 1..Len(clients), NEW j \in 1..Len(shown[clients[k].id])
          PROVE  shown[clients[k].id][j] < Due(k)'
      <3>1. clients[k].id \in Ids
        BY <1>0, QueueType
      <3>2. shown[clients[k].id][j] \in Nat /\ shown[clients[k].id][j] < Due(k)
        BY <1>2, <2>1, <3>1 DEF ShownBefore
      <3>3. Due(k) <= Due(k)'
        OBVIOUS
      <3> QED BY <1>1, <3>2, <3>3
    <2> QED BY <1>1, <2>1 DEF ShownBefore
  <1>8. Older'
    BY <1>5 DEF Older
  <1>9. InOrder'
    BY DEF InOrder
  <1> QED BY <1>4, <1>6, <1>7, <1>8, <1>9

\* The client a walk is at, when it is to be sent something, is the client of
\* the process at the other end, and no other client is.
LEMMA ClientHere ==
  ASSUME Settled, pc \in {"deliver", "drain"}, at \in 1..Len(clients), Here.online
  PROVE  /\ HerePeer \in Conns /\ IdOf[HerePeer] = clients[at].id /\ srvEnd[HerePeer] = "open"
         /\ \A k \in 1..Len(clients) : clients[k].id = clients[at].id => k = at
  <1> USE DEF Settled, Here
  <1>0. TypeOK /\ ServerTypeOK /\ pc \notin {"bye", "bye_ack"} \cup Ended
    BY DEF Bookkeeping, TypeOK, Ended
  <1>1. clients[at].sock # -1 /\ file[clients[at].sock] # NoConn
    BY <1>0 DEF Bookkeeping, SocketsKnown
  <1>2. clients[at].sock \in Fds
    BY <1>0, <1>1, ClientType DEF Client
  <1>3. HerePeer = file[clients[at].sock] /\ HerePeer \in Conns /\ srvEnd[HerePeer] = "open"
    BY <1>0, <1>1, <1>2, OpenFile DEF HerePeer, Peer, InStep
  <1>4. IdOf[HerePeer] = clients[at].id
    BY <1>1, <1>2, <1>3 DEF InSequence, Named
  <1>5. ASSUME NEW k \in 1..Len(clients), clients[k].id = clients[at].id PROVE k = at
    <2>1. ~(k \in 1..(at - 1)) /\ ~(at \in 1..(k - 1))
      BY <1>0, <1>5 DEF Bookkeeping, SocketsKnown
    <2>2. at \in Nat /\ k \in Nat /\ 1 <= at /\ 1 <= k
      BY <1>0 DEF ServerTypeOK
    <2> QED BY <2>1, <2>2
  <1> QED BY <1>3, <1>4, <1>5

\* What is under way after something has been sent to that process.
LEMMA SentHere ==
  ASSUME Settled, pc \in {"deliver", "drain"}, at \in 1..Len(clients), Here.online,
         NEW n \in Nat, s2c' = ToClient(HerePeer, Publication(n)), UNCHANGED srvEnd
  PROVE  OneCarried'
  <1>1. HerePeer \in Conns /\ srvEnd[HerePeer] = "open"
    BY ClientHere
  <1>2. PICK p \in Conns : p = HerePeer
    BY <1>1
  <1>3. \A q \in Conns : Carrying(q) = {}
    BY NothingCarried DEF AckWaits, Ended
  <1>4. WireTypeOK
    BY DEF Settled, Bookkeeping, TypeOK
  <1>5. ASSUME NEW q \in Conns, Carrying(q)' # {} PROVE q = p
    <2>1. PICK k \in Carrying(q)' : TRUE
      BY <1>5
    <2> QED BY <1>2, <1>3, <1>4, <2>1, PublicationSent
  <1>6. \A q \in Conns : Carrying(q)' # {} => srvEnd'[q] = "open"
    BY <1>1, <1>2, <1>5
  <1> QED BY <1>5, <1>6 DEF OneCarried

\* send_data forwards the datagram to the client at hand.
LEMMA ForwardSequence ==
  ASSUME Settled, TypeOK', UNCHANGED subVars, Forward
  PROVE  InSequence'
  <1>0. TypeOK /\ ServerTypeOK /\ ServerTypeOK' /\ Numbered /\ Named /\ Away /\ InLine
    <2>1. TypeOK /\ ServerTypeOK /\ ServerTypeOK'
      BY DEF Settled, Bookkeeping, TypeOK
    <2> QED BY <2>1, Parts DEF Settled
  <1>1. /\ pc = "deliver" /\ pc' = "await_ack" /\ Here.online /\ at <= Len(clients)
        /\ s2c' = ToClient(HerePeer, Publication(cur))
        /\ UNCHANGED <<clients, file, shown, udp, pub, c2s, srvEnd, at, cur>>
    BY DEF Forward, ToSend, Visiting, setVars, inputVars, subVars
  <1>2. at \in 1..Len(clients) /\ cur \in Nat /\ Taken \in Nat /\ cur = Taken /\ cur # 0
    BY <1>0, <1>1, DueType DEF Settled, Bookkeeping, Placed, Numbered, ServerTypeOK
  <1>3. cur \in 1..Taken
    BY <1>2
  <1>4. /\ HerePeer \in Conns /\ IdOf[HerePeer] = clients[at].id
        /\ \A k \in 1..Len(clients) : clients[k].id = clients[at].id => k = at
    BY <1>1, <1>2, ClientHere
  <1>5. PICK p \in Conns : p = HerePeer
    BY <1>4
  <1>6. Due(at) = cur
    BY <1>1, <1>2 DEF Due, Undecided
  <1>7. \A j \in 1..Len(shown[IdOf[p]]) : shown[IdOf[p]][j] < cur
    BY <1>0, <1>2, <1>4, <1>5, <1>6 DEF InLine, ShownBefore
  <1>8. Numbered' /\ \A k \in Nat : Due(k) <= Due(k)'
    BY <1>0, <1>1, WalkGoesOn DEF WalksOn
  <1>9. ASSUME NEW k \in 1..Len(clients)
        PROVE  /\ clients'[k].id = clients[k].id /\ Due(k) <= Due(k)'
               /\ \E d \in {0, 1} :
                    \A m \in 1..Len(clients'[k].queue) :
                      /\ m + d \in 1..Len(clients[k].queue)
                      /\ clients'[k].queue[m] = clients[k].queue[m + d]
               /\ clients[k].id = IdOf[p] =>
                    \A m \in 1..Len(clients'[k].queue) : cur < clients'[k].queue[m]
    <2>1. k \in Nat /\ Len(clients[k].queue) \in Nat
      BY SMTT(30), <1>0, QueueType DEF ServerTypeOK
    <2>2. \A m \in 1..Len(clients[k].queue) : m + 0 = m
      BY <2>1
    <2>3. clients[k].id = IdOf[p] => clients[k].queue = << >>
      BY <1>0, <1>1, <1>4, <1>5 DEF Away, Here
    <2>4. clients[k].queue = << >> => \A m : m \notin 1..Len(clients[k].queue)
      <3>1. Len(<< >>) = 0
        OBVIOUS
      <3> QED BY <3>1
    <2> QED BY <1>1, <1>8, <2>1, <2>2, <2>3, <2>4
  <1>10. \A q \in Conns : Carrying(q) = {}
    BY <1>1, NothingCarried DEF AckWaits, Ended
  <1>11. InLine'
    <2>1. Len(clients') = Len(clients) /\ s2c' = ToClient(p, Publication(cur))
          /\ UNCHANGED <<shown, udp, pub>>
      BY <1>1, <1>5
    <2> HIDE DEF InLine
    <2> QED BY <1>0, <1>3, <1>7, <1>8, <1>9, <1>10, <2>1, SendStep
  <1>12. OneCarried'
    BY <1>1, <1>2, SentHere
  <1>13. Named' /\ Away'
    BY <1>0, <1>1 DEF Named, Away
  <1> QED BY <1>0, <1>8, <1>11, <1>12, <1>13, PartsLater

\* The queue without its first element.
LEMMA QueueShorter ==
  ASSUME NEW s \in Seq(Nat), s # << >>
  PROVE  /\ Len(Tail(s)) = Len(s) - 1
         /\ \A m \in 1..Len(Tail(s)) : m + 1 \in 2..Len(s) /\ Tail(s)[m] = s[m + 1]
  OBVIOUS

\* The queue with one more.
LEMMA QueueLonger ==
  ASSUME NEW s \in Seq(Nat), NEW n \in Nat, NEW m \in 1..Len(Append(s, n))
  PROVE  \/ m \in 1..Len(s) /\ Append(s, n)[m] = s[m]
         \/ m = Len(s) + 1 /\ Append(s, n)[m] = n
  OBVIOUS

\* empty_queue sends the first element of the queue and removes it.
LEMMA QueuedSequence ==
  ASSUME Settled, TypeOK', UNCHANGED subVars, SendQueued
  PROVE  InSequence'
  <1>0. TypeOK /\ ServerTypeOK /\ ServerTypeOK' /\ Numbered /\ Named /\ Away /\ InLine
    <2>1. TypeOK /\ ServerTypeOK /\ ServerTypeOK'
      BY DEF Settled, Bookkeeping, TypeOK
    <2> QED BY <2>1, Parts DEF Settled
  <1>1. /\ pc = "drain" /\ pc' = "drain_ack" /\ clients[at].queue # << >>
        /\ clients' = [clients EXCEPT ![at].queue = Tail(clients[at].queue)]
        /\ s2c' = ToClient(HerePeer, Publication(Head(clients[at].queue)))
        /\ UNCHANGED <<file, shown, udp, pub, c2s, srvEnd, at, cur>>
    BY DEF SendQueued, Here, setVars, inputVars, subVars
  <1>2. at \in 1..Len(clients) /\ clients[at].queue \in Seq(Nat)
    BY <1>0, <1>1, QueueType DEF Settled, Bookkeeping, Placed
  <1>3. Here.online
    <2>1. clients[at].sock = new_sockfd /\ new_sockfd \in Fds
      BY <1>1 DEF Settled, Bookkeeping, Settling, Placed
    <2> QED BY <1>1, <1>2, <2>1 DEF Settled, Bookkeeping, SocketsKnown, Ended, Here, Fds, FirstFd
  <1>4. /\ HerePeer \in Conns /\ IdOf[HerePeer] = clients[at].id
        /\ \A k \in 1..Len(clients) : clients[k].id = clients[at].id => k = at
    BY <1>1, <1>2, <1>3, ClientHere
  <1>5. PICK p \in Conns : p = HerePeer
    BY <1>4
  <1>6. PICK n \in Nat : n = Head(clients[at].queue)
    BY <1>1, <1>2
  <1>7. 1 \in 1..Len(clients[at].queue) /\ clients[at].queue[1] = n
    BY <1>1, <1>2, <1>6
  <1>8. n \in 1..Taken
    <2>1. 0 < n /\ n < Due(at)
      BY <1>0, <1>2, <1>7 DEF InLine, QueuesSorted
    <2>2. Due(at) <= Taken + 1 /\ Taken \in Nat /\ Due(at) \in Nat
      BY <1>0, DueBound, DueType
    <2> QED BY <2>1, <2>2
  <1>9. \A j \in 1..Len(shown[IdOf[p]]) : shown[IdOf[p]][j] < n
    BY <1>0, <1>2, <1>4, <1>5, <1>7 DEF InLine, Older
  <1>10. Numbered' /\ \A k \in Nat : Due(k) <= Due(k)'
    BY <1>0, <1>1, WalkGoesOn DEF WalksOn
  <1>11. /\ Len(Tail(clients[at].queue)) = Len(clients[at].queue) - 1
         /\ \A m \in 1..Len(Tail(clients[at].queue)) :
              /\ m + 1 \in 2..Len(clients[at].queue)
              /\ Tail(clients[at].queue)[m] = clients[at].queue[m + 1]
    BY <1>1, <1>2, QueueShorter
  <1>12. Len(clients') = Len(clients) /\ Tail(clients[at].queue) \in Seq(Nat)
    BY <1>0, <1>1, <1>2, ClientType
  <1>13. ASSUME NEW k \in 1..Len(clients)
         PROVE  /\ clients'[k].id = clients[k].id /\ clients'[k].sock = clients[k].sock
                /\ k # at => clients'[k] = clients[k]
                /\ k = at => clients'[k].queue = Tail(clients[at].queue)
    <2>1. clients[k] \in Client /\ clients \in Seq(Client)
      BY <1>0, ClientType DEF ServerTypeOK
    <2> QED BY <1>1, <2>1 DEF Client
  <1>14. ASSUME NEW k \in 1..Len(clients)
         PROVE  /\ clients'[k].id = clients[k].id /\ Due(k) <= Due(k)'
                /\ \E d \in {0, 1} :
                     \A m \in 1..Len(clients'[k].queue) :
                       /\ m + d \in 1..Len(clients[k].queue)
                       /\ clients'[k].queue[m] = clients[k].queue[m + d]
                /\ clients[k].id = IdOf[p] =>
                     \A m \in 1..Len(clients'[k].queue) : n < clients'[k].queue[m]
    <2>1. k \in Nat /\ Len(clients[k].queue) \in Nat
      BY <1>0, QueueType DEF ServerTypeOK
    <2>2. CASE k # at
      <3>1. \A m \in 1..Len(clients[k].queue) : m + 0 = m
        BY <2>1
      <3>2. clients[k].id # IdOf[p]
        BY <1>4, <1>5, <2>2
      <3> QED BY <1>10, <1>13, <2>1, <2>2, <3>1, <3>2
    <2>3. CASE k = at
      <3>1. \A m \in 1..Len(clients'[k].queue) :
              /\ m + 1 \in 2..Len(clients[k].queue)
              /\ clients'[k].queue[m] = clients[k].queue[m + 1]
        BY <1>11, <1>13, <2>3
      <3>2. ASSUME NEW m \in 1..Len(clients'[k].queue)
            PROVE  m + 1 \in 1..Len(clients[k].queue) /\ n < clients'[k].queue[m]
        <4>1. m + 1 \in 2..Len(clients[k].queue) /\ clients'[k].queue[m] = clients[k].queue[m + 1]
          BY <3>1, <3>2
        <4>2. m + 1 \in 1..Len(clients[k].queue) /\ 1 \in 1..((m + 1) - 1)
          BY <2>1, <4>1
        <4>3. clients[k].queue[1] < clients[k].queue[m + 1]
          BY <1>0, <4>2 DEF InLine, QueuesSorted
        <4> QED BY <1>7, <2>3, <4>1, <4>2, <4>3
      <3> QED BY <1>10, <1>13, <2>1, <3>1, <3>2
    <2> QED BY <2>2, <2>3
  <1>15. \A q \in Conns : Carrying(q) = {}
    BY <1>1, NothingCarried DEF AckWaits, Ended
  <1>16. InLine'
    <2>1. s2c' = ToClient(p, Publication(n)) /\ UNCHANGED <<shown, udp, pub>>
      BY <1>1, <1>5, <1>6
    <2> QED BY <1>0, <1>8, <1>9, <1>10, <1>12, <1>14, <1>15, <2>1, SendStep
  <1>17. OneCarried'
    BY <1>1, <1>2, <1>3, <1>6, SentHere
  <1>18. Named' /\ Away'
    BY <1>0, <1>1, <1>12, <1>13 DEF Named, Away
  <1> QED BY <1>0, <1>10, <1>16, <1>17, <1>18, PartsLater

\* store and forward: the datagram becomes the last element of the queue.
LEMMA EnqueueSequence ==
  ASSUME Settled, TypeOK', UNCHANGED subVars, Enqueue
  PROVE  InSequence'
  <1>0. TypeOK /\ ServerTypeOK /\ ServerTypeOK' /\ Numbered /\ Named /\ Away /\ InLine
    <2>1. TypeOK /\ ServerTypeOK /\ ServerTypeOK'
      BY DEF Settled, Bookkeeping, TypeOK
    <2> QED BY <2>1, Parts DEF Settled
  <1>1. /\ pc = "deliver" /\ pc' = "deliver" /\ ~clients[at].online /\ at <= Len(clients)
        /\ clients' = [clients EXCEPT ![at].queue = Append(clients[at].queue, cur)]
        /\ at' = at + 1 /\ UNCHANGED <<file, shown, udp, pub, c2s, s2c, srvEnd, cur>>
    BY DEF Enqueue, ToStore, Visiting, Here, wireVars, setVars, inputVars, subVars
  <1>2. /\ at \in 1..Len(clients) /\ cur \in Nat /\ Taken \in Nat /\ cur = Taken /\ cur # 0
        /\ clients[at].queue \in Seq(Nat)
    BY <1>0, <1>1, DueType, QueueType DEF Settled, Bookkeeping, Placed, Numbered, ServerTypeOK
  <1>3. Numbered' /\ Taken' = Taken /\ \A k \in Nat : Due(k) <= Due(k)'
    BY <1>0, <1>1, WalkGoesOn DEF WalksOn
  <1>a. PICK a \in 1..Len(clients) : a = at
    BY <1>2
  <1>b. /\ a \in Nat /\ pc = "deliver" /\ pc' = "deliver" /\ at' = a + 1
        /\ clients' = [clients EXCEPT ![a].queue = Append(clients[a].queue, cur)]
        /\ ~clients[a].online /\ clients[a].queue \in Seq(Nat)
    BY <1>0, <1>1, <1>2, <1>a DEF ServerTypeOK
  <1>4. Due(a) = cur /\ Due(a)' = Taken + 1
    BY <1>1, <1>2, <1>3, <1>a, <1>b DEF Due, Undecided
  <1>5. Len(clients') = Len(clients) /\ Append(clients[a].queue, cur) \in Seq(Nat)
    BY <1>0, <1>2, <1>b, ClientType
  <1>6. ASSUME NEW k \in 1..Len(clients)
        PROVE  /\ clients'[k].id = clients[k].id /\ clients'[k].sock = clients[k].sock
               /\ clients'[k].online = clients[k].online
               /\ k # a => clients'[k] = clients[k]
               /\ k = a => clients'[k].queue = Append(clients[a].queue, cur)
    <2>1. clients[k] \in Client /\ clients \in Seq(Client)
      BY <1>0, ClientType DEF ServerTypeOK
    <2> QED BY <1>b, <2>1 DEF Client
  <1>7. PICK l \in Nat : l = Len(clients[a].queue)
    BY SMTT(30), <1>b
  <1>8. ASSUME NEW m \in 1..Len(clients'[a].queue)
        PROVE  \/ m \in 1..l /\ clients'[a].queue[m] = clients[a].queue[m]
               \/ m = l + 1 /\ clients'[a].queue[m] = cur
    <2>1. clients'[a].queue = Append(clients[a].queue, cur)
      BY <1>6
    <2> QED BY <1>2, <1>7, <1>8, <1>b, <2>1, QueueLonger
  <1>9. \A q \in Conns : Carrying(q) = {} /\ Carrying(q)' = {}
    <2>1. \A q \in Conns : Carrying(q) = {}
      BY <1>1, NothingCarried DEF AckWaits, Ended
    <2> QED BY <1>1, <2>1 DEF Carrying
  <1>10. ASSUME NEW k \in 1..Len(clients), NEW m \in 1..Len(clients'[k].queue)
         PROVE  /\ 0 < clients'[k].queue[m] /\ clients'[k].queue[m] < Due(k)'
                /\ \A j \in 1..(m - 1) : clients'[k].queue[j] < clients'[k].queue[m]
                /\ \A j \in 1..Len(shown[clients[k].id]) :
                     shown[clients[k].id][j] < clients'[k].queue[m]
    <2>1. CASE k # a
      <3>1. clients'[k].queue = clients[k].queue /\ m \in 1..Len(clients[k].queue)
        <4>1. clients'[k] = clients[k]
          BY <1>6, <2>1
        <4> QED BY <1>10, <4>1
      <3>2. clients[k].queue[m] \in Nat /\ k \in Nat /\ Due(k) \in Nat
        <4>1. clients[k].queue \in Seq(Nat)
          BY <1>0, QueueType
        <4>2. k \in Nat
          BY <1>0, QueueType DEF ServerTypeOK
        <4>3. Due(k) \in Nat
          BY <1>0, <4>2, DueType
        <4> QED BY <3>1, <4>1, <4>2, <4>3
      <3>3. clients[k].queue[m] < Due(k) /\ Due(k) <= Due(k)'
        BY <1>0, <1>3, <3>1, <3>2 DEF InLine, QueuesSorted
      <3>4. Due(k)' \in Nat
        BY <1>0, <1>2, <1>3 DEF Due, ServerTypeOK
      <3>5. clients[k].queue[m] < Due(k)'
        BY <3>2, <3>3, <3>4
      <3> QED BY <1>0, <3>1, <3>5 DEF InLine, QueuesSorted, Older
    <2>2. CASE k = a
      <3>1. CASE m \in 1..l /\ clients'[a].queue[m] = clients[a].queue[m]
        <4>a. m \in 1..Len(clients[a].queue) /\ clients'[a].queue[m] = clients[a].queue[m]
          BY <1>7, <3>1
        <4>b. QueuesSorted /\ Older
          BY <1>0 DEF InLine
        <4>c. 0 < clients[a].queue[m] /\ clients[a].queue[m] < Due(a)
          BY <4>a, <4>b DEF QueuesSorted
        <4>1. 0 < clients[a].queue[m] /\ clients[a].queue[m] < cur
              /\ clients[a].queue[m] \in Nat
          BY <1>0, <1>4, <4>a, <4>c, QueueType
        <4>2. ASSUME NEW j \in 1..(m - 1) PROVE clients'[a].queue[j] < clients'[a].queue[m]
          <5>1. j \in 1..l /\ j \in 1..Len(clients'[a].queue) /\ j # l + 1
            BY <1>7, <1>10, <2>2, <3>1
          <5> QED BY <1>0, <1>2, <1>7, <1>8, <3>1, <5>1 DEF InLine, QueuesSorted
        <4>3. \A j \in 1..Len(shown[clients[a].id]) :
                shown[clients[a].id][j] < clients[a].queue[m]
          BY <4>a, <4>b DEF Older
        <4>4. 0 < clients'[k].queue[m] /\ clients'[k].queue[m] < Due(k)'
          BY <1>2, <1>4, <2>2, <4>1, <4>a
        <4> QED BY <2>2, <4>a, <4>2, <4>3, <4>4
      <3>2. CASE m = l + 1 /\ clients'[a].queue[m] = cur
        <4>1. ASSUME NEW j \in 1..(m - 1) PROVE clients'[a].queue[j] < cur
          <5>1. j \in 1..l /\ j \in 1..Len(clients'[a].queue) /\ j # l + 1
            BY <1>7, <1>10, <2>2, <3>2
          <5>2. clients'[a].queue[j] = clients[a].queue[j] /\ j \in 1..Len(clients[a].queue)
            BY <1>7, <1>8, <5>1
          <5> QED BY <1>0, <1>2, <1>4, <5>2 DEF InLine, QueuesSorted
        <4>2. \A j \in 1..Len(shown[clients[a].id]) : shown[clients[a].id][j] < cur
          BY <1>0, <1>2, <1>4 DEF InLine, ShownBefore
        <4> QED BY <1>2, <1>4, <2>2, <3>2, <4>1, <4>2
      <3> QED BY <1>8, <1>10, <2>2, <3>1, <3>2
    <2> QED BY <2>1, <2>2
  <1>11. CarriedNewer' /\ OneCarried'
    BY <1>9 DEF CarriedNewer, OneCarried
  <1>12. QueuesSorted'
    BY <1>5, <1>9, <1>10 DEF QueuesSorted
  <1>13. ShownBefore'
    <2>1. ASSUME NEW k \in 1..Len(clients), NEW j \in 1..Len(shown[clients[k].id])
          PROVE  shown[clients[k].id][j] < Due(k)'
      <3>1. clients[k].id \in Ids /\ shown \in [Ids -> Seq(Nat)] /\ k \in Nat
        BY <1>0, QueueType DEF TypeOK, SubTypeOK, ServerTypeOK
      <3>2. shown[clients[k].id][j] \in Nat /\ shown[clients[k].id][j] < Due(k)
        BY <1>0, <2>1, <3>1 DEF InLine, ShownBefore
      <3>3. Due(k) \in Nat /\ Due(k)' \in Nat /\ Due(k) <= Due(k)'
        BY <1>0, <1>2, <1>3, <3>1, DueType DEF Due, ServerTypeOK
      <3> QED BY <3>2, <3>3
    <2>2. \A i \in Ids : \A j \in 1..Len(shown[i]) : shown[i][j] <= Taken
      BY <1>0 DEF InLine, ShownBefore
    <2> QED BY <1>1, <1>3, <1>5, <1>6, <2>1, <2>2 DEF ShownBefore
  <1>14. Older'
    <2> SUFFICES ASSUME NEW k \in 1..Len(clients), NEW m \in 1..Len(clients'[k].queue),
                        NEW j \in 1..Len(shown[clients'[k].id])
                 PROVE  shown[clients'[k].id][j] < clients'[k].queue[m]
      BY <1>1, <1>5 DEF Older
    <2>1. clients'[k].id = clients[k].id
      BY <1>6
    <2>2. j \in 1..Len(shown[clients[k].id])
      BY <2>1
    <2> QED BY <1>10, <2>1, <2>2
  <1>15. InOrder'
    BY <1>0, <1>1 DEF InLine, InOrder
  <1>16. Named' /\ Away'
    BY <1>0, <1>1, <1>5, <1>6 DEF Named, Away
  <1>17. InLine'
    BY <1>11, <1>12, <1>13, <1>14, <1>15 DEF InLine
  <1> QED BY <1>0, <1>3, <1>11, <1>16, <1>17, PartsLater

\* Every step of the server.
LEMMA ServerSequence ==
  ASSUME Settled, TypeOK', ServerRuns
  PROVE  InSequence'
  <1>0. ServerStep /\ UNCHANGED subVars
    BY DEF ServerRuns
  <1>1. ASSUME Die, pc \notin Ended PROVE InSequence'
    BY <1>0, <1>1, EndSequence DEF Die, Ended
  <1>2. CASE Select
    BY <1>0, <1>2, QuietWalk
  <1>3. CASE Accepting
    <2>1. ASSUME NEW p \in Conns, AcceptConnection(p) PROVE InSequence'
      BY <1>0, <2>1, AcceptSequence
    <2> QED BY <1>1, <1>3, <2>1 DEF Accepting, AcceptFails, Turn, Ended
  <1>4. CASE Identifying
    <2>1. PICK p \in Conns :
            \/ NewClient(p) \/ RefuseClient(p) \/ ReturnClient(p)
            \/ NoIdentity(p) \/ IdentityUnrefusable(p)
      BY <1>4 DEF Identifying
    <2>2. CASE NewClient(p)
      BY <1>0, <2>2, NewClientSequence
    <2>3. CASE RefuseClient(p)
      BY <1>0, <2>3, RefuseSequence
    <2>4. CASE ReturnClient(p)
      BY <1>0, <2>4, ReturnSequence
    <2>5. CASE NoIdentity(p) \/ IdentityUnrefusable(p)
      BY <1>1, <2>5 DEF NoIdentity, IdentityUnrefusable, Answering, Ended
    <2> QED BY <2>1, <2>2, <2>3, <2>4, <2>5
  <1>5. CASE Draining
    <2>1. CASE SendQueued
      BY <1>0, <2>1, QueuedSequence
    <2>2. CASE AckQueued
      BY <1>0, <2>2, AckSequence
    <2>3. CASE QueueEmptied
      BY <1>0, <2>3, QuietWalk
    <2>4. CASE SendQueuedFails
      BY <1>1, <2>4 DEF SendQueuedFails, Ended
    <2> QED BY <1>5, <2>1, <2>2, <2>3, <2>4 DEF Draining
  <1>6. CASE Forwarding
    <2>1. CASE ReceiveDatagram
      BY <1>0, <2>1, DatagramSequence
    <2>2. CASE Enqueue
      BY <1>0, <2>2, EnqueueSequence
    <2>3. CASE Forward
      BY <1>0, <2>3, ForwardSequence
    <2>4. CASE AckForward
      BY <1>0, <2>4, AckSequence
    <2>5. CASE Skip \/ Forwarded
      BY <1>0, <2>5, QuietWalk
    <2>6. CASE ReceiveMalformed \/ ForwardFails
      BY <1>1, <2>6 DEF ReceiveMalformed, Turn, ForwardFails, ToSend, Visiting, Ended
    <2> QED BY <1>6, <2>1, <2>2, <2>3, <2>4, <2>5, <2>6 DEF Forwarding
  <1>7. CASE Leaving
    <2>1. CASE ReceiveExit \/ SayBye
      BY <1>0, <2>1, QuietWalk
    <2>2. CASE AckBye
      BY <1>0, <2>2, FarewellSequence
    <2>3. CASE ByeFails
      BY <1>1, <2>3 DEF ByeFails, Ended
    <2>4. CASE Stop
      <3>1. pc = "bye" /\ Terminate("stopped")
        BY <2>4 DEF Stop
      <3> QED BY <1>0, <3>1, EndSequence DEF Ended
    <2> QED BY <1>7, <2>1, <2>2, <2>3, <2>4 DEF Leaving
  <1>8. CASE LackAck
    BY <1>1, <1>8 DEF LackAck, AckWaits, Ended
  <1>9. CASE Commands
    <2>1. PICK i \in Fds, k \in 1..Len(clients) :
            ManageCommand(i, k) \/ ManageExit(i, k) \/ ResponseFails(i, k) \/ Corrupt(i, k)
      BY <1>9 DEF Commands
    <2>2. CASE ManageCommand(i, k) \/ ManageExit(i, k)
      BY <1>0, <2>2, CommandSequence
    <2>3. CASE ResponseFails(i, k) \/ Corrupt(i, k)
      BY <1>1, <2>3 DEF ResponseFails, Corrupt, Commanding, Turn, Ended
    <2> QED BY <2>1, <2>2, <2>3
  <1> QED BY <1>0, <1>2, <1>3, <1>4, <1>5, <1>6, <1>7, <1>8, <1>9 DEF ServerStep

\* Every step of the system.
LEMMA NextSequence == Settled /\ [Next]_vars => InSequence'
  <1> SUFFICES ASSUME Settled, [Next]_vars PROVE InSequence'
    OBVIOUS
  <1>1. TypeOK'
    BY NextBookkeeping DEF Settled, Bookkeeping
  <1>2. CASE ServerRuns
    BY <1>1, <1>2, ServerSequence
  <1>3. CASE \E p \in Conns : ProcessRuns(p)
    BY <1>1, <1>3, ProcessSequence
  <1>4. CASE Environment
    BY <1>1, <1>4, EnvironmentSequence
  <1>5. CASE UNCHANGED vars
    <2>1. UNCHANGED <<pc, clients, file, srvEnd, c2s, s2c, shown, at, cur, udp, pub>>
      BY <1>5 DEF vars, wireVars, serverVars, setVars, subVars, inputVars
    <2>2. Taken' = Taken /\ \A k : Due(k)' = Due(k)
      BY <2>1 DEF Taken, Due, Undecided
    <2>3. \A p : Carrying(p)' = Carrying(p)
      BY <2>1 DEF Carrying
    <2>4. Named' /\ Numbered' /\ OneCarried'
      BY <2>1, <2>2, <2>3 DEF Settled, InSequence, Named, Numbered, OneCarried
    <2>5. CarriedNewer' /\ QueuesSorted'
      BY <2>1, <2>2, <2>3 DEF Settled, InSequence, CarriedNewer, QueuesSorted
    <2>6. ShownBefore' /\ QueueNewer' /\ InOrder'
      BY <2>1, <2>2 DEF Settled, InSequence, ShownBefore, QueueNewer, InOrder
    <2> QED BY <2>4, <2>5, <2>6 DEF InSequence
  <1> QED BY <1>2, <1>3, <1>4, <1>5 DEF Next

\* Nothing has been published, queued or shown at the start.
LEMMA InitSequence == Init => InSequence
  <1> SUFFICES ASSUME Init PROVE InSequence
    OBVIOUS
  <1>1. /\ pc = "loop" /\ clients = << >> /\ udp = << >> /\ pub = << >>
        /\ \A p \in Conns : c2s[p] = << >> /\ s2c[p] = << >>
        /\ \A i \in Ids : shown[i] = << >>
    BY DEF Init, WireInit, SubInit, ServerInit
  <1>2. ASSUME NEW p \in Conns PROVE Carrying(p) = {}
    <2>1. 1..Len(s2c[p]) = {}
      BY <1>1
    <2> QED BY <2>1 DEF Carrying
  <1>3. Taken = 0
    BY <1>1 DEF Taken
  <1>4. Named /\ Numbered /\ OneCarried /\ CarriedNewer
    BY <1>1, <1>2, <1>3 DEF Named, Numbered, OneCarried, CarriedNewer
  <1>5. QueuesSorted /\ ShownBefore /\ QueueNewer /\ InOrder
    BY <1>1 DEF QueuesSorted, ShownBefore, QueueNewer, InOrder
  <1> QED BY <1>4, <1>5 DEF InSequence

-----------------------------------------------------------------------------
\* The theorems.

\* What a user has been shown, what is under way, what is queued and what the
\* walk has yet to decide are in the order in which the datagrams came, for any
\* number of clients, connections and messages, whatever is killed.
THEOREM StaysInSequence == Spec => []InSequence
  <1>1. Init => InSequence
    BY InitSequence
  <1>2. Bookkeeping /\ InStep /\ InSequence /\ [Next]_vars => InSequence'
    BY NextSequence DEF Settled
  <1>3. Spec => []Bookkeeping
    BY BooksInOrder
  <1>4. Spec => []InStep
    BY StaysInStep
  <1> QED BY <1>1, <1>2, <1>3, <1>4, PTL DEF Spec

\* No user is ever shown a message twice, nor after a later one: neither the
\* queue of an absence nor a process that comes back disturbs the order.
THEOREM ShownInOrder == Spec => []InOrder
  <1>1. InSequence => InOrder
    BY DEF InSequence
  <1> QED BY <1>1, StaysInSequence, PTL

\* Nothing in a client's queue has been shown to its user before, by whichever
\* of its processes.
THEOREM QueuesNewer == Spec => []QueueNewer
  <1>1. InSequence => QueueNewer
    BY DEF InSequence
  <1> QED BY <1>1, StaysInSequence, PTL
=============================================================================
