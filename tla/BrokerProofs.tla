---------------------------- MODULE BrokerProofs ----------------------------
(***************************************************************************)
(* Proofs about Broker: type correctness, and the server's descriptor      *)
(* bookkeeping, for any number of processes, identifiers, topics and       *)
(* descriptors.                                                            *)
(***************************************************************************)
EXTENDS Broker, WellFoundedInduction, TLAPS

-----------------------------------------------------------------------------
\* Sequences and channels.

\* What is left of a sequence after its first k elements is a sequence.
LEMMA SuffixType ==
  ASSUME NEW S, NEW s \in Seq(S), NEW k \in 1..Len(s)
  PROVE  SubSeq(s, k + 1, Len(s)) \in Seq(S)
  OBVIOUS

\* A sequence with one element replaced.
LEMMA ReplaceType ==
  ASSUME NEW S, NEW s \in Seq(S), NEW k \in 1..Len(s), NEW e \in S
  PROVE  /\ [s EXCEPT ![k] = e] \in Seq(S)
         /\ Len([s EXCEPT ![k] = e]) = Len(s)
  OBVIOUS

\* recv() on either end leaves well-typed channels.
LEMMA RecvType ==
  ASSUME WireTypeOK, NEW p \in Conns
  PROVE  /\ \A c \in AfterServerRecv(p) : c \in [Conns -> Seq(C2S)]
         /\ \A c \in AfterClientRecv(p) : c \in [Conns -> Seq(S2C)]
         /\ s2c[p] # << >> => AfterClientRecvOne(p) \in [Conns -> Seq(S2C)]
  <1>1. c2s[p] \in Seq(C2S) /\ s2c[p] \in Seq(S2C)
    BY DEF WireTypeOK
  <1>2. ASSUME NEW c \in AfterServerRecv(p) PROVE c \in [Conns -> Seq(C2S)]
    <2>1. CASE c2s[p] = << >>
      BY <1>2, <2>1 DEF AfterServerRecv, WireTypeOK
    <2>2. CASE c2s[p] # << >>
      <3>1. PICK k \in 1..Len(c2s[p]) : c = [c2s EXCEPT ![p] = SubSeq(@, k + 1, Len(@))]
        BY <1>2, <2>2 DEF AfterServerRecv
      <3>2. SubSeq(c2s[p], k + 1, Len(c2s[p])) \in Seq(C2S)
        BY <1>1, SuffixType
      <3> QED BY <3>1, <3>2 DEF WireTypeOK
    <2> QED BY <2>1, <2>2
  <1>3. ASSUME NEW c \in AfterClientRecv(p) PROVE c \in [Conns -> Seq(S2C)]
    <2>1. CASE s2c[p] = << >>
      BY <1>3, <2>1 DEF AfterClientRecv, WireTypeOK
    <2>2. CASE s2c[p] # << >>
      <3>1. PICK k \in 1..Len(s2c[p]) : c = [s2c EXCEPT ![p] = SubSeq(@, k + 1, Len(@))]
        BY <1>3, <2>2 DEF AfterClientRecv
      <3>2. SubSeq(s2c[p], k + 1, Len(s2c[p])) \in Seq(S2C)
        BY <1>1, SuffixType
      <3> QED BY <3>1, <3>2 DEF WireTypeOK
    <2> QED BY <2>1, <2>2
  <1>4. ASSUME s2c[p] # << >> PROVE AfterClientRecvOne(p) \in [Conns -> Seq(S2C)]
    <2>1. 1 \in 1..Len(s2c[p])
      BY <1>1, <1>4
    <2>2. SubSeq(s2c[p], 1 + 1, Len(s2c[p])) \in Seq(S2C)
      BY <1>1, <2>1, SuffixType
    <2>3. SubSeq(s2c[p], 2, Len(s2c[p])) \in Seq(S2C)
      BY <2>2
    <2> QED BY <2>3 DEF AfterClientRecvOne, WireTypeOK
  <1> QED BY <1>2, <1>3, <1>4

\* send() by either program leaves well-typed channels, whoever the peer is.
LEMMA SendType ==
  ASSUME WireTypeOK, NEW p
  PROVE  /\ \A m \in C2S : ToServer(p, m) \in [Conns -> Seq(C2S)]
         /\ \A m \in S2C : ToClient(p, m) \in [Conns -> Seq(S2C)]
  <1>1. ASSUME NEW m \in C2S PROVE ToServer(p, m) \in [Conns -> Seq(C2S)]
    <2>1. CASE p \in Conns
      <3>1. Append(c2s[p], m) \in Seq(C2S)
        BY <2>1 DEF WireTypeOK
      <3> QED BY <3>1 DEF WireTypeOK, ToServer
    <2>2. CASE p \notin Conns
      BY <2>2 DEF WireTypeOK, ToServer
    <2> QED BY <2>1, <2>2
  <1>2. ASSUME NEW m \in S2C PROVE ToClient(p, m) \in [Conns -> Seq(S2C)]
    <2>1. CASE p \in Conns
      <3>1. Append(s2c[p], m) \in Seq(S2C)
        BY <2>1 DEF WireTypeOK
      <3> QED BY <3>1 DEF WireTypeOK, ToClient
    <2>2. CASE p \notin Conns
      BY <2>2 DEF WireTypeOK, ToClient
    <2> QED BY <2>1, <2>2
  <1> QED BY <1>1, <1>2

\* The headers the programs build, and those they may find.
LEMMA HeaderType ==
  ASSUME WireTypeOK, NEW p \in Conns
  PROVE  /\ Incoming(p) \in C2S
         /\ Arrived(p) \in S2C
         /\ \A type \in 0..6 : Control(type) \in S2C
         /\ \A n \in Nat : Publication(n) \in S2C
         /\ \A id \in Ids : IdReply(id) \in C2S
         /\ \A type \in {0, 1, 3, 4}, topic \in Topics \cup {NoTopic}, sf \in {0, 1} :
              Command(type, topic, sf) \in C2S
  <1>1. c2s[p] \in Seq(C2S) /\ s2c[p] \in Seq(S2C)
    BY DEF WireTypeOK
  <1>2. \A type \in {0, 1, 3, 4}, topic \in Topics \cup {NoTopic}, sf \in {0, 1} :
          Command(type, topic, sf) \in C2S
    BY WireAssumption DEF Command, ID_REPLY, C2S
  <1>3. \A type \in 0..6 : Control(type) \in S2C
    BY DEF Control, S2C
  <1>4. ZeroC2S \in C2S /\ ZeroS2C \in S2C
    BY <1>2, <1>3 DEF ZeroC2S, ZeroS2C
  <1>5. Incoming(p) \in C2S /\ Arrived(p) \in S2C
    BY <1>1, <1>4 DEF Incoming, Arrived
  <1>6. \A n \in Nat : Publication(n) \in S2C
    BY DEF Publication, DATA, S2C
  <1>7. \A id \in Ids : IdReply(id) \in C2S
    BY DEF IdReply, ID_REPLY, C2S
  <1> QED BY <1>2, <1>3, <1>5, <1>6, <1>7

-----------------------------------------------------------------------------
\* Subscriber processes and their users.

\* Ending a process keeps its side of the state well typed.
LEMMA QuitType ==
  ASSUME WireTypeOK, SubTypeOK, NEW p \in Conns, NEW how \in {"done", "died"},
         NEW channel \in [Conns -> Seq(S2C)], Quit(p, how, channel)
  PROVE  /\ s2c' \in [Conns -> Seq(S2C)]
         /\ cliEnd' \in [Conns -> {"none", "open", "closed"}]
         /\ spc' \in [Conns -> {"off", "loop", "done", "died"} \cup Waiting]
  BY DEF Quit, WireTypeOK, SubTypeOK

\* Printing a publication keeps the record of what was printed well typed.
LEMMA ShowType ==
  ASSUME SubTypeOK, NEW p \in Conns, NEW n \in Nat
  PROVE  Show(p, n) \in [Ids -> Seq(Nat)]
  <1>1. IdOf[p] \in Ids
    BY IdOfAssumption
  <1>2. shown[IdOf[p]] \in Seq(Nat)
    BY <1>1 DEF SubTypeOK
  <1>3. Append(shown[IdOf[p]], n) \in Seq(Nat)
    BY <1>2
  <1> QED BY <1>3 DEF Show, SubTypeOK

\* Nothing a subscriber program does takes it out of its types.
LEMMA SubscriberType ==
  ASSUME WireTypeOK, SubTypeOK, NEW p \in Conns, SubscriberStep(p)
  PROVE  WireTypeOK' /\ SubTypeOK'
  <1> USE HeaderType, RecvType, SendType
  <1>a. Command(ACK, NoTopic, 0) \in C2S /\ IdReply(IdOf[p]) \in C2S
    BY IdOfAssumption DEF ACK
  <1>b. ToServer(p, Command(ACK, NoTopic, 0)) \in [Conns -> Seq(C2S)]
    BY <1>a
  <1>c. Arrived(p).n \in Nat /\ ZeroS2C.n \in Nat
    BY DEF S2C, ZeroS2C, Control
  <1>d. /\ Show(p, Arrived(p).n) \in [Ids -> Seq(Nat)]
        /\ Show(p, ZeroS2C.n) \in [Ids -> Seq(Nat)]
    BY <1>c, ShowType
  <1>1. CASE SendId(p)
    <2>1. ToServer(p, IdReply(IdOf[p])) \in [Conns -> Seq(C2S)]
      BY <1>a
    <2> QED BY <1>1, <2>1 DEF SendId, WireTypeOK, SubTypeOK, Waiting
  <1>2. CASE Answered(p)
    <2>1. s2c[p] # << >>
      BY <1>2 DEF Answered, Arrived, ZeroS2C, Control, RESPONSE
    <2> QED BY <1>2, <2>1 DEF Answered, WireTypeOK, SubTypeOK, Waiting
  <1>3. CASE ExitAnswered(p)
    <2>1. Quit(p, "done", s2c) /\ UNCHANGED <<c2s, srvEnd, shown, typed>>
      BY <1>3 DEF ExitAnswered
    <2> QED BY <2>1, QuitType DEF WireTypeOK, SubTypeOK
  <1>4. CASE WrongHeader(p)
    <2>1. Quit(p, "died", s2c) /\ UNCHANGED <<c2s, srvEnd, shown, typed>>
      BY <1>4 DEF WrongHeader
    <2> QED BY <2>1, QuitType DEF WireTypeOK, SubTypeOK
  <1>5. CASE ReceiveData(p)
    <2>1. shown' \in [Ids -> Seq(Nat)]
      BY <1>5, <1>d DEF ReceiveData
    <2> QED BY <1>5, <1>b, <2>1 DEF ReceiveData, WireTypeOK, SubTypeOK
  <1>6. CASE ReceiveRefused(p)
    <2>1. Quit(p, "done", s2c) /\ UNCHANGED <<srvEnd, shown, typed>>
      BY <1>6 DEF ReceiveRefused
    <2>2. c2s' \in [Conns -> Seq(C2S)]
      BY <1>6, <1>b DEF ReceiveRefused
    <2> QED BY <2>1, <2>2, QuitType DEF WireTypeOK, SubTypeOK
  <1>7. CASE ReceiveEnd(p)
    <2>1. shown' \in [Ids -> Seq(Nat)]
      <3>1. shown' = shown \/ shown' = Show(p, ZeroS2C.n)
        BY <1>7, Zenon DEF ReceiveEnd
      <3>2. shown \in [Ids -> Seq(Nat)]
        BY DEF SubTypeOK
      <3> QED BY <3>1, <3>2, <1>d
    <2>2. UNCHANGED <<c2s, srvEnd, typed>>
      BY <1>7 DEF ReceiveEnd
    <2>3. CASE Quit(p, "died", s2c)
      BY <2>1, <2>2, <2>3, QuitType DEF WireTypeOK, SubTypeOK
    <2>4. CASE UNCHANGED <<spc, cliEnd, s2c>>
      BY <2>1, <2>2, <2>4 DEF WireTypeOK, SubTypeOK
    <2> QED BY <1>7, <2>3, <2>4 DEF ReceiveEnd
  <1> QED BY <1>1, <1>2, <1>3, <1>4, <1>5, <1>6, <1>7 DEF SubscriberStep

\* Nothing a user, a publisher or a signal does takes the system out of its
\* types.
LEMMA EnvironmentType ==
  ASSUME TypeOK, Environment
  PROVE  TypeOK'
  <1> USE HeaderType, SendType DEF TypeOK
  <1>1. ASSUME NEW p \in Conns, UserConnects(p) PROVE TypeOK'
    BY <1>1 DEF UserConnects, Connect, WireTypeOK, SubTypeOK, ServerTypeOK, Waiting,
                serverVars, setVars, inputVars
  <1>2. ASSUME NEW p \in Conns, UserTypes(p) PROVE TypeOK'
    <2>1. ServerTypeOK'
      BY <1>2 DEF UserTypes, ServerTypeOK, serverVars, setVars, inputVars
    <2>2. ASSUME NEW m \in C2S, NEW next \in Waiting, Type(p, m, next)
          PROVE  WireTypeOK' /\ SubTypeOK'
      <3>1. ToServer(p, m) \in [Conns -> Seq(C2S)]
        BY SendType
      <3>2. next \in {"off", "loop", "done", "died"} \cup Waiting
        OBVIOUS
      <3>3. WireTypeOK'
        BY <2>2, <3>1 DEF Type, WireTypeOK
      <3>4. SubTypeOK'
        BY <2>2, <3>2 DEF Type, SubTypeOK
      <3> QED BY <3>3, <3>4
    <2>3. PICK m \in Commanded :
            \/ TypeSubscribe(p, m.topic, m.sf)
            \/ TypeUnsubscribe(p, m.topic)
            \/ TypeExit(p)
      BY <1>2 DEF UserTypes
    <2>4. m \in C2S /\ m.topic \in Topics \cup {NoTopic} /\ m.sf \in {0, 1}
      BY BrokerAssumption DEF C2S
    <2>5. /\ Command(SUBSCRIBE, m.topic, m.sf) \in C2S
          /\ Command(UNSUBSCRIBE, m.topic, 0) \in C2S
          /\ Command(DISCONNECT, NoTopic, 0) \in C2S
      BY <2>4 DEF SUBSCRIBE, UNSUBSCRIBE, DISCONNECT, TypeOK
    <2>6. WireTypeOK' /\ SubTypeOK'
      BY <2>2, <2>3, <2>5 DEF TypeSubscribe, TypeUnsubscribe, TypeExit, Waiting
    <2> QED BY <2>1, <2>6
  <1>3. ASSUME NEW p \in Conns, Kill(p) PROVE TypeOK'
    <2>1. Quit(p, "died", s2c) /\ UNCHANGED <<c2s, srvEnd, shown, typed, serverVars>>
      BY <1>3 DEF Kill, Killed
    <2>2. WireTypeOK' /\ SubTypeOK'
      BY <2>1, QuitType DEF WireTypeOK, SubTypeOK
    <2> QED BY <2>1, <2>2 DEF ServerTypeOK, serverVars, setVars, inputVars
  <1>4. ASSUME NEW topic \in Topics, Publish(topic) PROVE TypeOK'
    BY <1>4 DEF Publish, WireTypeOK, SubTypeOK, ServerTypeOK, wireVars, subVars, setVars
  <1>5. CASE PublishMalformed
    BY <1>5 DEF PublishMalformed, WireTypeOK, SubTypeOK, ServerTypeOK, wireVars, subVars, setVars
  <1>6. CASE TypeServerExit
    BY <1>6 DEF TypeServerExit, WireTypeOK, SubTypeOK, ServerTypeOK, wireVars, subVars, setVars
  <1> QED BY <1>1, <1>2, <1>3, <1>4, <1>5, <1>6 DEF Environment

-----------------------------------------------------------------------------
\* Topic lists.

\* A non-empty set of naturals has a smallest element.
LEMMA Minimum ==
  ASSUME NEW S, S \subseteq Nat, S # {}
  PROVE  \E i \in S : \A j \in S : i <= j
  <1> DEFINE R == OpToRel(<, Nat)
  <1>1. IsWellFoundedOn(R, Nat)
    BY NatLessThanWellFounded
  <1>2. \A x, y \in Nat : x < y => <<x, y>> \in R
    BY DEF OpToRel
  <1> HIDE DEF R
  <1>3. PICK i \in S : \A j \in S : <<j, i>> \notin R
    BY <1>1, WFMin
  <1>4. ASSUME NEW j \in S PROVE i <= j
    <2>1. ~(j < i)
      BY <1>2, <1>3
    <2> QED BY <2>1
  <1> QED BY <1>4

\* First picks a member of the set it is given.
LEMMA FirstMember ==
  ASSUME NEW S, S \subseteq Nat, S # {}
  PROVE  First(S) \in S
  <1>1. \E i \in S : \A j \in S : i <= j
    BY Minimum
  <1> QED BY <1>1 DEF First

\* Subscribing and unsubscribing keep a list well formed: its tail names one
\* of its nodes or none.
LEMMA ListType ==
  ASSUME NEW list \in List
  PROVE  /\ \A topic : \A sf \in {0, 1} :
              Subscribed(list, topic) => SetSf(list, topic, sf) \in List
         /\ \A node \in Node : AddLast(list, node) \in List
         /\ \A k \in 1..Len(list.nodes), node \in Node : Grafts(list, k, node) \subseteq List
         /\ \A topic : Unsubscribe(list, topic) \in List
  <1>1. list.nodes \in Seq(Node) /\ list.tail \in Nat /\ list.tail <= Len(list.nodes)
    BY DEF List
  <1>a. \A nodes \in Seq(Node), tail \in Nat :
          tail <= Len(nodes) => [nodes |-> nodes, tail |-> tail] \in List
    BY DEF List
  <1>2. ASSUME NEW topic, NEW sf \in {0, 1}, Subscribed(list, topic)
        PROVE  SetSf(list, topic, sf) \in List
    <2> DEFINE k == First(Hits(list, topic))
               new == [list.nodes EXCEPT ![k] = [list.nodes[k] EXCEPT !.sf = sf]]
    <2>1. k \in 1..Len(list.nodes)
      <3>1. Hits(list, topic) \subseteq 1..Len(list.nodes)
        BY DEF Hits
      <3>2. Hits(list, topic) \subseteq Nat
        BY <3>1
      <3>3. Hits(list, topic) # {}
        BY <1>2 DEF Subscribed
      <3>4. k \in Hits(list, topic)
        BY <3>2, <3>3, FirstMember
      <3> QED BY <3>1, <3>4
    <2>0. SetSf(list, topic, sf) = [nodes |-> new, tail |-> list.tail]
      BY DEF SetSf, List
    <2> HIDE DEF k
    <2>2. [list.nodes[k] EXCEPT !.sf = sf] \in Node
      <3>1. list.nodes[k] \in Node
        BY <1>1, <2>1
      <3> QED BY <3>1 DEF Node
    <2>3. new \in Seq(Node) /\ Len(new) = Len(list.nodes)
      BY <1>1, <2>1, <2>2, ReplaceType
    <2> HIDE DEF new
    <2> QED BY <1>1, <1>a, <2>0, <2>3
  <1>3. ASSUME NEW node \in Node, NEW k \in 0..Len(list.nodes)
        PROVE  /\ Append(SubSeq(list.nodes, 1, k), node) \in Seq(Node)
               /\ Len(Append(SubSeq(list.nodes, 1, k), node)) = k + 1
    BY <1>1
  <1>4. ASSUME NEW node \in Node PROVE AddLast(list, node) \in List
    <2>1. list.tail \in 0..Len(list.nodes)
      BY <1>1
    <2> DEFINE new == Append(SubSeq(list.nodes, 1, list.tail), node)
    <2>2. new \in Seq(Node) /\ Len(new) = list.tail + 1
      BY <1>3, <2>1
    <2>3. AddLast(list, node) = [nodes |-> new, tail |-> list.tail + 1]
      BY DEF AddLast
    <2> HIDE DEF new
    <2>4. list.tail + 1 \in Nat /\ list.tail + 1 <= Len(new)
      BY <1>1, <2>2
    <2> QED BY <1>a, <2>2, <2>3, <2>4
  <1>5. ASSUME NEW k \in 1..Len(list.nodes), NEW node \in Node
        PROVE  Grafts(list, k, node) \subseteq List
    <2>1. k \in 0..Len(list.nodes)
      BY <1>1
    <2> DEFINE new == Append(SubSeq(list.nodes, 1, k), node)
    <2>2. new \in Seq(Node) /\ Len(new) = k + 1
      BY <1>3, <2>1
    <2>3. ASSUME NEW l \in Grafts(list, k, node) PROVE l \in List
      <3>1. PICK t \in IF list.tail = 0 THEN {0, k + 1}
                       ELSE IF list.tail <= k THEN {list.tail} ELSE {0} :
              l = [nodes |-> new, tail |-> t]
        BY <2>3 DEF Grafts
      <3>2. t \in Nat /\ t <= k + 1
        BY <1>1, <2>1, <3>1
      <3> HIDE DEF new
      <3> QED BY <1>a, <2>2, <3>1, <3>2
    <2> QED BY <2>3
  <1>6. ASSUME NEW topic PROVE Unsubscribe(list, topic) \in List
    <2> DEFINE found == {i \in 1..Len(list.nodes) : MatchesExactly(list.nodes[i].topic, topic)}
               k == First(found)
               tail == IF list.tail = k THEN 0
                       ELSE IF list.tail > k THEN list.tail - 1 ELSE list.tail
    <2>1. CASE found = {}
      BY <2>1 DEF Unsubscribe
    <2>2. CASE found # {}
      <3>1. k \in 1..Len(list.nodes)
        <4>1. found \subseteq Nat
          OBVIOUS
        <4>2. k \in found
          BY <2>2, <4>1, FirstMember
        <4> QED BY <4>2
      <3>0. Unsubscribe(list, topic) = [nodes |-> Without(list.nodes, k), tail |-> tail]
        BY <2>2 DEF Unsubscribe
      <3> HIDE DEF k
      <3>2. /\ Without(list.nodes, k) \in Seq(Node)
            /\ Len(Without(list.nodes, k)) = Len(list.nodes) - 1
        BY <1>1, <3>1 DEF Without
      <3>3. tail \in Nat /\ tail <= Len(list.nodes) - 1
        BY <1>1, <3>1
      <3> HIDE DEF tail
      <3> QED BY <1>a, <3>0, <3>2, <3>3
    <2> QED BY <2>1, <2>2
  <1> QED BY <1>2, <1>4, <1>5, <1>6

\* Appending to one of several lists keeps them all well formed.
LEMMA AppendedType ==
  ASSUME NEW D, NEW lists \in [D -> List], NEW i \in D, NEW node \in Node,
         NEW new \in Appended(lists, i, node)
  PROVE  new \in [D -> List]
  <1>1. CASE ~Dangling(lists[i])
    <2>1. new = [lists EXCEPT ![i] = AddLast(lists[i], node)]
      BY <1>1 DEF Appended
    <2>2. AddLast(lists[i], node) \in List
      BY ListType
    <2> QED BY <2>1, <2>2
  <1>2. CASE Dangling(lists[i])
    <2>1. \/ new = lists
          \/ \E j \in D \ {i} : \E k \in 1..Len(lists[j].nodes) :
               \E l \in Grafts(lists[j], k, node) : new = [lists EXCEPT ![j] = l]
      BY <1>2 DEF Appended
    <2>2. ASSUME NEW j \in D \ {i}, NEW k \in 1..Len(lists[j].nodes),
                 NEW l \in Grafts(lists[j], k, node)
          PROVE  l \in List
      <3>1. lists[j] \in List
        OBVIOUS
      <3>2. Grafts(lists[j], k, node) \subseteq List
        BY <3>1, ListType
      <3> QED BY <3>2
    <2> QED BY <2>1, <2>2
  <1> QED BY <1>1, <1>2

-----------------------------------------------------------------------------
\* The server's clients.

\* A client with one field replaced is a client.
LEMMA ClientType ==
  ASSUME ServerTypeOK, NEW k \in 1..Len(clients)
  PROVE  /\ clients[k] \in Client
         /\ \A l \in List : /\ [clients EXCEPT ![k].subs = l] \in Seq(Client)
                           /\ Len([clients EXCEPT ![k].subs = l]) = Len(clients)
         /\ \A q \in Seq(Nat) : /\ [clients EXCEPT ![k].queue = q] \in Seq(Client)
                               /\ Len([clients EXCEPT ![k].queue = q]) = Len(clients)
         /\ \A i \in Fds \cup {-1} : \A b \in BOOLEAN :
              /\ [clients EXCEPT ![k].sock = i, ![k].online = b] \in Seq(Client)
              /\ Len([clients EXCEPT ![k].sock = i, ![k].online = b]) = Len(clients)
  <1>1. clients \in Seq(Client) /\ clients[k] \in Client
    BY DEF ServerTypeOK
  <1>2. ASSUME NEW l \in List
        PROVE  /\ [clients EXCEPT ![k].subs = l] \in Seq(Client)
               /\ Len([clients EXCEPT ![k].subs = l]) = Len(clients)
    <2>1. [clients[k] EXCEPT !.subs = l] \in Client
      BY <1>1 DEF Client
    <2> QED BY <1>1, <2>1, ReplaceType
  <1>3. ASSUME NEW q \in Seq(Nat)
        PROVE  /\ [clients EXCEPT ![k].queue = q] \in Seq(Client)
               /\ Len([clients EXCEPT ![k].queue = q]) = Len(clients)
    <2>1. [clients[k] EXCEPT !.queue = q] \in Client
      BY <1>1 DEF Client
    <2> QED BY <1>1, <2>1, ReplaceType
  <1>4. ASSUME NEW i \in Fds \cup {-1}, NEW b \in BOOLEAN
        PROVE  /\ [clients EXCEPT ![k].sock = i, ![k].online = b] \in Seq(Client)
               /\ Len([clients EXCEPT ![k].sock = i, ![k].online = b]) = Len(clients)
    <2> DEFINE e == [clients[k] EXCEPT !.sock = i, !.online = b]
    <2>1. e \in Client
      BY <1>1 DEF Client
    <2>2. [clients EXCEPT ![k].sock = i, ![k].online = b] = [clients EXCEPT ![k] = e]
      BY <1>1
    <2> QED BY <1>1, <2>1, <2>2, ReplaceType
  <1> QED BY <1>1, <1>2, <1>3, <1>4

\* The same clients, on the same sockets.
SameClients(c) ==
  /\ Len(c) = Len(clients)
  /\ \A j \in 1..Len(clients) :
       c[j].id = clients[j].id /\ c[j].sock = clients[j].sock /\ c[j].online = clients[j].online

\* A client's list and its queue are no concern of the others.
LEMMA SameType ==
  ASSUME ServerTypeOK, NEW k \in 1..Len(clients)
  PROVE  /\ \A l \in List : SameClients([clients EXCEPT ![k].subs = l])
         /\ \A q \in Seq(Nat) : SameClients([clients EXCEPT ![k].queue = q])
  <1>1. clients \in Seq(Client) /\ clients[k] \in Client
    BY DEF ServerTypeOK
  <1>2. ASSUME NEW l \in List PROVE SameClients([clients EXCEPT ![k].subs = l])
    <2>1. Len([clients EXCEPT ![k].subs = l]) = Len(clients)
      BY ClientType
    <2>2. ASSUME NEW j \in 1..Len(clients)
          PROVE  /\ [clients EXCEPT ![k].subs = l][j].id = clients[j].id
                 /\ [clients EXCEPT ![k].subs = l][j].sock = clients[j].sock
                 /\ [clients EXCEPT ![k].subs = l][j].online = clients[j].online
      BY <1>1 DEF Client
    <2> QED BY <2>1, <2>2 DEF SameClients
  <1>3. ASSUME NEW q \in Seq(Nat) PROVE SameClients([clients EXCEPT ![k].queue = q])
    <2>1. Len([clients EXCEPT ![k].queue = q]) = Len(clients)
      BY ClientType
    <2>2. ASSUME NEW j \in 1..Len(clients)
          PROVE  /\ [clients EXCEPT ![k].queue = q][j].id = clients[j].id
                 /\ [clients EXCEPT ![k].queue = q][j].sock = clients[j].sock
                 /\ [clients EXCEPT ![k].queue = q][j].online = clients[j].online
      BY <1>1 DEF Client
    <2> QED BY <2>1, <2>2 DEF SameClients
  <1> QED BY <1>2, <1>3

\* The clients with all their lists replaced.
LEMMA RelistType ==
  ASSUME ServerTypeOK, NEW new, \A j \in 1..Len(clients) : new[j] \in List
  PROVE  LET c == [j \in 1..Len(clients) |-> [clients[j] EXCEPT !.subs = new[j]]]
         IN c \in Seq(Client) /\ SameClients(c)
  <1> DEFINE c == [j \in 1..Len(clients) |-> [clients[j] EXCEPT !.subs = new[j]]]
  <1>0. Len(clients) \in Nat
    BY DEF ServerTypeOK
  <1>1. ASSUME NEW j \in 1..Len(clients)
        PROVE  /\ c[j] \in Client
               /\ c[j].id = clients[j].id
               /\ c[j].sock = clients[j].sock
               /\ c[j].online = clients[j].online
    <2>1. clients[j] \in Client
      BY ClientType
    <2>2. c[j] = [clients[j] EXCEPT !.subs = new[j]]
      OBVIOUS
    <2> QED BY <2>1, <2>2 DEF Client
  <1>2. c \in [1..Len(clients) -> Client]
    BY <1>1
  <1> HIDE DEF c
  <1>3. c \in Seq(Client) /\ Len(c) = Len(clients)
    BY <1>0, <1>1, <1>2
  <1>4. SameClients(c)
    BY <1>1, <1>3 DEF SameClients
  <1> QED BY <1>3, <1>4 DEF c

\* Whatever a command does to the clients, they stay well typed and the same
\* but for their lists.
LEMMA CommandType ==
  ASSUME ServerTypeOK, NEW k \in 1..Len(clients), NEW m \in C2S,
         NEW c \in AfterCommand(k, m)
  PROVE  c \in Seq(Client) /\ SameClients(c)
  <1> DEFINE Good(d) == d \in Seq(Client) /\ SameClients(d)
             node == [topic |-> m.topic, sf |-> m.sf]
  <1>1. Good(clients)
    BY DEF ServerTypeOK, SameClients
  <1>2. clients[k].subs \in List
    BY ClientType DEF Client
  <1>3. m.topic \in Topics \cup {NoTopic} /\ m.sf \in {0, 1} /\ node \in Node
    BY DEF C2S, Node
  <1>4. \A l \in List : Good([clients EXCEPT ![k].subs = l])
    BY ClientType, SameType
  <1>5. ASSUME c \in AfterSubscribe(k, m.topic, m.sf) PROVE Good(c)
    <2>1. CASE Subscribed(clients[k].subs, m.topic)
      <3>1. c = [clients EXCEPT ![k].subs = SetSf(clients[k].subs, m.topic, m.sf)]
        BY <1>5, <2>1 DEF AfterSubscribe
      <3>2. SetSf(clients[k].subs, m.topic, m.sf) \in List
        BY <1>2, <1>3, <2>1, ListType
      <3> QED BY <1>4, <3>1, <3>2
    <2>2. CASE ~Subscribed(clients[k].subs, m.topic)
      <3> DEFINE lists == [j \in 1..Len(clients) |-> clients[j].subs]
      <3>1. lists \in [1..Len(clients) -> List]
        BY ClientType DEF Client
      <3>2. PICK new \in Appended(lists, k, node) :
              c = [j \in 1..Len(clients) |-> [clients[j] EXCEPT !.subs = new[j]]]
        BY <1>5, <2>2 DEF AfterSubscribe
      <3>a. node \in Node
        BY <1>3
      <3> HIDE DEF lists, node
      <3>3. new \in [1..Len(clients) -> List]
        BY <3>a, <3>1, <3>2, AppendedType, Zenon
      <3>4. \A j \in 1..Len(clients) : new[j] \in List
        BY <3>3
      <3> QED BY <3>2, <3>4, RelistType
    <2> QED BY <2>1, <2>2
  <1>6. ASSUME c \in AfterUnsubscribe(k, m.topic) PROVE Good(c)
    <2>1. c = [clients EXCEPT ![k].subs = Unsubscribe(clients[k].subs, m.topic)]
      BY <1>6 DEF AfterUnsubscribe
    <2>2. Unsubscribe(clients[k].subs, m.topic) \in List
      BY <1>2, ListType
    <2> QED BY <1>4, <2>1, <2>2
  <1> QED BY <1>1, <1>5, <1>6 DEF AfterCommand

-----------------------------------------------------------------------------
\* The server's steps preserve what Bookkeeping says of the server.
Kept == WireTypeOK /\ ServerTypeOK /\ Placed /\ DescriptorsBelow /\ FdmaxCovers

\* close() leaves well-typed tables, and one descriptor less in use.
LEMMA CloseType ==
  ASSUME WireTypeOK, ServerTypeOK, NEW i, CloseFd(i)
  PROVE  /\ file' \in [Fds -> Conns \cup {NoConn}]
         /\ srvEnd' \in [Conns -> {"none", "backlog", "open", "closed"}]
         /\ \A j \in Fds : file'[j] # NoConn => file[j] # NoConn /\ j # i
  BY DEF CloseFd, WireTypeOK, ServerTypeOK

\* The end of the process.
LEMMA TerminateKeeps ==
  ASSUME Kept, NEW how \in Ended, Terminate(how), how = "stopped" => pc = "bye"
  PROVE  Kept'
  <1>1. WireTypeOK'
    BY DEF Kept, Terminate, WireTypeOK
  <1>2. ServerTypeOK'
    BY DEF Kept, Terminate, ServerTypeOK, setVars, inputVars, Ended
  <1>3. Placed'
    BY DEF Kept, Terminate, Placed, Ended, AckWaits, setVars
  <1>4. DescriptorsBelow' /\ FdmaxCovers'
    BY DEF Kept, Terminate, DescriptorsBelow, FdmaxCovers, Unregistered, Ended, setVars
  <1> QED BY <1>1, <1>2, <1>3, <1>4 DEF Kept

\* select() only fills tmp_fds.
LEMMA SelectKeeps ==
  ASSUME Kept, Select
  PROVE  Kept'
  <1>1. WireTypeOK'
    BY DEF Kept, Select, WireTypeOK, wireVars
  <1>2. ServerTypeOK'
    BY DEF Kept, Select, ServerTypeOK, ReadySet, inputVars
  <1>3. Placed' /\ DescriptorsBelow' /\ FdmaxCovers'
    BY DEF Kept, Select, Placed, DescriptorsBelow, FdmaxCovers, Unregistered
  <1> QED BY <1>1, <1>2, <1>3 DEF Kept

\* accept() takes the lowest free descriptor, at most one above fdmax: the
\* one below it, if there is one, is in use.
LEMMA AcceptKeeps ==
  ASSUME Kept, NEW p \in Conns, AcceptConnection(p)
  PROVE  Kept'
  <1> USE DEF Kept
  <1>1. PICK i \in Fds : /\ IsLowestFree(i)
                        /\ new_sockfd' = i
                        /\ file' = [file EXCEPT ![i] = p]
    BY DEF AcceptConnection
  <1>2. /\ pc = "loop" /\ pc' = "await_id"
        /\ tmp_fds' = tmp_fds \ {TCP}
        /\ srvEnd' = [srvEnd EXCEPT ![p] = "open"]
        /\ s2c' = ToClient(p, Control(ID_REQUEST))
        /\ UNCHANGED <<c2s, cliEnd, clients, read_fds, fdmax, at, cur, udp, pub, malformed, stdin>>
    BY DEF AcceptConnection, Turn, Send, inputVars
  <1>3. WireTypeOK'
    <2>1. s2c' \in [Conns -> Seq(S2C)]
      <3>1. Control(ID_REQUEST) \in S2C
        BY HeaderType DEF ID_REQUEST
      <3> QED BY <1>2, <3>1, SendType
    <2> QED BY <1>2, <2>1 DEF WireTypeOK
  <1>4. ServerTypeOK'
    BY <1>1, <1>2 DEF ServerTypeOK
  <1>a. fdmax \in Nat /\ UDP <= fdmax
    BY DEF ServerTypeOK, DescriptorsBelow
  <1>b. \A j \in Fds : file[j] # NoConn => j <= fdmax
    BY <1>2 DEF DescriptorsBelow, Unregistered
  <1>c. i <= fdmax + 1
    <2>1. CASE i = FirstFd
      BY <1>a, <2>1 DEF FirstFd, UDP
    <2>2. CASE i # FirstFd
      <3>1. i - 1 \in Fds /\ i - 1 \in FirstFd..(i - 1)
        BY <2>2, ServerAssumption DEF Fds, FirstFd
      <3>2. file[i - 1] # NoConn
        BY <1>1, <3>1 DEF IsLowestFree
      <3> QED BY <1>a, <1>b, <3>1, <3>2, ServerAssumption DEF Fds
    <2> QED BY <2>1, <2>2
  <1>5. Placed'
    BY <1>1, <1>2, <1>c DEF Placed, AckWaits
  <1>6. DescriptorsBelow'
    <2>1. ASSUME NEW j \in Fds, file'[j] # NoConn
          PROVE  j <= fdmax' \/ (Unregistered(j)' /\ j <= fdmax' + 1)
      <3>1. CASE j = i
        BY <1>1, <1>2, <1>c, <3>1 DEF Unregistered
      <3>2. CASE j # i
        BY <1>1, <1>2, <1>b, <2>1, <3>2 DEF ServerTypeOK
      <3> QED BY <3>1, <3>2
    <2> QED BY <1>2, <1>a, <2>1 DEF DescriptorsBelow
  <1>7. FdmaxCovers'
    BY <1>2 DEF FdmaxCovers
  <1> QED BY <1>3, <1>4, <1>5, <1>6, <1>7

\* FD_SET and (*fdmax)++: the new socket was at most one above fdmax.
LEMMA RegisterKeeps ==
  ASSUME Kept, pc \in {"await_id", "drain"}, Register(new_sockfd),
         c2s' \in [Conns -> Seq(C2S)], clients' \in Seq(Client), at' \in Nat,
         UNCHANGED <<s2c, cliEnd, srvEnd, file, tmp_fds, cur, udp, pub, malformed, stdin>>
  PROVE  Kept'
  <1> USE DEF Kept
  <1>1. /\ read_fds' = read_fds \cup {new_sockfd}
        /\ fdmax' = fdmax + 1 /\ new_sockfd' = 0 /\ pc' = "loop"
    BY DEF Register
  <1>2. new_sockfd \in Fds /\ new_sockfd <= fdmax + 1 /\ fdmax \in Nat
    BY DEF Placed, ServerTypeOK
  <1>3. WireTypeOK' /\ ServerTypeOK'
    BY <1>1, <1>2 DEF WireTypeOK, ServerTypeOK
  <1>4. Placed'
    BY <1>1 DEF Placed, AckWaits
  <1>5. FdmaxCovers'
    <2>1. ASSUME NEW i \in read_fds' PROVE i <= fdmax'
      <3>1. CASE i = new_sockfd
        BY <1>1, <1>2, <3>1
      <3>2. CASE i # new_sockfd
        <4>1. i \in read_fds /\ i <= fdmax
          BY <1>1, <2>1, <3>2 DEF FdmaxCovers
        <4>2. i \in Int
          BY <4>1 DEF ServerTypeOK, STDIN, TCP, UDP, Fds
        <4> QED BY <1>1, <1>2, <4>1, <4>2
      <3> QED BY <3>1, <3>2
    <2> QED BY <2>1 DEF FdmaxCovers
  <1>6. DescriptorsBelow'
    <2>1. \A j \in Fds : file[j] # NoConn => j <= fdmax + 1
      BY <1>2 DEF DescriptorsBelow, Fds
    <2> QED BY <1>1, <1>2, <2>1 DEF DescriptorsBelow, UDP
  <1> QED BY <1>3, <1>4, <1>5, <1>6

\* The answer to the identifier request: a client is added, refused or
\* brought back.
LEMMA IdentifyKeeps ==
  ASSUME Kept, NEW p \in Conns, NewClient(p) \/ RefuseClient(p) \/ ReturnClient(p)
  PROVE  Kept'
  <1> USE DEF Kept
  <1>1. Identified(p)
    BY DEF NewClient, RefuseClient, ReturnClient
  <1>2. /\ pc = "await_id"
        /\ c2s' \in [Conns -> Seq(C2S)]
        /\ new_sockfd \in Fds /\ new_sockfd <= fdmax + 1
    <2>1. c2s' \in AfterServerRecv(p) /\ pc = "await_id"
      BY <1>1 DEF Identified, Answering
    <2> QED BY <2>1, RecvType DEF Placed
  <1>3. Incoming(p).id \in Ids
    <2>1. Incoming(p) \in C2S
      BY HeaderType
    <2>2. Incoming(p).type = ID_REPLY
      BY <1>1 DEF Identified
    <2> QED BY <2>1, <2>2 DEF C2S
  <1>4. CASE NewClient(p)
    <2> DEFINE new == [id |-> Incoming(p).id, subs |-> EmptyList,
                       sock |-> new_sockfd, online |-> TRUE, queue |-> << >>]
    <2>1. /\ clients' = Append(clients, new)
          /\ Register(new_sockfd)
          /\ UNCHANGED <<s2c, cliEnd, srvEnd, file, tmp_fds, at, cur, udp, pub, malformed, stdin>>
      BY <1>4 DEF NewClient, inputVars
    <2>2. new \in Client
      <3>1. EmptyList \in List
        BY DEF EmptyList, List
      <3> QED BY <1>2, <1>3, <3>1 DEF Client
    <2> HIDE DEF new
    <2>3. clients' \in Seq(Client)
      BY <2>1, <2>2 DEF ServerTypeOK
    <2>4. pc \in {"await_id", "drain"} /\ at' \in Nat
      BY <1>2, <2>1 DEF ServerTypeOK
    <2> QED BY <1>2, <2>1, <2>3, <2>4, RegisterKeeps
  <1>5. CASE RefuseClient(p)
    <2>1. /\ s2c' = ToClient(p, Control(REFUSED))
          /\ CloseFd(new_sockfd)
          /\ new_sockfd' = 0
          /\ pc' = "loop"
          /\ UNCHANGED <<cliEnd, clients, read_fds, tmp_fds, fdmax, at, cur, udp, pub, malformed, stdin>>
      BY <1>5 DEF RefuseClient, Send, setVars, inputVars
    <2>2. Control(REFUSED) \in S2C
      BY HeaderType DEF REFUSED
    <2>3. WireTypeOK'
      BY <1>2, <2>1, <2>2, SendType, CloseType DEF WireTypeOK
    <2>4. ServerTypeOK'
      BY <2>1, CloseType DEF ServerTypeOK
    <2>5. \A j \in Fds : file'[j] # NoConn => file[j] # NoConn /\ j # new_sockfd
      BY <2>1, CloseType
    <2>6. Placed' /\ DescriptorsBelow' /\ FdmaxCovers'
      BY <2>1, <2>5 DEF Placed, DescriptorsBelow, Unregistered, FdmaxCovers, AckWaits
    <2> QED BY <2>3, <2>4, <2>6
  <1>6. CASE ReturnClient(p)
    <2>1. /\ pc' = "drain"
          /\ UNCHANGED <<s2c, cliEnd, srvEnd, file, read_fds, tmp_fds, fdmax, new_sockfd,
                         cur, udp, pub, malformed, stdin>>
      BY <1>6 DEF ReturnClient, setVars, inputVars
    <2>2. PICK k \in 1..Len(clients) :
            clients' = [clients EXCEPT ![k].sock = new_sockfd, ![k].online = TRUE] /\ at' = k
      BY <1>6 DEF ReturnClient
    <2>3. clients' \in Seq(Client) /\ Len(clients') = Len(clients)
      BY <1>2, <2>2, ClientType
    <2>4. WireTypeOK'
      BY <1>2, <2>1 DEF WireTypeOK
    <2>5. ServerTypeOK'
      BY <2>1, <2>2, <2>3 DEF ServerTypeOK
    <2>6. Placed' /\ DescriptorsBelow' /\ FdmaxCovers'
      BY <1>2, <2>1, <2>2, <2>3 DEF Placed, DescriptorsBelow, Unregistered, FdmaxCovers, AckWaits
    <2> QED BY <2>4, <2>5, <2>6
  <1> QED BY <1>4, <1>5, <1>6

\* A step that leaves the descriptors and their sets alone, and moves neither
\* into nor out of the handling of a connection request.
LEMMA StillKeeps ==
  ASSUME Kept, WireTypeOK', ServerTypeOK', Placed',
         UNCHANGED <<file, read_fds, fdmax, new_sockfd>>,
         pc \in {"await_id", "drain", "drain_ack"} => pc' \in {"await_id", "drain", "drain_ack"},
         pc # "dead"
  PROVE  Kept'
  <1> USE DEF Kept
  <1>1. FdmaxCovers'
    BY DEF FdmaxCovers
  <1>2. DescriptorsBelow'
    BY DEF DescriptorsBelow, Unregistered
  <1> QED BY <1>1, <1>2

\* recv() by a handler, whatever the socket it reads from.
LEMMA AckRecvType ==
  ASSUME WireTypeOK, NEW c \in AfterServerRecv(HerePeer)
  PROVE  c \in [Conns -> Seq(C2S)]
  <1>1. CASE HerePeer \in Conns
    BY <1>1, RecvType
  <1>2. CASE HerePeer \notin Conns
    <2>1. c2s \in [Conns -> Seq(C2S)]
      BY DEF WireTypeOK
    <2>2. \A e : [c2s EXCEPT ![HerePeer] = e] = c2s
      BY <1>2, <2>1
    <2>3. c = c2s \/ \E e : c = [c2s EXCEPT ![HerePeer] = e]
      BY DEF AfterServerRecv
    <2> QED BY <2>1, <2>2, <2>3
  <1> QED BY <1>1, <1>2

\* The steps of empty_queue.
LEMMA DrainKeeps ==
  ASSUME Kept, SendQueued \/ QueueEmptied \/ AckQueued
  PROVE  Kept'
  <1> USE DEF Kept
  <1>1. at \in 1..Len(clients) /\ new_sockfd \in Fds /\ new_sockfd <= fdmax + 1
    BY DEF SendQueued, QueueEmptied, AckQueued, Placed, AckWaits
  <1>2. CASE SendQueued
    <2>1. /\ pc = "drain" /\ pc' = "drain_ack" /\ Here.queue # << >>
          /\ clients' = [clients EXCEPT ![at].queue = Tail(clients[at].queue)]
          /\ s2c' = ToClient(HerePeer, Publication(Head(Here.queue)))
          /\ UNCHANGED <<c2s, cliEnd, srvEnd, file, read_fds, tmp_fds, fdmax, new_sockfd, at,
                         cur, udp, pub, malformed, stdin>>
      BY <1>2 DEF SendQueued, setVars, inputVars
    <2>2. clients[at].queue \in Seq(Nat) /\ clients[at].queue # << >>
      BY <1>1, <2>1, ClientType DEF Client, Here
    <2>3. Head(Here.queue) \in Nat /\ Tail(clients[at].queue) \in Seq(Nat)
      BY <2>2 DEF Here
    <2>4. clients' \in Seq(Client) /\ Len(clients') = Len(clients)
      BY <1>1, <2>1, <2>3, ClientType
    <2>5. s2c' \in [Conns -> Seq(S2C)]
      <3>1. Publication(Head(Here.queue)) \in S2C
        BY <2>3 DEF Publication, DATA, S2C
      <3> QED BY <2>1, <3>1, SendType
    <2>6. WireTypeOK' /\ ServerTypeOK' /\ Placed'
      BY <1>1, <2>1, <2>4, <2>5 DEF WireTypeOK, ServerTypeOK, Placed, AckWaits
    <2> QED BY <2>1, <2>6, StillKeeps
  <1>3. CASE QueueEmptied
    <2>1. /\ pc = "drain" /\ Register(new_sockfd) /\ at' = 0
          /\ UNCHANGED <<c2s, s2c, cliEnd, srvEnd, clients, file, tmp_fds, cur, udp, pub, malformed, stdin>>
      BY <1>3 DEF QueueEmptied, wireVars, inputVars
    <2>2. c2s' \in [Conns -> Seq(C2S)] /\ clients' \in Seq(Client) /\ at' \in Nat
      BY <2>1 DEF WireTypeOK, ServerTypeOK
    <2> QED BY <2>1, <2>2, RegisterKeeps
  <1>4. CASE AckQueued
    <2>1. /\ pc = "drain_ack" /\ pc' = "drain" /\ c2s' \in AfterServerRecv(HerePeer) /\ Acked
          /\ UNCHANGED <<s2c, cliEnd, srvEnd, clients, file, read_fds, tmp_fds, fdmax, new_sockfd,
                         at, cur, udp, pub, malformed, stdin>>
      BY <1>4 DEF AckQueued, setVars, inputVars
    <2>2. c2s' \in [Conns -> Seq(C2S)]
      BY <2>1, AckRecvType
    <2>3. WireTypeOK' /\ ServerTypeOK' /\ Placed'
      BY <1>1, <2>1, <2>2 DEF WireTypeOK, ServerTypeOK, Placed, AckWaits
    <2> QED BY <2>1, <2>3, StillKeeps
  <1> QED BY <1>2, <1>3, <1>4

\* The steps of a datagram's delivery.
LEMMA ForwardKeeps ==
  ASSUME Kept, ReceiveDatagram \/ Skip \/ Enqueue \/ Forward \/ AckForward \/ Forwarded
  PROVE  Kept'
  <1> USE DEF Kept
  <1>1. CASE ReceiveDatagram
    <2>1. /\ pc = "loop" /\ pc' = "deliver" /\ at' = 1 /\ udp # << >>
          /\ cur' = Head(udp) /\ udp' = Tail(udp) /\ tmp_fds' = tmp_fds \ {UDP}
          /\ UNCHANGED <<c2s, s2c, cliEnd, srvEnd, clients, file, read_fds, fdmax, new_sockfd,
                         pub, malformed, stdin>>
      BY <1>1 DEF ReceiveDatagram, Turn, wireVars
    <2>2. cur' \in Nat /\ udp' \in Seq(Nat)
      BY <2>1 DEF ServerTypeOK
    <2>3. WireTypeOK' /\ ServerTypeOK' /\ Placed'
      BY <2>1, <2>2 DEF WireTypeOK, ServerTypeOK, Placed, AckWaits
    <2> QED BY <2>1, <2>3, StillKeeps
  <1>2. CASE Skip
    <2>1. /\ pc = "deliver" /\ at' = at + 1
          /\ UNCHANGED <<c2s, s2c, cliEnd, srvEnd, pc, clients, file, read_fds, tmp_fds, fdmax,
                         new_sockfd, cur, udp, pub, malformed, stdin>>
      BY <1>2 DEF Skip, Visiting, wireVars, setVars, inputVars
    <2>2. WireTypeOK' /\ ServerTypeOK' /\ Placed'
      BY <2>1 DEF WireTypeOK, ServerTypeOK, Placed, AckWaits
    <2> QED BY <2>1, <2>2, StillKeeps
  <1>3. CASE Enqueue
    <2>1. /\ pc = "deliver" /\ at <= Len(clients) /\ at' = at + 1
          /\ clients' = [clients EXCEPT ![at].queue = Append(clients[at].queue, cur)]
          /\ UNCHANGED <<c2s, s2c, cliEnd, srvEnd, pc, file, read_fds, tmp_fds, fdmax,
                         new_sockfd, cur, udp, pub, malformed, stdin>>
      BY <1>3 DEF Enqueue, ToStore, Visiting, wireVars, setVars, inputVars
    <2>2. at \in 1..Len(clients) /\ cur \in Nat
      BY <2>1 DEF Placed, ServerTypeOK
    <2>3. Append(clients[at].queue, cur) \in Seq(Nat)
      <3>1. clients[at].queue \in Seq(Nat)
        BY <2>2, ClientType DEF Client
      <3> QED BY <2>2, <3>1
    <2>4. clients' \in Seq(Client) /\ Len(clients') = Len(clients)
      BY <2>1, <2>2, <2>3, ClientType
    <2>5. WireTypeOK' /\ ServerTypeOK' /\ Placed'
      BY <2>1, <2>2, <2>4 DEF WireTypeOK, ServerTypeOK, Placed, AckWaits
    <2> QED BY <2>1, <2>5, StillKeeps
  <1>4. CASE Forward
    <2>1. /\ pc = "deliver" /\ pc' = "await_ack" /\ at <= Len(clients)
          /\ s2c' = ToClient(HerePeer, Publication(cur))
          /\ UNCHANGED <<c2s, cliEnd, srvEnd, clients, file, read_fds, tmp_fds, fdmax,
                         new_sockfd, at, cur, udp, pub, malformed, stdin>>
      BY <1>4 DEF Forward, ToSend, Visiting, setVars, inputVars
    <2>2. at \in 1..Len(clients) /\ cur \in Nat
      BY <2>1 DEF Placed, ServerTypeOK
    <2>3. s2c' \in [Conns -> Seq(S2C)]
      <3>1. Publication(cur) \in S2C
        BY <2>2 DEF Publication, DATA, S2C
      <3> QED BY <2>1, <3>1, SendType
    <2>4. WireTypeOK' /\ ServerTypeOK' /\ Placed'
      BY <2>1, <2>2, <2>3 DEF WireTypeOK, ServerTypeOK, Placed, AckWaits
    <2> QED BY <2>1, <2>4, StillKeeps
  <1>5. CASE AckForward
    <2>1. /\ pc = "await_ack" /\ pc' = "deliver" /\ at' = at + 1
          /\ c2s' \in AfterServerRecv(HerePeer) /\ Acked
          /\ UNCHANGED <<s2c, cliEnd, srvEnd, clients, file, read_fds, tmp_fds, fdmax,
                         new_sockfd, cur, udp, pub, malformed, stdin>>
      BY <1>5 DEF AckForward, setVars, inputVars
    <2>2. c2s' \in [Conns -> Seq(C2S)]
      BY <2>1, AckRecvType
    <2>3. at \in 1..Len(clients)
      BY <2>1 DEF Placed, AckWaits
    <2>4. WireTypeOK' /\ ServerTypeOK' /\ Placed'
      BY <2>1, <2>2, <2>3 DEF WireTypeOK, ServerTypeOK, Placed, AckWaits
    <2> QED BY <2>1, <2>4, StillKeeps
  <1>6. CASE Forwarded
    <2>1. /\ pc = "deliver" /\ pc' = "loop" /\ at' = 0 /\ cur' = 0
          /\ UNCHANGED <<c2s, s2c, cliEnd, srvEnd, clients, file, read_fds, tmp_fds, fdmax,
                         new_sockfd, udp, pub, malformed, stdin>>
      BY <1>6 DEF Forwarded, wireVars, setVars, inputVars
    <2>2. WireTypeOK' /\ ServerTypeOK' /\ Placed'
      BY <2>1 DEF WireTypeOK, ServerTypeOK, Placed, AckWaits
    <2> QED BY <2>1, <2>2, StillKeeps
  <1> QED BY <1>1, <1>2, <1>3, <1>4, <1>5, <1>6

\* The steps of the server's exit, but for its end.
LEMMA ByeKeeps ==
  ASSUME Kept, ReceiveExit \/ SayBye \/ AckBye
  PROVE  Kept'
  <1> USE DEF Kept
  <1>1. CASE ReceiveExit
    <2>1. /\ pc = "loop" /\ pc' = "bye" /\ at' = 1 /\ tmp_fds' = tmp_fds \ {STDIN}
          /\ UNCHANGED <<c2s, s2c, cliEnd, srvEnd, clients, file, read_fds, fdmax, new_sockfd,
                         cur, udp, pub, malformed, stdin>>
      BY <1>1 DEF ReceiveExit, Turn, wireVars, inputVars
    <2>2. WireTypeOK' /\ ServerTypeOK' /\ Placed'
      BY <2>1 DEF WireTypeOK, ServerTypeOK, Placed, AckWaits
    <2> QED BY <2>1, <2>2, StillKeeps
  <1>2. CASE SayBye
    <2>1. /\ pc = "bye" /\ pc' = "bye_ack" /\ at <= Len(clients)
          /\ s2c' = ToClient(HerePeer, Control(REFUSED))
          /\ UNCHANGED <<c2s, cliEnd, srvEnd, clients, file, read_fds, tmp_fds, fdmax,
                         new_sockfd, at, cur, udp, pub, malformed, stdin>>
      BY <1>2 DEF SayBye, Send, setVars, inputVars
    <2>2. at \in 1..Len(clients)
      BY <2>1 DEF Placed, ServerTypeOK
    <2>3. s2c' \in [Conns -> Seq(S2C)]
      <3>1. Control(REFUSED) \in S2C
        BY DEF Control, REFUSED, S2C
      <3> QED BY <2>1, <3>1, SendType
    <2>4. WireTypeOK' /\ ServerTypeOK' /\ Placed'
      BY <2>1, <2>2, <2>3 DEF WireTypeOK, ServerTypeOK, Placed, AckWaits
    <2> QED BY <2>1, <2>4, StillKeeps
  <1>3. CASE AckBye
    <2>1. /\ pc = "bye_ack" /\ pc' = "bye" /\ at' = at + 1 /\ CloseFd(Here.sock)
          /\ c2s' \in AfterServerRecv(HerePeer) /\ Acked
          /\ UNCHANGED <<s2c, cliEnd, clients, read_fds, tmp_fds, fdmax, new_sockfd,
                         cur, udp, pub, malformed, stdin>>
      BY <1>3 DEF AckBye, setVars, inputVars
    <2>2. c2s' \in [Conns -> Seq(C2S)]
      BY <2>1, AckRecvType
    <2>3. at \in 1..Len(clients)
      BY <2>1 DEF Placed, AckWaits
    <2>4. WireTypeOK' /\ ServerTypeOK' /\ Placed'
      BY <2>1, <2>2, <2>3, CloseType DEF WireTypeOK, ServerTypeOK, Placed, AckWaits
    <2>5. DescriptorsBelow' /\ FdmaxCovers'
      BY <2>1, CloseType DEF DescriptorsBelow, FdmaxCovers, Unregistered
    <2> QED BY <2>4, <2>5
  <1> QED BY <1>1, <1>2, <1>3

\* A client's command, or its exit: then the descriptor is closed, and fdmax
\* goes down if it was the largest.
LEMMA CommandKeeps ==
  ASSUME Kept, SocketsKnown, NEW i \in Fds, NEW k \in 1..Len(clients),
         ManageCommand(i, k) \/ ManageExit(i, k)
  PROVE  Kept'
  <1> USE DEF Kept
  <1>1. pc = "loop" /\ i <= fdmax /\ c2s' \in AfterServerRecv(Peer(i)) /\ clients[k].sock = i
    BY DEF ManageCommand, ManageExit, Commanding, Turn, Pending, IsBySock
  <1>2. Peer(i) \in Conns /\ fdmax \in Nat /\ UDP <= fdmax
    <2>1. clients[k].sock # -1
      BY <1>1 DEF Fds, FirstFd
    <2>2. file[i] # NoConn
      BY <1>1, <2>1 DEF SocketsKnown, Ended
    <2> QED BY <2>2 DEF Peer, ServerTypeOK, DescriptorsBelow
  <1>3. c2s' \in [Conns -> Seq(C2S)]
    BY <1>1, <1>2, RecvType
  <1>4. s2c' \in [Conns -> Seq(S2C)]
    <2>1. s2c' = ToClient(Peer(i), Control(RESPONSE))
      BY DEF ManageCommand, ManageExit, Send
    <2>2. Control(RESPONSE) \in S2C
      BY DEF Control, RESPONSE, S2C
    <2> QED BY <2>1, <2>2, SendType
  <1>5. CASE ManageCommand(i, k)
    <2>1. /\ clients' \in AfterCommand(k, Incoming(Peer(i)))
          /\ tmp_fds' = tmp_fds \ {i}
          /\ UNCHANGED <<cliEnd, srvEnd, pc, file, read_fds, fdmax, new_sockfd, at, cur,
                         udp, pub, malformed, stdin>>
      BY <1>5 DEF ManageCommand, inputVars
    <2>2. clients' \in Seq(Client)
      BY <1>2, <2>1, HeaderType, CommandType
    <2>3. WireTypeOK' /\ ServerTypeOK' /\ Placed'
      BY <1>1, <1>3, <1>4, <2>1, <2>2 DEF WireTypeOK, ServerTypeOK, Placed, AckWaits
    <2> QED BY <1>1, <2>1, <2>3, StillKeeps
  <1>6. CASE ManageExit(i, k)
    <2>1. /\ clients' = [clients EXCEPT ![k].sock = -1, ![k].online = FALSE]
          /\ Unregister(i) /\ CloseFd(i)
          /\ tmp_fds' = tmp_fds \ {i}
          /\ UNCHANGED <<cliEnd, pc, new_sockfd, at, cur, udp, pub, malformed, stdin>>
      BY <1>6 DEF ManageExit, inputVars
    <2>2. clients' \in Seq(Client)
      BY <2>1, ClientType
    <2>3. /\ read_fds' = read_fds \ {i}
          /\ fdmax' \in Nat /\ UDP <= fdmax'
          /\ fdmax' = IF fdmax = i THEN fdmax - 1 ELSE fdmax
      BY <1>2, <2>1 DEF Unregister, Fds, FirstFd, UDP
    <2>4. WireTypeOK' /\ ServerTypeOK'
      BY <1>3, <1>4, <2>1, <2>2, <2>3, CloseType DEF WireTypeOK, ServerTypeOK
    <2>5. Placed'
      BY <1>1, <2>1 DEF Placed, AckWaits
    <2>6. FdmaxCovers'
      <3>1. ASSUME NEW j \in read_fds' PROVE j <= fdmax'
        <4>1. j \in read_fds /\ j # i /\ j <= fdmax
          BY <2>3, <3>1 DEF FdmaxCovers
        <4>2. j \in Int
          BY <4>1 DEF ServerTypeOK, STDIN, TCP, UDP, Fds
        <4> QED BY <1>2, <2>3, <4>1, <4>2
      <3> QED BY <3>1 DEF FdmaxCovers
    <2>7. DescriptorsBelow'
      <3>1. ASSUME NEW j \in Fds, file'[j] # NoConn PROVE j <= fdmax'
        <4>1. file[j] # NoConn /\ j # i
          BY <2>1, <3>1, CloseType
        <4>2. j <= fdmax
          BY <1>1, <4>1 DEF DescriptorsBelow, Unregistered
        <4> QED BY <1>2, <2>3, <4>1, <4>2 DEF Fds
      <3> QED BY <2>3, <3>1 DEF DescriptorsBelow
    <2> QED BY <2>4, <2>5, <2>6, <2>7
  <1> QED BY <1>5, <1>6

-----------------------------------------------------------------------------
\* Sockets and clients.

\* A step that leaves every client's socket and the sets alone.
LEMMA SocketsStill ==
  ASSUME SocketsKnown, SameClients(clients'), UNCHANGED <<file, read_fds>>,
         pc \in {"bye", "bye_ack"} \cup Ended => pc' \in {"bye", "bye_ack"} \cup Ended
  PROVE  SocketsKnown'
  <1> SUFFICES ASSUME pc' \notin {"bye", "bye_ack"} \cup Ended
               PROVE  SocketsKnown'
    BY DEF SocketsKnown
  <1>1. pc \notin {"bye", "bye_ack"} \cup Ended
    OBVIOUS
  <1>2. ASSUME NEW i \in read_fds' \cap Fds
        PROVE  file'[i] # NoConn /\ \E k \in Online' : clients'[k].sock = i
    <2>1. file[i] # NoConn /\ \E k \in Online : clients[k].sock = i
      BY <1>1, <1>2 DEF SocketsKnown
    <2> QED BY <2>1 DEF SameClients, Online
  <1>3. ASSUME NEW k \in 1..Len(clients')
        PROVE  /\ clients'[k].online <=> clients'[k].sock # -1
               /\ clients'[k].online => file'[clients'[k].sock] # NoConn
               /\ \A j \in 1..(k - 1) : /\ clients'[j].id # clients'[k].id
                                        /\ clients'[k].online => clients'[j].sock # clients'[k].sock
    <2>1. k \in 1..Len(clients) /\ \A j \in 1..(k - 1) : j \in 1..Len(clients)
      BY DEF SameClients
    <2> QED BY <1>1, <2>1 DEF SocketsKnown, SameClients
  <1> QED BY <1>2, <1>3 DEF SocketsKnown

\* accept() hands out a descriptor nobody uses.
LEMMA AcceptSockets ==
  ASSUME Kept, SocketsKnown, NEW p \in Conns, AcceptConnection(p)
  PROVE  SocketsKnown' /\ Settling'
  <1> USE DEF Kept
  <1>1. PICK i \in Fds : /\ IsLowestFree(i)
                        /\ new_sockfd' = i
                        /\ file' = [file EXCEPT ![i] = p]
    BY DEF AcceptConnection
  <1>2. /\ pc = "loop" /\ pc' = "await_id"
        /\ UNCHANGED <<clients, read_fds>>
    BY DEF AcceptConnection, Turn
  <1>3. file[i] = NoConn /\ file'[i] # NoConn /\ \A j \in Fds : j # i => file'[j] = file[j]
    BY <1>1, ServerAssumption DEF IsLowestFree, ServerTypeOK
  <1>4. /\ \A j \in read_fds \cap Fds : file[j] # NoConn /\ \E k \in Online : clients[k].sock = j
        /\ \A k \in 1..Len(clients) : clients[k].online => file[clients[k].sock] # NoConn
        /\ \A k \in 1..Len(clients) : clients[k].online <=> clients[k].sock # -1
    BY <1>2 DEF SocketsKnown, Ended
  <1>5. i \notin read_fds
    BY <1>3, <1>4
  <1>6. ASSUME NEW k \in 1..Len(clients) PROVE clients[k].sock # i
    <2>1. i # -1
      BY DEF Fds, FirstFd
    <2> QED BY <1>3, <1>4, <2>1
  <1>7. Settling'
    BY <1>1, <1>2, <1>3, <1>5, <1>6 DEF Settling
  <1>8. \A k \in 1..Len(clients) : clients[k].online => clients[k].sock \in Fds
    BY <1>4, ClientType DEF Client
  <1>9. SocketsKnown'
    <2>1. ASSUME NEW j \in read_fds' \cap Fds
          PROVE  file'[j] # NoConn /\ \E k \in Online' : clients'[k].sock = j
      BY <1>2, <1>3, <1>4, <2>1 DEF Online
    <2>2. ASSUME NEW k \in 1..Len(clients'), clients'[k].online
          PROVE  file'[clients'[k].sock] # NoConn
      BY <1>2, <1>3, <1>4, <1>8, <2>2
    <2>3. ASSUME NEW k \in 1..Len(clients')
          PROVE  /\ clients'[k].online <=> clients'[k].sock # -1
                 /\ \A j \in 1..(k - 1) :
                      /\ clients'[j].id # clients'[k].id
                      /\ clients'[k].online => clients'[j].sock # clients'[k].sock
      BY <1>2 DEF SocketsKnown, Ended
    <2> QED BY <2>1, <2>2, <2>3 DEF SocketsKnown
  <1> QED BY <1>7, <1>9

\* A client is added under a new identifier and on a socket nobody has.
LEMMA NewClientSockets ==
  ASSUME Kept, SocketsKnown, Settling, NEW p \in Conns, NewClient(p)
  PROVE  SocketsKnown' /\ Settling'
  <1> USE DEF Kept
  <1> DEFINE n == Len(clients)
             new == [id |-> Incoming(p).id, subs |-> EmptyList,
                     sock |-> new_sockfd, online |-> TRUE, queue |-> << >>]
  <1>1. /\ pc = "await_id" /\ pc' = "loop"
        /\ clients' = Append(clients, new)
        /\ read_fds' = read_fds \cup {new_sockfd} /\ file' = file
        /\ ~Known(Incoming(p).id)
    BY DEF NewClient, Identified, Answering, Register
  <1>2. /\ file[new_sockfd] # NoConn /\ new_sockfd \in Fds
        /\ \A k \in 1..n : clients[k].sock # new_sockfd
    BY <1>1 DEF Settling, Placed
  <1>3. /\ new.id = Incoming(p).id /\ new.sock = new_sockfd /\ new.online = TRUE
    OBVIOUS
  <1> HIDE DEF new
  <1>4. /\ Len(clients') = n + 1 /\ n \in Nat
        /\ \A k \in 1..n : clients'[k] = clients[k]
        /\ clients'[n + 1] = new
    BY <1>1 DEF ServerTypeOK
  <1>5. \A k \in 1..n : clients[k].id # new.id
    BY <1>1, <1>3 DEF Known
  <1>6. ASSUME NEW i \in read_fds' \cap Fds
        PROVE  file'[i] # NoConn /\ \E k \in Online' : clients'[k].sock = i
    <2>1. CASE i = new_sockfd
      <3>1. n + 1 \in Online' /\ clients'[n + 1].sock = i
        BY <1>3, <1>4, <2>1 DEF Online
      <3> QED BY <1>1, <1>2, <2>1, <3>1
    <2>2. CASE i # new_sockfd
      <3>1. file[i] # NoConn /\ \E k \in Online : clients[k].sock = i
        BY <1>1, <1>6, <2>2 DEF SocketsKnown, Ended
      <3>2. PICK k \in Online : clients[k].sock = i
        BY <3>1
      <3>3. k \in Online' /\ clients'[k].sock = i
        BY <1>4, <3>2 DEF Online
      <3> QED BY <1>1, <3>1, <3>3
    <2> QED BY <2>1, <2>2
  <1>7. ASSUME NEW k \in 1..Len(clients')
        PROVE  /\ clients'[k].online <=> clients'[k].sock # -1
               /\ clients'[k].online => file'[clients'[k].sock] # NoConn
               /\ \A j \in 1..(k - 1) : /\ clients'[j].id # clients'[k].id
                                        /\ clients'[k].online => clients'[j].sock # clients'[k].sock
    <2>1. CASE k = n + 1
      <3>1. new.sock # -1
        BY <1>2, <1>3 DEF Fds, FirstFd
      <3>2. \A j \in 1..(k - 1) : j \in 1..n /\ clients'[j] = clients[j]
        BY <1>4, <2>1
      <3> QED BY <1>1, <1>2, <1>3, <1>4, <1>5, <2>1, <3>1, <3>2
    <2>2. CASE k # n + 1
      <3>1. k \in 1..n /\ \A j \in 1..(k - 1) : j \in 1..n
        BY <1>4, <2>2
      <3> QED BY <1>1, <1>4, <3>1 DEF SocketsKnown, Ended
    <2> QED BY <2>1, <2>2
  <1>8. SocketsKnown'
    BY <1>6, <1>7 DEF SocketsKnown
  <1>9. Settling'
    BY <1>1 DEF Settling
  <1> QED BY <1>8, <1>9

\* A refused socket is closed, and was nobody's.
LEMMA RefuseSockets ==
  ASSUME Kept, SocketsKnown, Settling, NEW p \in Conns, RefuseClient(p)
  PROVE  SocketsKnown' /\ Settling'
  <1> USE DEF Kept
  <1>1. /\ pc = "await_id" /\ pc' = "loop"
        /\ file' = [file EXCEPT ![new_sockfd] = NoConn]
        /\ UNCHANGED <<clients, read_fds>>
    BY DEF RefuseClient, Identified, Answering, CloseFd, setVars
  <1>2. /\ new_sockfd \notin read_fds
        /\ \A k \in 1..Len(clients) : clients[k].sock # new_sockfd
    BY <1>1 DEF Settling
  <1>3. \A j \in Fds : j # new_sockfd => file'[j] = file[j]
    BY <1>1 DEF ServerTypeOK
  <1>4. /\ \A j \in read_fds \cap Fds : file[j] # NoConn /\ \E k \in Online : clients[k].sock = j
        /\ \A k \in 1..Len(clients) : clients[k].online => file[clients[k].sock] # NoConn
        /\ \A k \in 1..Len(clients) : clients[k].online <=> clients[k].sock # -1
    BY <1>1 DEF SocketsKnown, Ended
  <1>5. \A k \in 1..Len(clients) : clients[k].online => clients[k].sock \in Fds
    BY <1>4, ClientType DEF Client
  <1>6. ASSUME NEW j \in read_fds' \cap Fds
        PROVE  file'[j] # NoConn /\ \E k \in Online' : clients'[k].sock = j
    BY <1>1, <1>2, <1>3, <1>4, <1>6 DEF Online
  <1>7. ASSUME NEW k \in 1..Len(clients'), clients'[k].online
        PROVE  file'[clients'[k].sock] # NoConn
    BY <1>1, <1>2, <1>3, <1>4, <1>5, <1>7
  <1>8. ASSUME NEW k \in 1..Len(clients')
        PROVE  /\ clients'[k].online <=> clients'[k].sock # -1
               /\ \A j \in 1..(k - 1) :
                    /\ clients'[j].id # clients'[k].id
                    /\ clients'[k].online => clients'[j].sock # clients'[k].sock
    BY <1>1 DEF SocketsKnown, Ended
  <1>9. SocketsKnown'
    BY <1>6, <1>7, <1>8 DEF SocketsKnown
  <1>10. Settling'
    BY <1>1 DEF Settling
  <1> QED BY <1>9, <1>10

\* A client that comes back gets a socket nobody has.
LEMMA ReturnSockets ==
  ASSUME Kept, SocketsKnown, Settling, NEW p \in Conns, ReturnClient(p)
  PROVE  SocketsKnown' /\ Settling'
  <1> USE DEF Kept
  <1>1. /\ pc = "await_id" /\ pc' = "drain"
        /\ UNCHANGED <<file, read_fds, new_sockfd>>
    BY DEF ReturnClient, Identified, Answering, setVars
  <1>2. PICK k \in 1..Len(clients) :
          /\ clients' = [clients EXCEPT ![k].sock = new_sockfd, ![k].online = TRUE]
          /\ ~clients[k].online /\ at' = k
    BY DEF ReturnClient
  <1>3. /\ file[new_sockfd] # NoConn /\ new_sockfd \notin read_fds /\ new_sockfd \in Fds
        /\ \A j \in 1..Len(clients) : clients[j].sock # new_sockfd
    BY <1>1 DEF Settling, Placed
  <1>4. /\ Len(clients') = Len(clients)
        /\ clients'[k].sock = new_sockfd /\ clients'[k].online /\ clients'[k].id = clients[k].id
        /\ \A j \in 1..Len(clients) : j # k => clients'[j] = clients[j]
    BY <1>2, ClientType DEF ServerTypeOK, Client
  <1>5. ASSUME NEW i \in read_fds' \cap Fds
        PROVE  file'[i] # NoConn /\ \E j \in Online' : clients'[j].sock = i
    <2>1. file[i] # NoConn /\ \E j \in Online : clients[j].sock = i
      BY <1>1, <1>5 DEF SocketsKnown, Ended
    <2>2. PICK j \in Online : clients[j].sock = i
      BY <2>1
    <2>3. j \in 1..Len(clients) /\ j # k
      BY <1>2, <2>2 DEF Online
    <2>4. j \in Online' /\ clients'[j].sock = i
      BY <1>4, <2>2, <2>3 DEF Online
    <2> QED BY <1>1, <2>1, <2>4
  <1>6. ASSUME NEW m \in 1..Len(clients')
        PROVE  /\ clients'[m].online <=> clients'[m].sock # -1
               /\ clients'[m].online => file'[clients'[m].sock] # NoConn
               /\ \A j \in 1..(m - 1) : /\ clients'[j].id # clients'[m].id
                                        /\ clients'[m].online => clients'[j].sock # clients'[m].sock
    <2>1. m \in 1..Len(clients) /\ \A j \in 1..(m - 1) : j \in 1..Len(clients) /\ j # m
      BY <1>4
    <2>2. /\ clients[m].online <=> clients[m].sock # -1
          /\ clients[m].online => file[clients[m].sock] # NoConn
          /\ \A j \in 1..(m - 1) : /\ clients[j].id # clients[m].id
                                   /\ clients[m].online => clients[j].sock # clients[m].sock
      BY <1>1, <2>1 DEF SocketsKnown, Ended
    <2>3. new_sockfd # -1
      BY <1>3 DEF Fds, FirstFd
    <2>4. CASE m = k
      BY <1>1, <1>3, <1>4, <2>1, <2>2, <2>3, <2>4
    <2>5. CASE m # k
      <3>1. clients'[m] = clients[m]
        BY <1>4, <2>1, <2>5
      <3>2. ASSUME NEW j \in 1..(m - 1)
            PROVE  /\ clients'[j].id # clients'[m].id
                   /\ clients'[m].online => clients'[j].sock # clients'[m].sock
        <4>1. CASE j = k
          BY <1>3, <1>4, <2>1, <2>2, <3>1, <4>1
        <4>2. CASE j # k
          BY <1>4, <2>1, <2>2, <3>1, <4>2
        <4> QED BY <4>1, <4>2
      <3> QED BY <1>1, <2>2, <3>1, <3>2
    <2> QED BY <2>4, <2>5
  <1>7. SocketsKnown'
    BY <1>5, <1>6 DEF SocketsKnown
  <1>8. Settling'
    BY <1>1, <1>2, <1>3, <1>4 DEF Settling
  <1> QED BY <1>7, <1>8

\* The socket of a client whose queue is empty joins the set.
LEMMA EmptiedSockets ==
  ASSUME Kept, SocketsKnown, Settling, QueueEmptied
  PROVE  SocketsKnown' /\ Settling'
  <1> USE DEF Kept
  <1>1. /\ pc = "drain" /\ pc' = "loop"
        /\ read_fds' = read_fds \cup {new_sockfd}
        /\ UNCHANGED <<clients, file>>
    BY DEF QueueEmptied, Register
  <1>2. /\ file[new_sockfd] # NoConn /\ new_sockfd \in Fds
        /\ at \in 1..Len(clients) /\ clients[at].sock = new_sockfd
    BY <1>1 DEF Settling, Placed
  <1>3. /\ \A j \in read_fds \cap Fds : file[j] # NoConn /\ \E k \in Online : clients[k].sock = j
        /\ \A k \in 1..Len(clients) :
             /\ clients[k].online <=> clients[k].sock # -1
             /\ clients[k].online => file[clients[k].sock] # NoConn
             /\ \A j \in 1..(k - 1) : /\ clients[j].id # clients[k].id
                                      /\ clients[k].online => clients[j].sock # clients[k].sock
    BY <1>1 DEF SocketsKnown, Ended
  <1>4. at \in Online
    BY <1>2, <1>3 DEF Fds, FirstFd, Online
  <1>5. SocketsKnown'
    BY <1>1, <1>2, <1>3, <1>4 DEF SocketsKnown, Online
  <1>6. Settling'
    BY <1>1 DEF Settling
  <1> QED BY <1>5, <1>6

\* A client that leaves takes its socket out of the set, and no other's.
LEMMA ExitSockets ==
  ASSUME Kept, SocketsKnown, NEW i \in Fds, NEW k \in 1..Len(clients), ManageExit(i, k)
  PROVE  SocketsKnown' /\ Settling'
  <1> USE DEF Kept
  <1>1. /\ pc = "loop" /\ pc' = "loop"
        /\ read_fds' = read_fds \ {i}
        /\ file' = [file EXCEPT ![i] = NoConn]
        /\ clients' = [clients EXCEPT ![k].sock = -1, ![k].online = FALSE]
        /\ clients[k].sock = i
    BY DEF ManageExit, Commanding, Turn, Unregister, CloseFd, IsBySock
  <1>2. /\ Len(clients') = Len(clients)
        /\ clients'[k].sock = -1 /\ ~clients'[k].online /\ clients'[k].id = clients[k].id
        /\ \A j \in 1..Len(clients) : j # k => clients'[j] = clients[j]
    BY <1>1, ClientType DEF ServerTypeOK, Client
  <1>3. \A j \in Fds : j # i => file'[j] = file[j]
    BY <1>1 DEF ServerTypeOK
  <1>4. /\ \A j \in read_fds \cap Fds : file[j] # NoConn /\ \E m \in Online : clients[m].sock = j
        /\ \A m \in 1..Len(clients) :
             /\ clients[m].online <=> clients[m].sock # -1
             /\ clients[m].online => file[clients[m].sock] # NoConn
             /\ \A j \in 1..(m - 1) : /\ clients[j].id # clients[m].id
                                      /\ clients[m].online => clients[j].sock # clients[m].sock
    BY <1>1 DEF SocketsKnown, Ended
  <1>5. ASSUME NEW m \in 1..Len(clients), m # k, clients[m].online
        PROVE  clients[m].sock # i /\ clients[m].sock \in Fds
    <2>1. clients[m].sock \in Fds
      BY <1>4, <1>5, ClientType DEF Client
    <2>2. clients[k].online
      BY <1>1, <1>4 DEF Fds, FirstFd
    <2>3. k \in 1..(m - 1) \/ m \in 1..(k - 1)
      BY <1>5 DEF ServerTypeOK
    <2> QED BY <1>1, <1>4, <1>5, <2>1, <2>2, <2>3
  <1>6. ASSUME NEW j \in read_fds' \cap Fds
        PROVE  file'[j] # NoConn /\ \E m \in Online' : clients'[m].sock = j
    <2>1. j \in read_fds /\ j # i
      BY <1>1, <1>6
    <2>2. PICK m \in Online : clients[m].sock = j
      BY <1>4, <1>6, <2>1
    <2>3. m # k
      BY <1>1, <2>1, <2>2
    <2>4. m \in Online' /\ clients'[m].sock = j
      BY <1>2, <2>2, <2>3 DEF Online
    <2>5. file'[j] # NoConn
      BY <1>3, <1>4, <1>6, <2>1
    <2> QED BY <2>4, <2>5
  <1>7. ASSUME NEW m \in 1..Len(clients')
        PROVE  /\ clients'[m].online <=> clients'[m].sock # -1
               /\ clients'[m].online => file'[clients'[m].sock] # NoConn
               /\ \A j \in 1..(m - 1) : /\ clients'[j].id # clients'[m].id
                                        /\ clients'[m].online => clients'[j].sock # clients'[m].sock
    <2>1. m \in 1..Len(clients) /\ \A j \in 1..(m - 1) : j \in 1..Len(clients) /\ j # m
      BY <1>2
    <2>2. \A j \in 1..(m - 1) : clients'[j].id = clients[j].id
      BY <1>2, <2>1
    <2>3. clients'[m].id = clients[m].id
      BY <1>2, <2>1
    <2>4. CASE m = k
      BY <1>2, <1>4, <2>1, <2>2, <2>3, <2>4
    <2>5. CASE m # k
      <3>1. clients'[m] = clients[m]
        BY <1>2, <2>1, <2>5
      <3>2. clients[m].online => file'[clients[m].sock] # NoConn
        BY <1>3, <1>4, <1>5, <2>1, <2>5
      <3>3. ASSUME NEW j \in 1..(m - 1), clients[m].online
            PROVE  clients'[j].sock # clients[m].sock
        <4>1. CASE j = k
          BY <1>2, <1>5, <2>1, <2>5, <3>3, <4>1 DEF Fds, FirstFd
        <4>2. CASE j # k
          BY <1>2, <1>4, <2>1, <3>3, <4>2
        <4> QED BY <4>1, <4>2
      <3> QED BY <1>4, <2>1, <2>2, <2>3, <3>1, <3>2, <3>3
    <2> QED BY <2>4, <2>5
  <1>8. SocketsKnown'
    BY <1>6, <1>7 DEF SocketsKnown
  <1>9. Settling'
    BY <1>1 DEF Settling
  <1> QED BY <1>8, <1>9

\* The steps that change no client's socket and no set.
LEMMA OtherSockets ==
  ASSUME Kept, SocketsKnown, Settling,
         \/ Select \/ SendQueued \/ AckQueued
         \/ ReceiveDatagram \/ Skip \/ Enqueue \/ Forward \/ AckForward \/ Forwarded
         \/ \E i \in Fds : \E k \in 1..Len(clients) : ManageCommand(i, k)
  PROVE  SocketsKnown' /\ Settling'
  <1> USE DEF Kept
  <1>0. SameClients(clients)
    BY DEF SameClients
  <1>1. CASE Select \/ AckQueued \/ ReceiveDatagram \/ Skip \/ Forward \/ AckForward \/ Forwarded
    <2>1. UNCHANGED <<clients, file, read_fds, new_sockfd>> /\ pc \notin {"bye", "bye_ack"} \cup Ended
      BY <1>1 DEF Select, AckQueued, ReceiveDatagram, Skip, Forward, AckForward, Forwarded,
                  setVars, Turn, Visiting, ToSend, Ended
    <2>2. SocketsKnown'
      BY <1>0, <2>1, SocketsStill
    <2>3. Settling'
      BY <1>1, <2>1 DEF Settling, Select, AckQueued, ReceiveDatagram, Skip, Forward, AckForward,
                        Forwarded, Visiting, ToSend
    <2> QED BY <2>2, <2>3
  <1>2. CASE SendQueued
    <2>1. /\ pc = "drain" /\ pc' = "drain_ack" /\ Here.queue # << >>
          /\ clients' = [clients EXCEPT ![at].queue = Tail(clients[at].queue)]
          /\ UNCHANGED <<file, read_fds, new_sockfd, at>>
      BY <1>2 DEF SendQueued, setVars
    <2>2. at \in 1..Len(clients)
      BY <2>1 DEF Placed
    <2>3. SameClients(clients')
      <3>1. clients[at].queue \in Seq(Nat)
        BY <2>2, ClientType DEF Client
      <3>2. Tail(clients[at].queue) \in Seq(Nat)
        BY <2>1, <3>1 DEF Here
      <3> QED BY <2>1, <2>2, <3>2, SameType
    <2>4. SocketsKnown'
      BY <2>1, <2>3, SocketsStill DEF Ended
    <2>5. Settling'
      BY <2>1, <2>2, <2>3 DEF Settling, SameClients
    <2> QED BY <2>4, <2>5
  <1>3. CASE Enqueue
    <2>1. /\ pc = "deliver" /\ pc' = "deliver" /\ at <= Len(clients)
          /\ clients' = [clients EXCEPT ![at].queue = Append(clients[at].queue, cur)]
          /\ UNCHANGED <<file, read_fds>>
      BY <1>3 DEF Enqueue, ToStore, Visiting, setVars
    <2>2. at \in 1..Len(clients) /\ cur \in Nat
      BY <2>1 DEF Placed, ServerTypeOK
    <2>3. SameClients(clients')
      <3>1. clients[at].queue \in Seq(Nat)
        BY <2>2, ClientType DEF Client
      <3>2. Append(clients[at].queue, cur) \in Seq(Nat)
        BY <2>2, <3>1
      <3> QED BY <2>1, <2>2, <3>2, SameType
    <2>4. SocketsKnown'
      BY <2>1, <2>3, SocketsStill DEF Ended
    <2>5. Settling'
      BY <2>1 DEF Settling
    <2> QED BY <2>4, <2>5
  <1>4. ASSUME NEW i \in Fds, NEW k \in 1..Len(clients), ManageCommand(i, k)
        PROVE  SocketsKnown' /\ Settling'
    <2>1. /\ pc = "loop" /\ pc' = "loop" /\ clients[k].sock = i
          /\ clients' \in AfterCommand(k, Incoming(Peer(i)))
          /\ UNCHANGED <<file, read_fds>>
      BY <1>4 DEF ManageCommand, Commanding, Turn, IsBySock
    <2>2. Peer(i) \in Conns
      <3>1. clients[k].sock # -1
        BY <2>1 DEF Fds, FirstFd
      <3>2. file[i] # NoConn
        BY <2>1, <3>1 DEF SocketsKnown, Ended
      <3> QED BY <3>2 DEF Peer, ServerTypeOK
    <2>3. SameClients(clients')
      BY <2>1, <2>2, HeaderType, CommandType
    <2>4. SocketsKnown'
      BY <2>1, <2>3, SocketsStill DEF Ended
    <2>5. Settling'
      BY <2>1 DEF Settling
    <2> QED BY <2>4, <2>5
  <1> QED BY <1>1, <1>2, <1>3, <1>4

-----------------------------------------------------------------------------
\* The invariant.

\* The system starts in order.
LEMMA InitBookkeeping == Init => Bookkeeping
  <1> SUFFICES ASSUME Init PROVE Bookkeeping
    OBVIOUS
  <1>1. WireTypeOK /\ SubTypeOK
    <2>1. << >> \in Seq(C2S) /\ << >> \in Seq(S2C) /\ << >> \in Seq(Nat)
      OBVIOUS
    <2>2. WireTypeOK
      BY <2>1 DEF Init, WireInit, WireTypeOK
    <2>3. SubTypeOK
      BY <2>1 DEF Init, SubInit, SubTypeOK
    <2> QED BY <2>2, <2>3
  <1>2. ServerTypeOK
    <2>1. << >> \in Seq(Client) /\ << >> \in Seq(Nat) /\ << >> \in Seq(Topics)
      OBVIOUS
    <2>2. UDP \in Nat
      BY DEF UDP
    <2> QED BY <2>1, <2>2 DEF Init, ServerInit, ServerTypeOK
  <1>3. Placed /\ Settling
    BY DEF Init, ServerInit, Placed, Settling, AckWaits
  <1>4. DescriptorsBelow /\ FdmaxCovers
    BY DEF Init, ServerInit, DescriptorsBelow, FdmaxCovers, UDP, STDIN, TCP
  <1>5. SocketsKnown
    BY DEF Init, ServerInit, SocketsKnown, UDP, STDIN, TCP, Fds, FirstFd
  <1> QED BY <1>1, <1>2, <1>3, <1>4, <1>5 DEF Bookkeeping, TypeOK

\* The end of the process ends the claims about its clients' sockets.
LEMMA EndKeeps ==
  ASSUME Kept, SocketsKnown, Settling, NEW how \in Ended, Terminate(how),
         how = "stopped" => pc = "bye"
  PROVE  Kept' /\ SocketsKnown' /\ Settling'
  <1>1. Kept'
    BY TerminateKeeps
  <1>2. pc' \in Ended
    BY DEF Terminate
  <1>3. SocketsKnown' /\ Settling'
    BY <1>2 DEF SocketsKnown, Settling, Ended
  <1> QED BY <1>1, <1>3

\* Every step of the server keeps its books.
LEMMA ServerKeeps ==
  ASSUME Kept, SocketsKnown, Settling, ServerStep
  PROVE  Kept' /\ SocketsKnown' /\ Settling'
  <1> DEFINE Goal == Kept' /\ SocketsKnown' /\ Settling'
  <1>0. ASSUME Die PROVE Goal
    BY <1>0, EndKeeps DEF Die, Ended
  <1>1. CASE Select
    BY <1>1, SelectKeeps, OtherSockets
  <1>2. CASE Accepting
    <2>1. ASSUME NEW p \in Conns, AcceptConnection(p) PROVE Goal
      BY <2>1, AcceptKeeps, AcceptSockets
    <2>2. CASE AcceptFails
      BY <2>2, <1>0 DEF AcceptFails
    <2> QED BY <1>2, <2>1, <2>2 DEF Accepting
  <1>3. CASE Identifying
    <2>1. ASSUME NEW p \in Conns, NewClient(p) PROVE Goal
      BY <2>1, IdentifyKeeps, NewClientSockets
    <2>2. ASSUME NEW p \in Conns, RefuseClient(p) PROVE Goal
      BY <2>2, IdentifyKeeps, RefuseSockets
    <2>3. ASSUME NEW p \in Conns, ReturnClient(p) PROVE Goal
      BY <2>3, IdentifyKeeps, ReturnSockets
    <2>4. ASSUME NEW p \in Conns, NoIdentity(p) \/ IdentityUnrefusable(p) PROVE Goal
      BY <2>4, <1>0 DEF NoIdentity, IdentityUnrefusable
    <2> QED BY <1>3, <2>1, <2>2, <2>3, <2>4 DEF Identifying
  <1>4. CASE Draining
    <2>1. CASE SendQueued \/ AckQueued
      BY <2>1, DrainKeeps, OtherSockets
    <2>2. CASE QueueEmptied
      BY <2>2, DrainKeeps, EmptiedSockets
    <2>3. CASE SendQueuedFails
      BY <2>3, <1>0 DEF SendQueuedFails
    <2> QED BY <1>4, <2>1, <2>2, <2>3 DEF Draining
  <1>5. CASE Forwarding
    <2>1. CASE ReceiveDatagram \/ Skip \/ Enqueue \/ Forward \/ AckForward \/ Forwarded
      BY <2>1, ForwardKeeps, OtherSockets
    <2>2. CASE ReceiveMalformed \/ ForwardFails
      BY <2>2, <1>0 DEF ReceiveMalformed, ForwardFails
    <2> QED BY <1>5, <2>1, <2>2 DEF Forwarding
  <1>6. CASE Leaving
    <2>1. CASE ReceiveExit \/ SayBye \/ AckBye
      <3>1. pc' \in {"bye", "bye_ack"}
        BY <2>1 DEF ReceiveExit, SayBye, AckBye
      <3>2. SocketsKnown' /\ Settling'
        BY <3>1 DEF SocketsKnown, Settling
      <3> QED BY <2>1, <3>2, ByeKeeps
    <2>2. CASE ByeFails
      BY <2>2, <1>0 DEF ByeFails
    <2>3. CASE Stop
      BY <2>3, EndKeeps DEF Stop, Ended
    <2> QED BY <1>6, <2>1, <2>2, <2>3 DEF Leaving
  <1>7. CASE LackAck
    BY <1>7, <1>0 DEF LackAck
  <1>8. CASE Commands
    <2>1. ASSUME NEW i \in Fds, NEW k \in 1..Len(clients), ManageCommand(i, k) PROVE Goal
      BY <2>1, CommandKeeps, OtherSockets
    <2>2. ASSUME NEW i \in Fds, NEW k \in 1..Len(clients), ManageExit(i, k) PROVE Goal
      BY <2>2, CommandKeeps, ExitSockets
    <2>3. ASSUME NEW i \in Fds, NEW k \in 1..Len(clients), ResponseFails(i, k) \/ Corrupt(i, k)
          PROVE  Goal
      BY <2>3, <1>0 DEF ResponseFails, Corrupt
    <2> QED BY <1>8, <2>1, <2>2, <2>3 DEF Commands
  <1> QED BY <1>1, <1>2, <1>3, <1>4, <1>5, <1>6, <1>7, <1>8 DEF ServerStep

\* What the server's books speak of; a subscriber, a user or a publisher
\* changes none of it.
bookVars == <<pc, clients, file, read_fds, fdmax, new_sockfd, at>>

\* A step that touches none of this keeps it.
LEMMA BooksUntouched ==
  ASSUME Bookkeeping, TypeOK', UNCHANGED bookVars
  PROVE  Bookkeeping'
  <1>1. Placed' /\ DescriptorsBelow' /\ FdmaxCovers'
    BY DEF Bookkeeping, Placed, DescriptorsBelow, FdmaxCovers, Unregistered, bookVars
  <1>2. SocketsKnown' /\ Settling'
    BY DEF Bookkeeping, SocketsKnown, Settling, Online, bookVars
  <1> QED BY <1>1, <1>2 DEF Bookkeeping

\* Every step of the system keeps the books.
LEMMA NextBookkeeping == Bookkeeping /\ [Next]_vars => Bookkeeping'
  <1> SUFFICES ASSUME Bookkeeping, [Next]_vars PROVE Bookkeeping'
    OBVIOUS
  <1>0. TypeOK /\ WireTypeOK /\ SubTypeOK /\ ServerTypeOK
    BY DEF Bookkeeping, TypeOK
  <1>1. CASE ServerRuns
    <2>1. Kept /\ SocketsKnown /\ Settling /\ ServerStep
      BY <1>0, <1>1 DEF Bookkeeping, Kept, ServerRuns
    <2>2. Kept' /\ SocketsKnown' /\ Settling'
      BY <2>1, ServerKeeps
    <2>3. SubTypeOK'
      BY <1>0, <1>1 DEF ServerRuns, SubTypeOK, subVars
    <2> QED BY <2>2, <2>3 DEF Bookkeeping, Kept, TypeOK
  <1>2. CASE Environment
    <2>1. TypeOK'
      BY <1>0, <1>2, EnvironmentType
    <2>2. UNCHANGED bookVars
      BY <1>2 DEF Environment, UserConnects, UserTypes, Kill, Publish, PublishMalformed,
                  TypeServerExit, bookVars, serverVars, setVars
    <2> QED BY <2>1, <2>2, BooksUntouched
  <1>3. ASSUME NEW p \in Conns, ProcessRuns(p) PROVE Bookkeeping'
    <2>1. SubscriberStep(p) /\ UNCHANGED serverVars
      BY <1>3 DEF ProcessRuns
    <2>2. WireTypeOK' /\ SubTypeOK'
      BY <1>0, <2>1, SubscriberType
    <2>3. ServerTypeOK'
      BY <1>0, <2>1 DEF ServerTypeOK, serverVars, setVars, inputVars
    <2>4. UNCHANGED bookVars
      BY <2>1 DEF serverVars, setVars, bookVars
    <2> QED BY <2>2, <2>3, <2>4, BooksUntouched DEF TypeOK
  <1>4. CASE UNCHANGED vars
    <2>1. UNCHANGED <<wireVars, serverVars, subVars>>
      BY <1>4 DEF vars
    <2>2. TypeOK'
      BY <1>0, <2>1 DEF TypeOK, WireTypeOK, SubTypeOK, ServerTypeOK, wireVars, serverVars,
                        subVars, setVars, inputVars
    <2>3. UNCHANGED bookVars
      BY <2>1 DEF serverVars, setVars, bookVars
    <2> QED BY <2>2, <2>3, BooksUntouched
  <1> QED BY <1>1, <1>2, <1>3, <1>4 DEF Next

\* The server's books are in order in every reachable state: whatever the
\* subscribers do, the walks of server_util.c stand on a client, a connection
\* being set up has a socket that is nobody else's, and the sets, fdmax, the
\* clients and the open descriptors agree.
THEOREM BooksInOrder == Spec => []Bookkeeping
  BY InitBookkeeping, NextBookkeeping, PTL DEF Spec

\* Every variable of the two programs and of the connections between them
\* keeps its type.
THEOREM TypeCorrect == Spec => []TypeOK
  <1>1. Bookkeeping => TypeOK
    BY DEF Bookkeeping
  <1> QED BY <1>1, BooksInOrder, PTL

\* select() is told of every socket that is watched, though fdmax is only
\* counted up and down (server_util.c:225, 246, 340).
THEOREM EverySocketSeen == Spec => []FdmaxCovers
  <1>1. Bookkeeping => FdmaxCovers
    BY DEF Bookkeeping
  <1> QED BY <1>1, BooksInOrder, PTL

\* No open socket is more than one above fdmax, so that the ++ that follows
\* accept() is enough.
THEOREM DescriptorsBounded == Spec => []DescriptorsBelow
  <1>1. Bookkeeping => DescriptorsBelow
    BY DEF Bookkeeping
  <1> QED BY <1>1, BooksInOrder, PTL

\* Every watched socket is open and belongs to one online client, so that
\* the client get_client_by_sock looks up for it exists (server_util.c:275).
THEOREM EverySocketKnown == Spec => []SocketsKnown
  <1>1. Bookkeeping => SocketsKnown
    BY DEF Bookkeeping
  <1> QED BY <1>1, BooksInOrder, PTL
=============================================================================
