-------------------------- MODULE RefinementProofs --------------------------
(***************************************************************************)
(* Proof that Broker implements Delivery under the mapping Promise, while  *)
(* users wait their turn and nobody is killed: the first state is a first  *)
(* state of Delivery, and every step is a step of Delivery or leaves what  *)
(* it speaks of as it was.                                                 *)
(***************************************************************************)
EXTENDS PacingProofs

\* What an identifier is owed: what is under way to it, then its queue.
OwedTo(i) == UnderWay(i) \o Queued(i)

\* The state and the step in which the step is taken.
Steady == Calm /\ Calm' /\ [Next]_vars

-----------------------------------------------------------------------------
\* The steps of Delivery, identifier by identifier.

\* Nothing the promise speaks of moves: Delivery stutters.
LEMMA Stuttering ==
  ASSUME UNCHANGED pub,
         \A i \in Ids : /\ Wants(i)' = Wants(i) /\ NextFor(i)' = NextFor(i)
                        /\ OwedTo(i)' = OwedTo(i) /\ Published(i)' = Published(i)
  PROVE  UNCHANGED Promise!vars
  BY DEF Promise!vars, OwedTo

\* A publication arrives.
LEMMA Arriving ==
  ASSUME NEW topic \in Topics, pub' = Append(pub, topic),
         \A i \in Ids : /\ Wants(i)' = Wants(i) /\ NextFor(i)' = NextFor(i)
                        /\ OwedTo(i)' = OwedTo(i) /\ Published(i)' = Published(i)
  PROVE  Promise!Next
  <1>1. Promise!Arrive(topic)
    BY DEF Promise!Arrive, OwedTo
  <1> QED BY <1>1 DEF Promise!Next

\* Some identifiers are decided upon.
LEMMA Deciding ==
  ASSUME NEW S \in SUBSET Ids, S # {}, UNCHANGED pub,
         \A i \in S :
           /\ NextFor(i) <= Len(pub) /\ NextFor(i)' = NextFor(i) + 1
           /\ OwedTo(i)' = IF pub[NextFor(i)] \in Wants(i)
                             THEN Append(OwedTo(i), NextFor(i)) ELSE OwedTo(i),
         \A i \in Ids \ S : NextFor(i)' = NextFor(i) /\ OwedTo(i)' = OwedTo(i),
         \A i \in Ids : Wants(i)' = Wants(i) /\ Published(i)' = Published(i)
  PROVE  Promise!Next
  <1>1. Promise!Decide(S)
    BY DEF Promise!Decide, OwedTo
  <1> QED BY <1>1 DEF Promise!Next

\* One is shown what it is owed first.
LEMMA Showing ==
  ASSUME NEW i \in Ids, UNCHANGED pub, OwedTo(i) # << >>,
         Published(i)' = Append(Published(i), Head(OwedTo(i))), OwedTo(i)' = Tail(OwedTo(i)),
         \A j \in Ids : Wants(j)' = Wants(j) /\ NextFor(j)' = NextFor(j),
         \A j \in Ids \ {i} : OwedTo(j)' = OwedTo(j) /\ Published(j)' = Published(j)
  PROVE  Promise!Next
  <1>1. Promise!Show(i)
    BY DEF Promise!Show, OwedTo
  <1> QED BY <1>1 DEF Promise!Next

\* One changes its mind.
LEMMA Changing ==
  ASSUME NEW i \in Ids, UNCHANGED pub,
         \A j \in Ids \ {i} : Wants(j)' = Wants(j),
         \A j \in Ids : /\ NextFor(j)' = NextFor(j) /\ OwedTo(j)' = OwedTo(j)
                        /\ Published(j)' = Published(j)
  PROVE  Promise!Next
  <1>1. Wants(i)' \in SUBSET Topics
    BY DEF Wants
  <1>2. Promise!Change(i)
    BY <1>1 DEF Promise!Change, OwedTo
  <1> QED BY <1>2 DEF Promise!Next

-----------------------------------------------------------------------------
\* What the mapping says of a state.

\* What is owed behind what is under way.
LEMMA OwedSequences ==
  ASSUME NEW n \in Nat, NEW s \in Seq(Nat)
  PROVE  /\ Head(<<n>> \o s) = n /\ Tail(<<n>> \o s) = s /\ <<n>> \o s # << >>
         /\ << >> \o s = s
         /\ <<n>> \o << >> = Append(<< >>, n)
  <1>1. /\ <<n>> \o s \in Seq(Nat) /\ Len(<<n>> \o s) = Len(s) + 1 /\ (<<n>> \o s)[1] = n
        /\ \A k \in 1..Len(s) : (<<n>> \o s)[k + 1] = s[k]
    OBVIOUS
  <1>2. Tail(<<n>> \o s) = s
    <2>1. Tail(<<n>> \o s) \in Seq(Nat) /\ Len(Tail(<<n>> \o s)) = Len(s)
      BY <1>1
    <2>2. \A k \in 1..Len(s) : Tail(<<n>> \o s)[k] = s[k]
      BY <1>1
    <2> QED BY <2>1, <2>2
  <1> QED BY <1>1, <1>2

\* The publications under way to an identifier.
Carried(i) ==
  {n \in Nat : \E p \in Conns : IdOf[p] = i /\ \E k \in Carrying(p) : s2c[p][k].n = n}

NoneCarried == \A p \in Conns : Carrying(p) = {}

FlightIs == \A i \in Ids : InFlight(i) = Carried(i)

\* What is under way is what a message that carries data says.
LEMMA FlightIsHolds == Calm => FlightIs
  <1> SUFFICES ASSUME Calm, NEW i \in Ids PROVE InFlight(i) = Carried(i)
    BY DEF FlightIs
  <1>1. WireTypeOK /\ ServerTypeOK /\ Numbered /\ CarriedNewer /\ Taken \in Nat
    BY DueType DEF Calm, Settled, Bookkeeping, TypeOK, InSequence
  <1>2. Len(pub) \in Nat /\ Taken <= Len(pub)
    BY <1>1 DEF Numbered, ServerTypeOK, Taken
  <1>3. ASSUME NEW p \in Conns, NEW k \in 1..Len(s2c[p])
        PROVE  \A n \in Nat : s2c[p][k] = Publication(n) <=> k \in Carrying(p) /\ s2c[p][k].n = n
    <2>1. s2c[p][k] \in S2C
      BY <1>1 DEF WireTypeOK
    <2> QED BY <2>1 DEF S2C, Publication, Carrying, DATA
  <1>4. \A p \in Conns : \A k \in Carrying(p) : s2c[p][k].n \in 1..Len(pub)
    BY <1>1, <1>2 DEF CarriedNewer
  <1>5. \A p \in Conns : Carrying(p) \subseteq 1..Len(s2c[p])
    BY DEF Carrying
  <1>6. ASSUME NEW n \in InFlight(i) PROVE n \in Carried(i)
    <2>1. n \in Nat
      BY <1>2 DEF InFlight
    <2> QED BY <1>3, <1>6, <2>1 DEF InFlight, Carried
  <1>7. ASSUME NEW n \in Carried(i) PROVE n \in InFlight(i)
    <2>1. PICK p \in Conns : IdOf[p] = i /\ \E k \in Carrying(p) : s2c[p][k].n = n
      BY <1>7 DEF Carried
    <2>2. PICK k \in Carrying(p) : s2c[p][k].n = n
      BY <2>1
    <2>3. k \in 1..Len(s2c[p]) /\ n \in 1..Len(pub) /\ n \in Nat
      BY <1>4, <1>5, <2>2
    <2>4. s2c[p][k] = Publication(n)
      BY <1>3, <2>2, <2>3
    <2> QED BY <2>1, <2>3, <2>4 DEF InFlight
  <1> QED BY <1>6, <1>7

\* Nothing is, or one publication to one identifier.
NoneUnderWay == NoneCarried => \A i \in Ids : UnderWay(i) = << >>

\* Without such a message nothing is under way.
LEMMA NoneUnderWayHolds == Calm => NoneUnderWay
  <1> SUFFICES ASSUME Calm, NoneCarried, NEW i \in Ids PROVE UnderWay(i) = << >>
    BY DEF NoneUnderWay
  <1>1. Carried(i) = {}
    BY DEF Carried, NoneCarried
  <1> QED BY <1>1, FlightIsHolds DEF FlightIs, UnderWay

OnlyCarries(p, n) ==
  /\ \A q \in Conns : Carrying(q) # {} => q = p
  /\ Carrying(p) # {}
  /\ \A k \in Carrying(p) : s2c[p][k].n = n

OneUnderWay ==
  \A p \in Conns : \A n \in Nat : OnlyCarries(p, n) =>
    \A i \in Ids : UnderWay(i) = IF i = IdOf[p] THEN <<n>> ELSE << >>

\* With one, its publication is, to the identifier of its process.
LEMMA OneUnderWayHolds == Calm => OneUnderWay
  <1> SUFFICES ASSUME Calm, NEW p \in Conns, NEW n \in Nat, OnlyCarries(p, n), NEW i \in Ids
               PROVE  UnderWay(i) = IF i = IdOf[p] THEN <<n>> ELSE << >>
    BY DEF OneUnderWay
  <1>1. Carried(i) = IF i = IdOf[p] THEN {n} ELSE {}
    BY DEF Carried, OnlyCarries
  <1>2. InFlight(i) = IF i = IdOf[p] THEN {n} ELSE {}
    BY <1>1, FlightIsHolds DEF FlightIs
  <1> QED BY <1>2 DEF UnderWay

\* Between two conversations of the server, and after its end.
NoneThere == pc \notin AckWaits \/ Acked => NoneCarried

\* The server is not waiting, or holds the acknowledgement: nothing is on its
\* way.
LEMMA NoneThereHolds == Calm => NoneThere
  <1> SUFFICES ASSUME Calm, pc \notin AckWaits \/ Acked PROVE NoneCarried
    BY DEF NoneThere
  <1>1. CASE pc \in Ended
    BY <1>1 DEF Calm, Pace, NoneCarried
  <1>2. CASE pc \notin Ended
    BY <1>2, NothingCarried DEF Calm, NoneCarried
  <1> QED BY <1>1, <1>2

\* What an identifier is next decided upon for: what the server has in its
\* hand while it walks over the clients and has not come by.
Walking == pc \in {"deliver", "await_ack"}

TakenIs ==
  /\ Taken \in Nat /\ Taken <= Len(pub) /\ Len(pub) \in Nat
  /\ Walking => cur = Taken /\ Taken \in 1..Len(pub)
  /\ ~Walking => cur = 0

\* The datagram in hand is the last one taken; outside the walk there is none.
LEMMA TakenIsHolds == Calm => TakenIs
  <1> SUFFICES ASSUME Calm PROVE TakenIs
    OBVIOUS
  <1>1. /\ ServerTypeOK /\ Numbered /\ Taken \in Nat
        /\ Walking => cur = Taken /\ cur # 0
        /\ ~Walking => cur = 0
    BY DueType DEF Calm, Settled, Bookkeeping, TypeOK, InSequence, Numbered, Pace, Walking
  <1>2. Len(pub) \in Nat /\ Len(udp) \in Nat /\ Taken = Len(pub) - Len(udp) /\ Len(udp) <= Len(pub)
    BY <1>1 DEF ServerTypeOK, Taken, Numbered
  <1> QED BY <1>1, <1>2 DEF TakenIs

NextIs == \A i \in Ids : NextFor(i) = IF Walking /\ ~Decided(i) THEN Taken ELSE Taken + 1

\* What is next for an identifier follows from whether the walk has passed its
\* client.
LEMMA NextIsHolds == Calm => NextIs
  <1> SUFFICES ASSUME Calm, NEW i \in Ids
               PROVE  NextFor(i) = IF Walking /\ ~Decided(i) THEN Taken ELSE Taken + 1
    BY DEF NextIs
  <1>1. CASE Walking
    <2>1. cur = Taken /\ cur # 0
      BY <1>1, TakenIsHolds DEF TakenIs
    <2> QED BY <1>1, <2>1 DEF NextFor
  <1>2. CASE ~Walking
    <2>1. cur = 0 /\ ServerTypeOK /\ Numbered /\ Taken \in Nat
      BY <1>2, TakenIsHolds DEF TakenIs, Calm, Settled, Bookkeeping, TypeOK, InSequence
    <2>2. CASE udp = << >>
      BY <1>2, <2>1, <2>2 DEF NextFor, Taken, ServerTypeOK
    <2>3. CASE udp # << >>
      <3>1. Len(udp) >= 1 /\ Head(udp) = udp[1]
        BY <2>1, <2>3 DEF ServerTypeOK
      <3>2. Head(udp) = Taken + 1
        BY <2>1, <3>1 DEF Numbered, ServerTypeOK
      <3> QED BY <1>2, <2>1, <2>3, <3>2 DEF NextFor
    <2> QED BY <2>2, <2>3
  <1> QED BY <1>1, <1>2

\* While the server runs, all that has been shown was published.
PublishedIs == pc \notin Ended => \A i \in Ids : Published(i) = shown[i]

\* There is no phantom to leave out.
LEMMA PublishedIsHolds == Calm => PublishedIs
  <1> SUFFICES ASSUME Calm, pc \notin Ended, NEW i \in Ids PROVE Published(i) = shown[i]
    BY DEF PublishedIs
  <1>1. shown[i] \in Seq(Nat)
    BY DEF Calm, Settled, Bookkeeping, TypeOK, SubTypeOK
  <1>2. PICK n \in Nat : n = Len(shown[i])
    BY <1>1
  <1>3. shown[i] # << >> => n \in 1..Len(shown[i])
    BY <1>1, <1>2
  <1>4. shown[i] # << >> => shown[i][n] # 0
    BY <1>3 DEF Calm, Phantoms
  <1> QED BY <1>2, <1>4 DEF Published

\* An identifier has one client at most.
SoleClient ==
  pc \notin {"bye", "bye_ack"} \cup Ended =>
    \A k \in 1..Len(clients) : ClientsOf(clients[k].id) = {k}

\* Two clients would have different identifiers.
LEMMA SoleClientHolds == Calm => SoleClient
  <1> SUFFICES ASSUME Calm, pc \notin {"bye", "bye_ack"} \cup Ended, NEW k \in 1..Len(clients)
               PROVE  ClientsOf(clients[k].id) = {k}
    BY DEF SoleClient
  <1>1. ServerTypeOK /\ SocketsKnown
    BY DEF Calm, Settled, Bookkeeping, TypeOK
  <1>2. \A j, l \in 1..Len(clients) : j < l => clients[j].id # clients[l].id
    <2> SUFFICES ASSUME NEW j \in 1..Len(clients), NEW l \in 1..Len(clients), j < l
                 PROVE  clients[j].id # clients[l].id
      OBVIOUS
    <2>1. PICK n \in Nat : n = Len(clients)
      BY <1>1 DEF ServerTypeOK
    <2>2. j \in 1..(l - 1)
      BY <2>1
    <2> QED BY <1>1, <2>2 DEF SocketsKnown
  <1>3. PICK n \in Nat : n = Len(clients)
    BY <1>1 DEF ServerTypeOK
  <1> QED BY <1>2, <1>3 DEF ClientsOf

\* The queue of an identifier is that of its client.
QueueIs ==
  /\ \A i \in Ids : Queued(i) \in Seq(Nat)
  /\ pc \notin {"bye", "bye_ack"} \cup Ended =>
       \A k \in 1..Len(clients) : Queued(clients[k].id) = clients[k].queue

\* So the queue the mapping chooses is the only one there is.
LEMMA QueueIsHolds == Calm => QueueIs
  <1> SUFFICES ASSUME Calm PROVE QueueIs
    OBVIOUS
  <1>1. ServerTypeOK
    BY DEF Calm, Settled, Bookkeeping, TypeOK
  <1>2. ASSUME NEW i \in Ids PROVE Queued(i) \in Seq(Nat)
    <2>1. CASE ClientsOf(i) = {}
      BY <2>1 DEF Queued
    <2>2. CASE ClientsOf(i) # {}
      <3>1. (CHOOSE k \in ClientsOf(i) : TRUE) \in 1..Len(clients)
        BY <2>2 DEF ClientsOf
      <3> QED BY <1>1, <2>2, <3>1, QueueType DEF Queued
    <2> QED BY <2>1, <2>2
  <1>3. ASSUME pc \notin {"bye", "bye_ack"} \cup Ended, NEW k \in 1..Len(clients)
        PROVE  Queued(clients[k].id) = clients[k].queue
    <2>1. ClientsOf(clients[k].id) = {k}
      BY <1>3, SoleClientHolds DEF SoleClient
    <2>2. (CHOOSE j \in {k} : TRUE) = k
      OBVIOUS
    <2> QED BY <2>1, <2>2 DEF Queued
  <1> QED BY <1>2, <1>3 DEF QueueIs

\* All of this together.
Mapped ==
  /\ FlightIs /\ NoneUnderWay /\ OneUnderWay /\ NoneThere /\ TakenIs /\ NextIs
  /\ PublishedIs /\ SoleClient /\ QueueIs

\* Each of these follows from Calm, so that in the next state it follows from
\* Calm'.
LEMMA MappedHolds == Calm => Mapped
  BY FlightIsHolds, NoneUnderWayHolds, OneUnderWayHolds, NoneThereHolds, TakenIsHolds, NextIsHolds,
     PublishedIsHolds, SoleClientHolds, QueueIsHolds DEF Mapped

-----------------------------------------------------------------------------
\* Steps that leave the promise where it was.

\* Identifiers, lists and presence unchanged: nobody changes his mind.
LEMMA WantsSame ==
  ASSUME Len(clients') = Len(clients),
         \A k \in 1..Len(clients) :
           /\ clients'[k].id = clients[k].id /\ clients'[k].subs = clients[k].subs
           /\ clients'[k].online = clients[k].online
  PROVE  \A i \in Ids : ClientsOf(i)' = ClientsOf(i) /\ Wants(i)' = Wants(i)
  <1> SUFFICES ASSUME NEW i \in Ids PROVE ClientsOf(i)' = ClientsOf(i) /\ Wants(i)' = Wants(i)
    OBVIOUS
  <1>1. ClientsOf(i)' = ClientsOf(i)
    BY DEF ClientsOf
  <1>2. \A k \in ClientsOf(i) : k \in 1..Len(clients)
    BY DEF ClientsOf
  <1>3. ASSUME NEW t \in Topics
        PROVE  (\E k \in ClientsOf(i) : Subscribed(clients'[k].subs, t)
                    /\ (clients'[k].online \/ StoreForward(clients'[k].subs, t)))
               <=> \E k \in ClientsOf(i) : Subscribed(clients[k].subs, t)
                    /\ (clients[k].online \/ StoreForward(clients[k].subs, t))
    BY <1>2
  <1> QED BY <1>1, <1>3 DEF Wants

\* Identifiers and queues unchanged: the mapping's queues are, too.
LEMMA QueuedSame ==
  ASSUME Len(clients') = Len(clients),
         \A k \in 1..Len(clients) :
           clients'[k].id = clients[k].id /\ clients'[k].queue = clients[k].queue
  PROVE  \A i \in Ids : Queued(i)' = Queued(i)
  <1> SUFFICES ASSUME NEW i \in Ids PROVE Queued(i)' = Queued(i)
    OBVIOUS
  <1>1. ClientsOf(i)' = ClientsOf(i)
    BY DEF ClientsOf
  <1>2. CASE ClientsOf(i) = {}
    BY <1>1, <1>2 DEF Queued
  <1>3. CASE ClientsOf(i) # {}
    <2>1. (CHOOSE k \in ClientsOf(i) : TRUE) \in ClientsOf(i)
      BY <1>3
    <2>2. PICK c \in 1..Len(clients) : c = CHOOSE k \in ClientsOf(i) : TRUE
      BY <2>1 DEF ClientsOf
    <2>3. Queued(i) = clients[c].queue /\ Queued(i)' = clients'[c].queue
      BY <1>1, <1>3, <2>2 DEF Queued
    <2> QED BY <2>3
  <1> QED BY <1>2, <1>3

\* Outside the walk over the clients nothing is under way, and an identifier is
\* next decided upon for the next datagram the server takes.
LEMMA OutsideWalk ==
  ASSUME Mapped, Mapped', UNCHANGED <<udp, pub, shown>>, ~Walking, ~Walking',
         NoneCarried, NoneCarried', NEW i \in Ids, Queued(i)' = Queued(i)
  PROVE  NextFor(i)' = NextFor(i) /\ OwedTo(i)' = OwedTo(i) /\ Published(i)' = Published(i)
  <1>1. NextFor(i)' = Taken' + 1 /\ NextFor(i) = Taken + 1
    BY DEF Mapped, NextIs
  <1>2. Taken' = Taken
    BY DEF Taken
  <1>3. UnderWay(i)' = << >> /\ UnderWay(i) = << >>
    BY DEF Mapped, NoneUnderWay
  <1> QED BY <1>1, <1>2, <1>3 DEF OwedTo, Published

\* A step outside the walk that touches no client stutters.
LEMMA QuietStutter ==
  ASSUME Mapped, Mapped', UNCHANGED <<clients, udp, pub, shown>>, ~Walking, ~Walking',
         NoneCarried, pc' \notin AckWaits \/ CarriesLess
  PROVE  UNCHANGED Promise!vars
  <1>1. NoneCarried'
    BY DEF Mapped, NoneThere, CarriesLess, NoneCarried
  <1>2. \A i \in Ids : Wants(i)' = Wants(i) /\ Queued(i)' = Queued(i)
    BY WantsSame, QueuedSame
  <1> QED BY <1>1, <1>2, OutsideWalk, Stuttering

-----------------------------------------------------------------------------
\* The server outside its walk over the clients.

\* What one client subscribes to, or whether it is there, changes what its own
\* identifier wants and nothing else.
LEMMA OneChanges ==
  ASSUME Mapped, Mapped', UNCHANGED <<udp, pub, shown>>, ~Walking, ~Walking',
         NoneCarried, NoneCarried', ServerTypeOK, NEW k \in 1..Len(clients),
         Len(clients') = Len(clients),
         \A j \in 1..Len(clients) :
           clients'[j].id = clients[j].id /\ clients'[j].queue = clients[j].queue,
         \A j \in 1..Len(clients) : j # k =>
           clients'[j].subs = clients[j].subs /\ clients'[j].online = clients[j].online
  PROVE  Promise!Next
  <1>1. \A i \in Ids : Queued(i)' = Queued(i)
    BY QueuedSame
  <1>2. \A i \in Ids : /\ NextFor(i)' = NextFor(i) /\ OwedTo(i)' = OwedTo(i)
                       /\ Published(i)' = Published(i)
    BY <1>1, OutsideWalk
  <1>3. clients[k].id \in Ids
    BY QueueType
  <1>4. ASSUME NEW i \in Ids \ {clients[k].id} PROVE Wants(i)' = Wants(i)
    <2>1. ClientsOf(i)' = ClientsOf(i)
      BY DEF ClientsOf
    <2>2. \A j \in ClientsOf(i) : j \in 1..Len(clients) /\ j # k
      BY <1>4 DEF ClientsOf
    <2>3. \A j \in ClientsOf(i) :
            clients'[j].subs = clients[j].subs /\ clients'[j].online = clients[j].online
      BY <2>2
    <2>4. ASSUME NEW t \in Topics
          PROVE  (\E j \in ClientsOf(i) : Subscribed(clients'[j].subs, t)
                    /\ (clients'[j].online \/ StoreForward(clients'[j].subs, t)))
               <=> \E j \in ClientsOf(i) : Subscribed(clients[j].subs, t)
                    /\ (clients[j].online \/ StoreForward(clients[j].subs, t))
      BY <2>3
    <2> QED BY <2>1, <2>4 DEF Wants
  <1> QED BY <1>2, <1>3, <1>4, Changing

\* A command changes one list at most, though not always the commander's own.
LEMMA OneListChanges ==
  ASSUME ServerTypeOK, NEW k \in 1..Len(clients), NEW m \in C2S, NEW c \in AfterCommand(k, m)
  PROVE  \E j \in 1..Len(clients) : \A l \in 1..Len(clients) :
           l # j => c[l].subs = clients[l].subs
  <1>1. CASE m.type = SUBSCRIBE
    <2> DEFINE lists == [j \in 1..Len(clients) |-> clients[j].subs]
               node == [topic |-> m.topic, sf |-> m.sf]
    <2>1. CASE Subscribed(lists[k], m.topic)
      <3>1. c = [clients EXCEPT ![k].subs = SetSf(@, m.topic, m.sf)]
        BY <1>1, <2>1 DEF AfterCommand, AfterSubscribe
      <3>2. \A l \in 1..Len(clients) : l # k => c[l] = clients[l]
        BY <3>1 DEF ServerTypeOK
      <3> QED BY <3>2
    <2>2. CASE ~Subscribed(lists[k], m.topic)
      <3>1. PICK new \in Appended(lists, k, node) :
              c = [j \in 1..Len(clients) |-> [clients[j] EXCEPT !.subs = new[j]]]
        BY <1>1, <2>2 DEF AfterCommand, AfterSubscribe
      <3>2. \E j \in 1..Len(clients) : \A l \in 1..Len(clients) : l # j => new[l] = lists[l]
        <4> HIDE DEF lists
        <4>0. lists \in [1..Len(clients) -> {clients[j].subs : j \in 1..Len(clients)}]
          BY DEF lists
        <4>1. CASE ~Dangling(lists[k])
          <5>1. new = [lists EXCEPT ![k] = AddLast(@, node)]
            BY <3>1, <4>1 DEF Appended
          <5> QED BY <4>0, <5>1
        <4>2. CASE Dangling(lists[k])
          <5>1. \/ new = lists
                \/ \E j \in DOMAIN lists \ {k} : \E l : new = [lists EXCEPT ![j] = l]
            BY <3>1, <4>2 DEF Appended
          <5>2. CASE new = lists
            BY <5>2
          <5>3. ASSUME NEW j \in DOMAIN lists \ {k}, NEW l, new = [lists EXCEPT ![j] = l]
                PROVE  \E h \in 1..Len(clients) : \A g \in 1..Len(clients) : g # h => new[g] = lists[g]
            <6>1. DOMAIN lists = 1..Len(clients)
              BY <4>0
            <6>2. \A g \in 1..Len(clients) : g # j => new[g] = lists[g]
              BY <5>3, <6>1
            <6> QED BY <6>1, <6>2
          <5> QED BY <5>1, <5>2, <5>3
        <4> QED BY <4>1, <4>2
      <3>3. \A l \in 1..Len(clients) : clients[l] \in Client
        BY DEF ServerTypeOK
      <3>4. \A l \in 1..Len(clients) : c[l].subs = new[l]
        BY <3>1, <3>3 DEF Client
      <3> QED BY <3>2, <3>4
    <2> QED BY <2>1, <2>2
  <1>2. CASE m.type = UNSUBSCRIBE
    <2>1. c = [clients EXCEPT ![k].subs = Unsubscribe(@, m.topic)]
      BY <1>2 DEF AfterCommand, AfterUnsubscribe, SUBSCRIBE, UNSUBSCRIBE
    <2>2. \A l \in 1..Len(clients) : l # k => c[l] = clients[l]
      BY <2>1 DEF ServerTypeOK
    <2> QED BY <2>2
  <1>3. CASE m.type \notin {SUBSCRIBE, UNSUBSCRIBE}
    BY <1>3 DEF AfterCommand
  <1> QED BY <1>1, <1>2, <1>3

\* A command, and an exit, are a change of mind.
LEMMA CommandRefines ==
  ASSUME Running, Mapped, Mapped', UNCHANGED subVars, NEW i \in Fds, NEW k \in 1..Len(clients),
         ManageCommand(i, k) \/ ManageExit(i, k)
  PROVE  Promise!Next
  <1>1. /\ Commanding(i, k) /\ pc = "loop" /\ pc' = "loop"
        /\ UNCHANGED <<udp, pub, shown>> /\ ServerTypeOK /\ WireTypeOK
    BY CalmParts DEF ManageCommand, ManageExit, Commanding, Turn, inputVars, subVars
  <1>2. ~Walking /\ ~Walking' /\ NoneCarried /\ NoneCarried'
    BY <1>1 DEF Walking, Mapped, NoneThere, AckWaits
  <1>3. CASE ManageCommand(i, k)
    <2>1. Incoming(Peer(i)) \in C2S
      <3>1. Peer(i) \in Conns
        <4>1. clients[k].sock = i
          BY <1>1 DEF Commanding, IsBySock
        <4>2. SocketsKnown /\ pc \notin {"bye", "bye_ack"} \cup Ended
          BY <1>1, CalmParts DEF Bookkeeping, Ended
        <4>3. clients[k].online /\ file[i] # NoConn
          BY <4>1, <4>2 DEF SocketsKnown, Fds, FirstFd
        <4> QED BY <1>1, <4>3 DEF ServerTypeOK, Peer
      <3> QED BY <1>1, <3>1, HeaderType
    <2>2. clients' \in AfterCommand(k, Incoming(Peer(i)))
      BY <1>3 DEF ManageCommand
    <2>3. SameClients(clients')
      BY <1>1, <2>1, <2>2, CommandType
    <2>4. \A j \in 1..Len(clients) : clients'[j].queue = clients[j].queue
      BY <1>1, <2>1, <2>2, CommandQueues
    <2>5. PICK j \in 1..Len(clients) : \A l \in 1..Len(clients) :
            l # j => clients'[l].subs = clients[l].subs
      BY <1>1, <2>1, <2>2, OneListChanges
    <2> QED BY <1>1, <1>2, <2>3, <2>4, <2>5, OneChanges DEF SameClients
  <1>4. CASE ManageExit(i, k)
    <2>1. clients' = [clients EXCEPT ![k].sock = -1, ![k].online = FALSE]
      BY <1>4 DEF ManageExit
    <2>2. /\ Len(clients') = Len(clients)
          /\ \A l \in 1..Len(clients) : l # k => clients'[l] = clients[l]
          /\ clients'[k].id = clients[k].id /\ clients'[k].queue = clients[k].queue
      BY <1>1, <2>1 DEF ServerTypeOK, Client
    <2> QED BY <1>1, <1>2, <2>2, OneChanges
  <1> QED BY <1>3, <1>4

\* An identifier the server did not know wants nothing yet and is owed nothing.
LEMMA NewClientRefines ==
  ASSUME Running, Mapped, Mapped', UNCHANGED subVars, NEW p \in Conns, NewClient(p)
  PROVE  UNCHANGED Promise!vars
  <1>1. /\ ServerTypeOK /\ Settled /\ Identified(p) /\ pc = "await_id" /\ pc' = "loop"
        /\ UNCHANGED <<udp, pub, shown>>
    BY CalmParts DEF NewClient, Identified, Answering, Register, inputVars, subVars
  <1>2. ~Walking /\ ~Walking' /\ NoneCarried /\ NoneCarried'
    BY <1>1 DEF Walking, Mapped, NoneThere, AckWaits
  <1> DEFINE id == IdOf[p]
             new == [id |-> id, subs |-> EmptyList, sock |-> new_sockfd,
                     online |-> TRUE, queue |-> << >>]
  <1>3. clients' = Append(clients, new) /\ ~Known(id) /\ id \in Ids
    BY <1>1, AnswerNames, IdOfAssumption DEF NewClient
  <1>4. PICK n \in Nat : n = Len(clients)
    BY <1>1 DEF ServerTypeOK
  <1>5. /\ Len(clients') = n + 1 /\ clients'[n + 1] = new
        /\ \A k \in 1..n : clients'[k] = clients[k]
    BY <1>1, <1>3, <1>4 DEF ServerTypeOK
  <1>6. \A k \in 1..n : clients[k].id # id
    BY <1>3, <1>4 DEF Known
  <1>7. new.id = id /\ new.subs = EmptyList /\ new.queue = << >>
    OBVIOUS
  <1>8. \A t : ~Subscribed(EmptyList, t)
    <2>1. 1..Len(EmptyList.nodes) = {}
      BY DEF EmptyList
    <2> QED BY <2>1 DEF Subscribed, Hits
  <1>9. ASSUME NEW i \in Ids, i # id
        PROVE  Wants(i)' = Wants(i) /\ Queued(i)' = Queued(i)
    <2>1. ClientsOf(i)' = ClientsOf(i) /\ \A k \in ClientsOf(i) : k \in 1..n
      <3> HIDE DEF new, id
      <3> QED BY <1>4, <1>5, <1>7, <1>9 DEF ClientsOf
    <2>2. \A k \in ClientsOf(i) : clients'[k] = clients[k]
      BY <1>5, <2>1
    <2>3. Wants(i)' = Wants(i)
      BY <2>1, <2>2 DEF Wants
    <2>4. Queued(i)' = Queued(i)
      <3>1. CASE ClientsOf(i) = {}
        BY <2>1, <3>1 DEF Queued
      <3>2. CASE ClientsOf(i) # {}
        <4>1. (CHOOSE k \in ClientsOf(i) : TRUE) \in ClientsOf(i)
          BY <3>2
        <4> QED BY <2>1, <2>2, <3>2, <4>1 DEF Queued
      <3> QED BY <3>1, <3>2
    <2> QED BY <2>3, <2>4
  <1>10. ClientsOf(id) = {} /\ ClientsOf(id)' = {n + 1}
    <2> HIDE DEF new, id
    <2>1. ClientsOf(id) = {}
      BY <1>4, <1>6 DEF ClientsOf
    <2>2. 1..Len(clients') = 1..n \cup {n + 1}
      BY <1>5
    <2>3. \A k \in 1..n : clients'[k].id # id
      BY <1>5, <1>6
    <2>4. ClientsOf(id)' = {k \in 1..Len(clients') : clients'[k].id = id}
      BY DEF ClientsOf, id
    <2> QED BY <1>5, <1>7, <2>1, <2>2, <2>3, <2>4
  <1>11. Wants(id)' = Wants(id) /\ Queued(id)' = Queued(id)
    <2> HIDE DEF new, id
    <2>1. Wants(id) = {} /\ Wants(id)' = {}
      BY <1>5, <1>7, <1>8, <1>10 DEF Wants
    <2>2. (CHOOSE k \in {n + 1} : TRUE) = n + 1
      OBVIOUS
    <2>3. Queued(id) = << >> /\ Queued(id)' = << >>
      BY <1>5, <1>7, <1>10, <2>2 DEF Queued
    <2> QED BY <2>1, <2>3
  <1>12. \A i \in Ids : Wants(i)' = Wants(i) /\ Queued(i)' = Queued(i)
    BY <1>9, <1>11
  <1> QED BY <1>1, <1>2, <1>12, OutsideWalk, Stuttering

\* So is a return: a client that is online is sent what it subscribed to,
\* whatever sf says.
LEMMA ReturnRefines ==
  ASSUME Running, Mapped, Mapped', UNCHANGED subVars, NEW p \in Conns, ReturnClient(p)
  PROVE  Promise!Next
  <1>1. /\ ServerTypeOK /\ pc = "await_id" /\ pc' = "drain" /\ UNCHANGED <<udp, pub, shown>>
    BY CalmParts DEF ReturnClient, Identified, Answering, inputVars, subVars
  <1>2. ~Walking /\ ~Walking' /\ NoneCarried /\ NoneCarried'
    BY <1>1 DEF Walking, Mapped, NoneThere, AckWaits
  <1>3. PICK k \in 1..Len(clients) :
          clients' = [clients EXCEPT ![k].sock = new_sockfd, ![k].online = TRUE]
    BY DEF ReturnClient, IsById
  <1>4. /\ Len(clients') = Len(clients)
        /\ \A l \in 1..Len(clients) : l # k => clients'[l] = clients[l]
        /\ clients'[k].id = clients[k].id /\ clients'[k].queue = clients[k].queue
    BY <1>1, <1>3 DEF ServerTypeOK, Client
  <1> QED BY <1>1, <1>2, <1>4, OneChanges

\* Steps that touch no client, from and to states outside the walk.
LEMMA QuietRefines ==
  ASSUME Running, Mapped, Mapped', UNCHANGED subVars,
         \/ Select \/ QueueEmptied \/ AckQueued \/ ReceiveExit \/ SayBye \/ AckBye
         \/ \E p \in Conns : AcceptConnection(p) \/ RefuseClient(p)
  PROVE  UNCHANGED Promise!vars
  <1>1. UNCHANGED <<clients, udp, pub, shown>> /\ ~Walking /\ ~Walking'
    BY DEF Select, QueueEmptied, AckQueued, ReceiveExit, SayBye, AckBye, AcceptConnection,
           RefuseClient, Identified, Answering, Turn, Register, inputVars, subVars, Walking
  <1>2. pc \notin AckWaits \/ Acked
    BY DEF Select, QueueEmptied, AckQueued, ReceiveExit, SayBye, AckBye, AcceptConnection,
           RefuseClient, Identified, Answering, Turn, AckWaits
  <1>3. NoneCarried
    BY <1>2 DEF Mapped, NoneThere
  <1>4. CASE SayBye
    <2>1. /\ WireTypeOK /\ TypeOK /\ Settled /\ pc = "bye" /\ at <= Len(clients) /\ Here.sock # -1
          /\ s2c' = ToClient(HerePeer, Control(REFUSED))
      BY <1>4, CalmParts DEF SayBye, Send
    <2>2. Control(REFUSED) \in S2C /\ Control(REFUSED).type # DATA
      BY DEF Control, S2C, REFUSED, DATA
    <2>3. HerePeer \in Conns
      <3>1. at \in 1..Len(clients)
        BY <2>1 DEF Settled, Bookkeeping, Placed, TypeOK, ServerTypeOK
      <3>2. clients[at] \in Client
        BY <2>1, <3>1, ClientType DEF TypeOK
      <3>3. at \in at..Len(clients)
        BY <3>1
      <3>4. Here.sock \in Fds /\ file[Here.sock] # NoConn
        BY <2>1, <3>1, <3>2, <3>3 DEF Here, Client, Settled, InStep, PeersOpen
      <3> QED BY <2>1, <3>4 DEF HerePeer, Peer, TypeOK, ServerTypeOK
    <2>4. PICK p \in Conns : p = HerePeer
      BY <2>3
    <2>5. CarriesLess
      BY <2>1, <2>2, <2>4, LessSent
    <2> QED BY <1>1, <1>3, <2>5, QuietStutter
  <1>5. CASE ~SayBye
    <2>1. pc' \notin AckWaits
      BY <1>5 DEF Select, QueueEmptied, AckQueued, ReceiveExit, AckBye, AcceptConnection,
           RefuseClient, Identified, Answering, Turn, Register, AckWaits
    <2> QED BY <1>1, <1>3, <2>1, QuietStutter
  <1> QED BY <1>4, <1>5

\* The end of the server takes nothing with it.
LEMMA EndRefines ==
  ASSUME Running, Mapped, Mapped', UNCHANGED subVars, ServerStep, pc' \in Ended
  PROVE  UNCHANGED Promise!vars
  <1>1. /\ pc \in {"loop", "bye"}
        /\ UNCHANGED <<clients, udp, pub>>
    BY WaysToEnd DEF AcceptEnds, ByeEnds, CorruptEnds, MalformedEnds, Turn, Stop, Die,
       Terminate, inputVars
  <1>2. ~Walking /\ ~Walking' /\ NoneCarried /\ pc' \notin AckWaits
    BY <1>1 DEF Walking, Mapped, NoneThere, AckWaits, Ended
  <1> QED BY <1>1, <1>2, QuietStutter DEF subVars

-----------------------------------------------------------------------------
\* The server sending a publication.

\* It is then the only one under way.
LEMMA SendsOne ==
  ASSUME WireTypeOK, NoneCarried, NEW p \in Conns, NEW n \in Nat,
         s2c' = ToClient(p, Publication(n)), cliEnd[p] # "closed"
  PROVE  OnlyCarries(p, n)'
  <1>1. Publication(n) \in S2C /\ Publication(n).type = DATA /\ Publication(n).n = n
    BY DEF Publication, S2C, DATA
  <1>2. /\ \A q \in Conns : q # p => s2c'[q] = s2c[q]
        /\ Len(s2c'[p]) = Len(s2c[p]) + 1 /\ s2c'[p][Len(s2c[p]) + 1] = Publication(n)
        /\ \A k \in 1..Len(s2c[p]) : s2c'[p][k] = s2c[p][k]
    BY <1>1, Sent
  <1>3. PICK len \in Nat : len = Len(s2c[p])
    BY DEF WireTypeOK
  <1>4. Carrying(p)' = {len + 1}
    <2>1. \A k \in 1..len : s2c[p][k].type # DATA
      BY <1>3 DEF NoneCarried, Carrying
    <2>2. Carrying(p)' = {k \in 1..(len + 1) : s2c'[p][k].type = DATA}
      BY <1>2, <1>3 DEF Carrying
    <2>3. \A k \in 1..(len + 1) : s2c'[p][k].type = DATA <=> k = len + 1
      BY <1>1, <1>2, <1>3, <2>1
    <2> QED BY <2>2, <2>3
  <1>5. ASSUME NEW q \in Conns, q # p PROVE Carrying(q)' = {}
    BY <1>2, <1>5 DEF NoneCarried, Carrying
  <1> QED BY <1>1, <1>2, <1>3, <1>4, <1>5 DEF OnlyCarries

\* The client the server has come to, its identifier and its queue.
LEMMA HereIs ==
  ASSUME Running, Mapped, pc \in {"deliver", "await_ack", "drain", "drain_ack"},
         at \in 1..Len(clients)
  PROVE  \E k \in 1..Len(clients) : \E i \in Ids :
           k = at /\ clients[k].id = i /\ ClientsOf(i) = {k}
  <1>1. ServerTypeOK
    BY CalmParts
  <1>2. clients[at].id \in Ids
    BY <1>1, QueueType
  <1>3. ClientsOf(clients[at].id) = {at}
    BY DEF Mapped, SoleClient, Ended
  <1> QED BY <1>2, <1>3

\* The queue of an identifier's only client, before and after a step.
LEMMA QueueOfOne ==
  ASSUME NEW i \in Ids, NEW k, ClientsOf(i) = {k}, ClientsOf(i)' = {k}
  PROVE  Queued(i) = clients[k].queue /\ Queued(i)' = clients'[k].queue
  <1>1. (CHOOSE j \in {k} : TRUE) = k
    OBVIOUS
  <1> QED BY <1>1 DEF Queued

\* A step at one client leaves the queues of other identifiers alone.
LEMMA OthersQueued ==
  ASSUME NEW k \in 1..Len(clients), Len(clients') = Len(clients),
         \A l \in 1..Len(clients) : clients'[l].id = clients[l].id,
         \A l \in 1..Len(clients) : l # k => clients'[l].queue = clients[l].queue,
         NEW i \in Ids, i # clients[k].id
  PROVE  Queued(i)' = Queued(i)
  <1>1. ClientsOf(i)' = ClientsOf(i)
    BY DEF ClientsOf
  <1>2. CASE ClientsOf(i) = {}
    BY <1>1, <1>2 DEF Queued
  <1>3. CASE ClientsOf(i) # {}
    <2>1. (CHOOSE l \in ClientsOf(i) : TRUE) \in ClientsOf(i)
      BY <1>3
    <2>2. PICK c \in 1..Len(clients) : c = (CHOOSE l \in ClientsOf(i) : TRUE) /\ c # k
      BY <2>1 DEF ClientsOf
    <2>3. Queued(i) = clients[c].queue /\ Queued(i)' = clients'[c].queue
      BY <1>1, <1>3, <2>2 DEF Queued
    <2> QED BY <2>2, <2>3
  <1> QED BY <1>2, <1>3

\* What a change of one client's queue leaves alone.
LEMMA QueueChanges ==
  ASSUME ServerTypeOK, NEW k \in 1..Len(clients), NEW q \in Seq(Nat),
         clients' = [clients EXCEPT ![k].queue = q]
  PROVE  /\ Len(clients') = Len(clients) /\ clients'[k].queue = q
         /\ \A l \in 1..Len(clients) :
              /\ clients'[l].id = clients[l].id /\ clients'[l].subs = clients[l].subs
              /\ clients'[l].online = clients[l].online
              /\ l # k => clients'[l].queue = clients[l].queue
  <1>1. Len(clients') = Len(clients)
    BY ClientType
  <1>0. clients \in Seq(Client) /\ clients[k] \in Client
    BY ClientType DEF ServerTypeOK
  <1>2. clients'[k] = [clients[k] EXCEPT !.queue = q]
    BY <1>0
  <1>3. \A l \in 1..Len(clients) : l # k => clients'[l] = clients[l]
    BY <1>0
  <1> QED BY <1>0, <1>1, <1>2, <1>3 DEF Client

\* empty_queue sends what is owed first: nothing is owed more or less.
LEMMA SendQueuedRefines ==
  ASSUME Running, Mapped, Mapped', UNCHANGED subVars, SendQueued
  PROVE  UNCHANGED Promise!vars
  <1>1. /\ Settled /\ TypeOK /\ WireTypeOK /\ ServerTypeOK /\ Settling /\ SocketsKnown /\ Placed
        /\ pc = "drain" /\ pc' = "drain_ack" /\ Here.queue # << >>
        /\ clients' = [clients EXCEPT ![at].queue = Tail(@)]
        /\ s2c' = ToClient(HerePeer, Publication(Head(Here.queue)))
        /\ UNCHANGED <<udp, pub, shown, cur>>
    BY CalmParts DEF SendQueued, inputVars, subVars, Bookkeeping
  <1>2. at \in 1..Len(clients)
    BY <1>1 DEF Placed
  <1>3. PICK k \in 1..Len(clients), i \in Ids : k = at /\ clients[k].id = i /\ ClientsOf(i) = {k}
    BY <1>1, <1>2, HereIs
  <1>4. Here.sock = new_sockfd /\ new_sockfd \in Fds /\ file[new_sockfd] # NoConn /\ Here.online
    BY <1>1, <1>2 DEF Settling, Placed, SocketsKnown, Here, Ended, Fds, FirstFd
  <1>5. PICK p \in Conns : p = HerePeer /\ IdOf[p] = i
    BY <1>1, <1>2, <1>3, <1>4, ClientHere
  <1>6. cliEnd[p] # "closed"
    BY <1>1, <1>4, <1>5, PeerThere DEF HerePeer, MayFail, Peer
  <1>7. clients[k].queue \in Seq(Nat) /\ clients[k].queue # << >>
    BY <1>1, <1>3, QueueType DEF Here
  <1>8. PICK n \in Nat : n = Head(clients[k].queue)
    BY <1>7
  <1>9. NoneCarried /\ ~Walking /\ ~Walking'
    BY <1>1 DEF Mapped, NoneThere, AckWaits, Walking
  <1>10. OnlyCarries(p, n)'
    BY <1>1, <1>3, <1>5, <1>6, <1>8, <1>9, SendsOne DEF Here
  <1>11. /\ Len(clients') = Len(clients) /\ clients'[k].queue = Tail(clients[k].queue)
         /\ \A l \in 1..Len(clients) :
              /\ clients'[l].id = clients[l].id /\ clients'[l].subs = clients[l].subs
              /\ clients'[l].online = clients[l].online
              /\ l # k => clients'[l].queue = clients[l].queue
    <2>1. Tail(clients[k].queue) \in Seq(Nat)
      BY <1>7
    <2>2. clients' = [clients EXCEPT ![k].queue = Tail(clients[k].queue)]
      BY <1>1, <1>3
    <2> QED BY <1>1, <2>1, <2>2, QueueChanges
  <1>12. \A j \in Ids : Wants(j)' = Wants(j) /\ ClientsOf(j)' = ClientsOf(j)
    BY <1>11, WantsSame
  <1>13. ASSUME NEW j \in Ids PROVE OwedTo(j)' = OwedTo(j)
    <2>1. UnderWay(j) = << >> /\ UnderWay(j)' = IF j = IdOf[p] THEN <<n>> ELSE << >>
      BY <1>9, <1>10 DEF Mapped, NoneUnderWay, OneUnderWay
    <2>2. CASE j = i
      <3>0. ClientsOf(i) = {k} /\ ClientsOf(i)' = {k}
        BY <1>3, <1>12
      <3>3. Queued(i) = clients[k].queue /\ Queued(i)' = clients'[k].queue
        BY <3>0, QueueOfOne
      <3>1. Queued(j) = clients[k].queue /\ Queued(j)' = Tail(clients[k].queue)
        BY <1>11, <2>2, <3>3
      <3>2. << >> \o clients[k].queue = <<n>> \o Tail(clients[k].queue)
        <4>1. \A s \in Seq(Nat) : s # << >> => << >> \o s = <<Head(s)>> \o Tail(s)
          OBVIOUS
        <4> QED BY <1>7, <1>8, <4>1
      <3> QED BY <1>5, <2>1, <2>2, <3>1, <3>2 DEF OwedTo
    <2>3. CASE j # i
      <3>1. Queued(j)' = Queued(j)
        BY <1>3, <1>11, <2>3, OthersQueued
      <3> QED BY <1>5, <2>1, <2>3, <3>1 DEF OwedTo
    <2> QED BY <2>2, <2>3
  <1>14. \A j \in Ids : NextFor(j)' = NextFor(j)
    BY <1>1, <1>9 DEF Mapped, NextIs, Taken
  <1> QED BY <1>1, <1>12, <1>13, <1>14, Stuttering DEF Published

-----------------------------------------------------------------------------
\* The walk of send_data over the clients.

\* Coming to a client decides for its identifier, and for no other.
LEMMA HereDecides ==
  ASSUME Running, Mapped, Mapped', UNCHANGED <<udp, pub, shown, cur>>,
         NEW k \in 1..Len(clients), NEW i \in Ids, k = at, clients[k].id = i, ClientsOf(i) = {k},
         pc = "deliver",
         (pc' = "deliver" /\ at' = at + 1) \/ (pc' = "await_ack" /\ at' = at),
         Len(clients') = Len(clients),
         \A l \in 1..Len(clients) :
           /\ clients'[l].id = clients[l].id /\ clients'[l].subs = clients[l].subs
           /\ clients'[l].online = clients[l].online,
         \A j \in Ids : j # i => OwedTo(j)' = OwedTo(j),
         OwedTo(i)' = IF pub[cur] \in Wants(i) THEN Append(OwedTo(i), cur) ELSE OwedTo(i)
  PROVE  Promise!Next
  <1>1. ServerTypeOK /\ Walking /\ Walking' /\ Taken' = Taken
    BY CalmParts DEF Walking, Taken
  <1>2. \A j \in Ids : Wants(j)' = Wants(j) /\ ClientsOf(j)' = ClientsOf(j)
    BY WantsSame
  <1>3. at \in Nat /\ \A j \in Ids : \A l \in ClientsOf(j) : l \in 1..Len(clients)
    BY <1>1 DEF ServerTypeOK, ClientsOf
  <1>4. ~Decided(i) /\ Decided(i)'
    <2>1. ~Decided(i)
      BY <1>3 DEF Decided
    <2>2. ClientsOf(i)' = {k}
      BY <1>2
    <2>3. Decided(i)'
      BY <1>3, <2>2 DEF Decided
    <2> QED BY <2>1, <2>3
  <1>5. ASSUME NEW j \in Ids, j # i PROVE Decided(j)' <=> Decided(j)
    <2>1. \A l \in ClientsOf(j) : l # k
      BY <1>5 DEF ClientsOf
    <2>2. Decided(j) <=> \E l \in ClientsOf(j) : l < at
      BY <2>1 DEF Decided
    <2>3. Decided(j)' <=> \E l \in ClientsOf(j) : l < at
      <3>1. ClientsOf(j)' = ClientsOf(j) /\ \A l \in ClientsOf(j) : l \in Nat
        BY <1>2, <1>3
      <3>2. \A l \in ClientsOf(j) : (l < at' \/ (l = at' /\ pc' # "deliver")) <=> l < at
        BY <1>3, <2>1, <3>1
      <3> QED BY <3>1, <3>2 DEF Decided
    <2> QED BY <2>2, <2>3
  <1>6. TakenIs /\ NextIs /\ NextIs'
    BY DEF Mapped
  <1>7. /\ NextFor(i) = Taken /\ NextFor(i)' = Taken + 1 /\ cur = Taken /\ Taken <= Len(pub)
        /\ \A j \in Ids : j # i => NextFor(j)' = NextFor(j)
    BY <1>1, <1>4, <1>5, <1>6 DEF TakenIs, NextIs
  <1>8. \A j \in Ids : Published(j)' = Published(j)
    BY DEF Published
  <1> DEFINE S == {i}
  <1>9. S \in SUBSET Ids /\ S # {}
    OBVIOUS
  <1>10. \A j \in S :
           /\ NextFor(j) <= Len(pub) /\ NextFor(j)' = NextFor(j) + 1
           /\ OwedTo(j)' = IF pub[NextFor(j)] \in Wants(j)
                             THEN Append(OwedTo(j), NextFor(j)) ELSE OwedTo(j)
    BY <1>7
  <1>11. /\ \A j \in Ids \ S : NextFor(j)' = NextFor(j) /\ OwedTo(j)' = OwedTo(j)
         /\ \A j \in Ids : Wants(j)' = Wants(j) /\ Published(j)' = Published(j)
    BY <1>2, <1>7, <1>8
  <1>12. UNCHANGED pub
    OBVIOUS
  <1> HIDE DEF S
  <1> QED BY <1>9, <1>10, <1>11, <1>12, Deciding

\* Whether its identifier wants the datagram.
LEMMA HereWants ==
  ASSUME Running, Mapped, pc = "deliver", NEW k \in 1..Len(clients), NEW i \in Ids,
         k = at, ClientsOf(i) = {k}
  PROVE  pub[cur] \in Wants(i) <=>
           Wanted /\ (Here.online \/ StoreForward(Here.subs, pub[cur]))
  <1>1. pub[cur] \in Topics
    BY CalmParts DEF Mapped, TakenIs, Walking, ServerTypeOK
  <1> QED BY <1>1 DEF Wants, Wanted, Here

\* A client that does not want the datagram is passed over.
LEMMA SkipRefines ==
  ASSUME Running, Mapped, Mapped', UNCHANGED subVars, Skip
  PROVE  Promise!Next
  <1>1. /\ ServerTypeOK /\ pc = "deliver" /\ pc' = "deliver" /\ at' = at + 1 /\ at <= Len(clients)
        /\ UNCHANGED <<clients, s2c, udp, pub, shown, cur>> /\ Placed
    BY CalmParts DEF Skip, Visiting, inputVars, subVars, wireVars, Bookkeeping
  <1>2. at \in 1..Len(clients)
    BY <1>1 DEF Placed, ServerTypeOK
  <1>3. PICK k \in 1..Len(clients), i \in Ids : k = at /\ clients[k].id = i /\ ClientsOf(i) = {k}
    BY <1>1, <1>2, HereIs
  <1>4. pub[cur] \notin Wants(i)
    BY <1>1, <1>3, HereWants DEF Skip, Visiting, ToSend, ToStore
  <1>5. NoneCarried /\ NoneCarried'
    BY <1>1 DEF Mapped, NoneThere, AckWaits
  <1>6. \A j \in Ids : Queued(j)' = Queued(j)
    BY <1>1, QueuedSame
  <1>7. \A j \in Ids : OwedTo(j)' = OwedTo(j)
    BY <1>5, <1>6 DEF Mapped, NoneUnderWay, OwedTo
  <1>8. OwedTo(i)' = IF pub[cur] \in Wants(i) THEN Append(OwedTo(i), cur) ELSE OwedTo(i)
    BY <1>4, <1>7
  <1> QED BY <1>1, <1>3, <1>7, <1>8, HereDecides

\* One that is away and wants it stored has it queued: owed, behind the rest.
LEMMA EnqueueRefines ==
  ASSUME Running, Mapped, Mapped', UNCHANGED subVars, Enqueue
  PROVE  Promise!Next
  <1>1. /\ ServerTypeOK /\ pc = "deliver" /\ pc' = "deliver" /\ at' = at + 1 /\ at <= Len(clients)
        /\ UNCHANGED <<s2c, udp, pub, shown, cur>> /\ Placed
        /\ clients' = [clients EXCEPT ![at].queue = Append(@, cur)]
    BY CalmParts DEF Enqueue, ToStore, Visiting, inputVars, subVars, wireVars, Bookkeeping
  <1>2. at \in 1..Len(clients)
    BY <1>1 DEF Placed, ServerTypeOK
  <1>3. PICK k \in 1..Len(clients), i \in Ids : k = at /\ clients[k].id = i /\ ClientsOf(i) = {k}
    BY <1>1, <1>2, HereIs
  <1>4. pub[cur] \in Wants(i)
    BY <1>1, <1>3, HereWants DEF Enqueue, ToStore
  <1>5. NoneCarried /\ NoneCarried'
    BY <1>1 DEF Mapped, NoneThere, AckWaits
  <1>6. /\ Len(clients') = Len(clients) /\ clients'[k].queue = Append(clients[k].queue, cur)
        /\ \A l \in 1..Len(clients) :
             /\ clients'[l].id = clients[l].id /\ clients'[l].subs = clients[l].subs
             /\ clients'[l].online = clients[l].online
             /\ l # k => clients'[l].queue = clients[l].queue
    <2>1. Append(clients[k].queue, cur) \in Seq(Nat)
      BY <1>1, QueueType DEF ServerTypeOK
    <2>2. clients' = [clients EXCEPT ![k].queue = Append(clients[k].queue, cur)]
      BY <1>1, <1>3
    <2> QED BY <1>1, <2>1, <2>2, QueueChanges
  <1>7. ClientsOf(i)' = {k}
    BY <1>3, <1>6, WantsSame
  <1>8. OwedTo(i)' = Append(OwedTo(i), cur)
    <2>1. Queued(i) = clients[k].queue /\ Queued(i)' = Append(clients[k].queue, cur)
      BY <1>3, <1>6, <1>7, QueueOfOne
    <2>2. clients[k].queue \in Seq(Nat) /\ cur \in Nat
      BY <1>1, QueueType DEF ServerTypeOK
    <2>3. << >> \o Append(clients[k].queue, cur) = Append(<< >> \o clients[k].queue, cur)
      BY <2>2
    <2>4. UnderWay(i) = << >> /\ UnderWay(i)' = << >>
      BY <1>5 DEF Mapped, NoneUnderWay
    <2> QED BY <2>1, <2>3, <2>4 DEF OwedTo
  <1>9. ASSUME NEW j \in Ids, j # i PROVE OwedTo(j)' = OwedTo(j)
    <2>1. Queued(j)' = Queued(j)
      BY <1>3, <1>6, <1>9, OthersQueued
    <2> QED BY <1>5, <2>1 DEF Mapped, NoneUnderWay, OwedTo
  <1>10. OwedTo(i)' = IF pub[cur] \in Wants(i) THEN Append(OwedTo(i), cur) ELSE OwedTo(i)
    BY <1>4, <1>8
  <1> QED BY <1>1, <1>3, <1>6, <1>9, <1>10, HereDecides

\* A client that is online has no queue: what is forwarded to it comes next.
LEMMA ForwardRefines ==
  ASSUME Running, Mapped, Mapped', UNCHANGED subVars, Forward
  PROVE  Promise!Next
  <1>1. /\ Settled /\ WireTypeOK /\ ServerTypeOK /\ pc = "deliver" /\ pc' = "await_ack" /\ at' = at
        /\ at <= Len(clients) /\ Wanted /\ Here.online
        /\ UNCHANGED <<clients, udp, pub, shown, cur>> /\ Placed /\ SocketsKnown /\ QueueNewer
        /\ s2c' = ToClient(HerePeer, Publication(cur))
    BY CalmParts DEF Forward, ToSend, Visiting, inputVars, subVars, Bookkeeping, InSequence
  <1>2. at \in 1..Len(clients)
    BY <1>1 DEF Placed, ServerTypeOK
  <1>3. PICK k \in 1..Len(clients), i \in Ids : k = at /\ clients[k].id = i /\ ClientsOf(i) = {k}
    BY <1>1, <1>2, HereIs
  <1>4. pub[cur] \in Wants(i)
    BY <1>1, <1>3, HereWants
  <1>5. PICK p \in Conns : p = HerePeer /\ IdOf[p] = i
    BY <1>1, <1>2, <1>3, ClientHere
  <1>6. cliEnd[p] # "closed"
    <2>1. clients[k] \in Client /\ clients[k].online /\ Here = clients[k]
      BY <1>1, <1>3, ClientType DEF Here
    <2>2. Here.sock \in Fds /\ file[Here.sock] # NoConn
      BY <1>1, <2>1 DEF Client, SocketsKnown, Ended
    <2> QED BY <1>1, <1>5, <2>2, PeerThere DEF HerePeer, MayFail, Peer
  <1>7. clients[k].queue = << >>
    BY <1>1, <1>3, QueueType DEF QueueNewer, Here
  <1>8. NoneCarried
    BY <1>1 DEF Mapped, NoneThere, AckWaits
  <1>9. PICK n \in Nat : n = cur
    BY <1>1 DEF ServerTypeOK
  <1>10. OnlyCarries(p, n)'
    BY <1>1, <1>5, <1>6, <1>8, <1>9, SendsOne
  <1>11. \A j \in Ids : UnderWay(j) = << >> /\ UnderWay(j)' = IF j = i THEN <<n>> ELSE << >>
    BY <1>5, <1>8, <1>10 DEF Mapped, NoneUnderWay, OneUnderWay
  <1>12. \A j \in Ids : Queued(j)' = Queued(j)
    BY <1>1, QueuedSame
  <1>13. OwedTo(i)' = IF pub[cur] \in Wants(i) THEN Append(OwedTo(i), cur) ELSE OwedTo(i)
    <2>1. ClientsOf(i)' = {k}
      BY <1>1, <1>3 DEF ClientsOf
    <2>2. Queued(i) = << >>
      BY <1>3, <1>7, <2>1, QueueOfOne
    <2>3. <<n>> \o << >> = Append(<< >> \o << >>, n)
      OBVIOUS
    <2>4. OwedTo(i) = << >> \o << >> /\ OwedTo(i)' = <<n>> \o << >>
      BY <1>11, <1>12, <2>2 DEF OwedTo
    <2> QED BY <1>4, <1>9, <2>3, <2>4
  <1>14. \A j \in Ids : j # i => OwedTo(j)' = OwedTo(j)
    BY <1>11, <1>12 DEF OwedTo
  <1> QED BY <1>1, <1>3, <1>13, <1>14, HereDecides

\* Waiting for the acknowledgement, and taking a datagram, decide nothing.
LEMMA WalkStutters ==
  ASSUME Running, Mapped, Mapped', UNCHANGED subVars, AckForward \/ ReceiveDatagram
  PROVE  UNCHANGED Promise!vars
  <1>1. /\ ServerTypeOK /\ UNCHANGED <<clients, pub, shown, s2c>> /\ pc' = "deliver"
        /\ pc \notin AckWaits \/ Acked
    BY CalmParts DEF AckForward, ReceiveDatagram, Turn, inputVars, subVars, wireVars, AckWaits
  <1>2. NoneCarried /\ NoneCarried' /\ Walking'
    BY <1>1 DEF Mapped, NoneThere, AckWaits, Walking
  <1>3. \A j \in Ids : Wants(j)' = Wants(j) /\ ClientsOf(j)' = ClientsOf(j) /\ Queued(j)' = Queued(j)
    BY <1>1, WantsSame, QueuedSame
  <1>4. \A j \in Ids : OwedTo(j)' = OwedTo(j)
    BY <1>2, <1>3 DEF Mapped, NoneUnderWay, OwedTo
  <1>5. TakenIs /\ TakenIs' /\ NextIs /\ NextIs'
    BY DEF Mapped
  <1>6. \A j \in Ids : \A l \in ClientsOf(j) : l \in Nat /\ l >= 1
    BY DEF ClientsOf
  <1>7. ASSUME NEW j \in Ids PROVE NextFor(j)' = NextFor(j)
    <2>1. CASE AckForward
      <3>1. Walking /\ Taken' = Taken /\ pc = "await_ack" /\ at' = at + 1 /\ at \in Nat
        BY <1>1, <2>1 DEF AckForward, Walking, Taken, inputVars, ServerTypeOK
      <3>2. \A l \in ClientsOf(j) : (l < at' \/ (l = at' /\ pc' # "deliver"))
                                    <=> (l < at \/ (l = at /\ pc # "deliver"))
        BY <1>1, <1>6, <3>1
      <3>3. Decided(j)' <=> Decided(j)
        BY <1>3, <3>2 DEF Decided
      <3> QED BY <1>2, <1>5, <3>1, <3>3 DEF NextIs
    <2>2. CASE ReceiveDatagram
      <3>1. ~Walking /\ udp # << >> /\ udp' = Tail(udp) /\ at' = 1
        BY <2>2 DEF ReceiveDatagram, Turn, Walking
      <3>2. Taken' = Taken + 1
        <4>1. Len(udp') = Len(udp) - 1 /\ Len(udp) \in Nat /\ Len(pub) \in Nat
          BY <1>1, <3>1 DEF ServerTypeOK
        <4> QED BY <1>1, <4>1 DEF Taken
      <3>3. ~Decided(j)'
        BY <1>1, <1>3, <1>6, <3>1 DEF Decided
      <3> QED BY <1>2, <1>5, <3>1, <3>2, <3>3 DEF NextIs
    <2> QED BY <2>1, <2>2
  <1>8. \A j \in Ids : Published(j)' = Published(j)
    BY <1>1 DEF Published
  <1> QED BY <1>1, <1>3, <1>4, <1>7, <1>8, Stuttering

\* At the end of the walk the identifiers without a client have been decided.
LEMMA ForwardedRefines ==
  ASSUME Running, Mapped, Mapped', UNCHANGED subVars, Forwarded
  PROVE  [Promise!Next]_(Promise!vars)
  <1>1. /\ ServerTypeOK /\ UNCHANGED <<clients, udp, pub, shown, s2c>>
        /\ pc = "deliver" /\ at > Len(clients) /\ pc' = "loop"
    BY CalmParts DEF Forwarded, inputVars, subVars, wireVars
  <1>2. NoneCarried /\ NoneCarried' /\ Walking /\ ~Walking' /\ Taken' = Taken
    BY <1>1 DEF Mapped, NoneThere, AckWaits, Walking, Taken
  <1>3. \A j \in Ids : Wants(j)' = Wants(j) /\ Queued(j)' = Queued(j) /\ Published(j)' = Published(j)
    BY <1>1, WantsSame, QueuedSame DEF Published
  <1>4. \A j \in Ids : OwedTo(j)' = OwedTo(j)
    BY <1>2, <1>3 DEF Mapped, NoneUnderWay, OwedTo
  <1>5. TakenIs /\ NextIs /\ NextIs'
    BY DEF Mapped
  <1> DEFINE S == {i \in Ids : ClientsOf(i) = {}}
  <1>6. ASSUME NEW j \in Ids PROVE Decided(j) <=> j \notin S
    <2>1. PICK n \in Nat : n = Len(clients)
      BY <1>1 DEF ServerTypeOK
    <2>2. \A l \in ClientsOf(j) : l < at
      BY <1>1, <2>1 DEF ClientsOf, ServerTypeOK
    <2> QED BY <2>2 DEF Decided
  <1>7. ASSUME NEW j \in Ids \ S PROVE NextFor(j)' = NextFor(j)
    BY <1>2, <1>5, <1>6 DEF NextIs
  <1>8. ASSUME NEW j \in S
        PROVE  /\ NextFor(j) <= Len(pub) /\ NextFor(j)' = NextFor(j) + 1
               /\ pub[NextFor(j)] \notin Wants(j)
    <2>1. NextFor(j) = Taken /\ NextFor(j)' = Taken + 1 /\ Taken <= Len(pub)
      BY <1>2, <1>5, <1>6 DEF NextIs, TakenIs
    <2>2. Wants(j) = {}
      BY DEF Wants
    <2> QED BY <2>1, <2>2
  <1>9. CASE S = {}
    BY <1>1, <1>3, <1>4, <1>7, <1>9, Stuttering
  <1>10. CASE S # {}
    <2>1. S \in SUBSET Ids
      OBVIOUS
    <2> HIDE DEF S
    <2> QED BY <1>1, <1>3, <1>4, <1>7, <1>8, <1>10, <2>1, Deciding
  <1> QED BY <1>9, <1>10

-----------------------------------------------------------------------------
\* The subscriber processes.

\* The process shows the publication that is owed to its identifier first.
LEMMA DataRefines ==
  ASSUME Running, Mapped, Mapped', NEW p \in Conns, ReceiveData(p), UNCHANGED serverVars
  PROVE  Promise!Next
  <1>1. /\ Settled /\ TypeOK /\ WireTypeOK /\ SubTypeOK /\ InDialogue(p) /\ OneCarried /\ Dismissed
        /\ pc \notin Ended /\ pc' = pc
        /\ UNCHANGED <<clients, at, cur, udp, pub>>
    BY CalmParts DEF serverVars, inputVars, Conversing, InSequence, AtPace
  <1>2. /\ spc[p] = "loop" /\ s2c[p] # << >> /\ Arrived(p) = Head(s2c[p])
        /\ Head(s2c[p]).type = DATA /\ s2c' \in AfterClientRecv(p)
        /\ shown' = Show(p, Head(s2c[p]).n)
    BY DEF ReceiveData, Arrived
  <1>3. srvEnd[p] = "open"
    BY <1>1, <1>2 DEF WireTypeOK, InDialogue, Ends, Dismissed, DATA, REFUSED
  <1>4. Len(s2c[p]) = 1 /\ Head(s2c[p]) = s2c[p][1]
    BY <1>1, <1>2, <1>3, LoopOwesAck DEF WireTypeOK
  <1>5. CarriesLess
    BY <1>1, <1>2, LessRead
  <1>6. /\ Arrived(p).n \in 1..Taken
        /\ NoneCarried'
    BY <1>1, <1>5, ReceivedNext DEF NoneCarried
  <1>7. PICK n \in Nat : n = Arrived(p).n /\ n >= 1
    <2>1. TakenIs
      BY DEF Mapped
    <2> QED BY <1>6, <2>1 DEF TakenIs
  <1>8. PICK i \in Ids : i = IdOf[p]
    BY IdOfAssumption
  <1>9. OnlyCarries(p, n)
    <2>1. Carrying(p) = {1}
      BY <1>2, <1>4 DEF Carrying
    <2> QED BY <1>1, <1>2, <1>4, <1>7, <2>1 DEF OneCarried, OnlyCarries
  <1>10. \A j \in Ids : UnderWay(j) = (IF j = i THEN <<n>> ELSE << >>) /\ UnderWay(j)' = << >>
    BY <1>6, <1>8, <1>9 DEF Mapped, OneUnderWay, NoneUnderWay
  <1>11. \A j \in Ids : Wants(j)' = Wants(j) /\ Queued(j)' = Queued(j) /\ NextFor(j)' = NextFor(j)
    <2>1. \A j \in Ids : NextFor(j)' = NextFor(j)
      BY <1>1 DEF NextFor, Decided, ClientsOf
    <2> QED BY <1>1, <2>1, WantsSame, QueuedSame
  <1>12. Queued(i) \in Seq(Nat)
    BY DEF Mapped, QueueIs
  <1>13. OwedTo(i) # << >> /\ Head(OwedTo(i)) = n /\ OwedTo(i)' = Tail(OwedTo(i))
    <2>1. OwedTo(i) = <<n>> \o Queued(i) /\ OwedTo(i)' = << >> \o Queued(i)
      BY <1>10, <1>11 DEF OwedTo
    <2> QED BY <1>12, <2>1, OwedSequences
  <1>14. \A j \in Ids : Published(j) = shown[j] /\ Published(j)' = shown'[j]
    BY <1>1 DEF Mapped, PublishedIs
  <1>15. shown' = [shown EXCEPT ![i] = Append(@, n)]
    BY <1>2, <1>7, <1>8 DEF Show
  <1>16. Published(i)' = Append(Published(i), Head(OwedTo(i)))
    BY <1>1, <1>13, <1>14, <1>15 DEF SubTypeOK
  <1>17. \A j \in Ids \ {i} : OwedTo(j)' = OwedTo(j) /\ Published(j)' = Published(j)
    BY <1>1, <1>10, <1>11, <1>14, <1>15 DEF OwedTo, SubTypeOK
  <1> QED BY <1>1, <1>11, <1>13, <1>16, <1>17, Showing

\* What does not carry a publication, and goes on not to, is not under way.
LEMMA FlightKept ==
  ASSUME UNCHANGED pub,
         \A q \in Conns : s2c'[q] = s2c[q] \/ (Carrying(q) = {} /\ Carrying(q)' = {})
  PROVE  \A i \in Ids : UnderWay(i)' = UnderWay(i)
  <1> SUFFICES ASSUME NEW i \in Ids PROVE UnderWay(i)' = UnderWay(i)
    OBVIOUS
  <1>1. \A n : Publication(n).type = DATA
    BY DEF Publication
  <1>2. ASSUME NEW q \in Conns, NEW n
        PROVE  (\E k \in 1..Len(s2c'[q]) : s2c'[q][k] = Publication(n))
               <=> \E k \in 1..Len(s2c[q]) : s2c[q][k] = Publication(n)
    BY <1>1 DEF Carrying
  <1>3. InFlight(i)' = InFlight(i)
    BY <1>2 DEF InFlight
  <1> QED BY <1>3 DEF UnderWay

\* Any other step of a process, while the server runs.
LEMMA ProcessStutters ==
  ASSUME Running, NEW p \in Conns, ProcessRuns(p), ~ReceiveData(p)
  PROVE  UNCHANGED Promise!vars
  <1>1. /\ TypeOK /\ WireTypeOK /\ InDialogue(p) /\ SubscriberStep(p) /\ AtPace
        /\ pc \notin Ended /\ Settled
        /\ UNCHANGED <<pc, clients, at, cur, udp, pub>>
    BY CalmParts DEF ProcessRuns, serverVars, inputVars, Conversing
  <1>2. ~WrongHeader(p) /\ ~ReceiveEnd(p)
    BY RightHeader, ServerThere
  <1>3. \/ SendId(p) \/ Answered(p) \/ ExitAnswered(p)
        \/ ReceiveRefused(p)
    BY <1>1, <1>2 DEF SubscriberStep
  <1>4. UNCHANGED shown
    BY <1>3 DEF SendId, Answered, ExitAnswered, ReceiveRefused
  <1>5. \A q \in Conns : q # p => s2c'[q] = s2c[q]
    <2>1. CASE SendId(p)
      BY <1>1, <2>1, ClientReads DEF SendId
    <2>2. CASE Answered(p)
      BY <1>1, <2>2 DEF Answered, AfterClientRecvOne, WireTypeOK
    <2>3. CASE ExitAnswered(p) \/ ReceiveRefused(p)
      BY <1>1, <2>3 DEF ExitAnswered, ReceiveRefused, Quit, WireTypeOK
    <2> QED BY <1>3, <2>1, <2>2, <2>3
  <1>6. Carrying(p) = {}
    <2>1. CASE SendId(p) \/ Answered(p) \/ ExitAnswered(p)
      <3>1. spc[p] \in Waiting
        BY <2>1 DEF SendId, Answered, ExitAnswered, Waiting
      <3>2. pc \in {"loop", "await_id"}
        BY <3>1, NobodyWaits
      <3> QED BY <1>1, <3>2, NothingCarried DEF AckWaits
    <2>2. CASE ReceiveRefused(p)
      <3>1. /\ s2c[p] # << >> /\ Head(s2c[p]).type = REFUSED /\ Len(s2c[p]) <= 1
            /\ s2c[p] \in Seq(S2C)
        BY <1>1, <2>2 DEF ReceiveRefused, Arrived, InDialogue, Down, WireTypeOK
      <3>2. Len(s2c[p]) = 1
        BY <3>1, OneElement
      <3>3. Head(s2c[p]) = s2c[p][1]
        BY <3>1
      <3> QED BY <3>1, <3>2, <3>3 DEF Carrying, REFUSED, DATA
    <2> QED BY <1>3, <2>1, <2>2
  <1>7. Carrying(p)' = {}
    <2>1. CarriesLess
      BY <1>1, StepCarriesLess
    <2> QED BY <1>6, <2>1 DEF CarriesLess
  <1>8. \A i \in Ids : UnderWay(i)' = UnderWay(i)
    BY <1>1, <1>5, <1>6, <1>7, FlightKept
  <1>9. \A i \in Ids : Wants(i)' = Wants(i) /\ Queued(i)' = Queued(i)
    BY <1>1, WantsSame, QueuedSame
  <1>10. \A i \in Ids : NextFor(i)' = NextFor(i)
    BY <1>1 DEF NextFor, Decided, ClientsOf
  <1> QED BY <1>1, <1>4, <1>8, <1>9, <1>10, Stuttering DEF OwedTo, Published

\* A process that outlives the server shows at most a phantom.
LEMMA PhantomStutters ==
  ASSUME Calm, Mapped, Mapped', pc \in Ended, NEW p \in Conns, ProcessRuns(p)
  PROVE  UNCHANGED Promise!vars
  <1>1. /\ SubTypeOK /\ SubscriberStep(p) /\ UNCHANGED <<pc, clients, at, cur, udp, pub>>
    BY DEF ProcessRuns, serverVars, inputVars, Calm, Settled, Bookkeeping, TypeOK
  <1>2. NoneCarried /\ NoneCarried'
    BY <1>1 DEF Mapped, NoneThere, AckWaits, Ended
  <1>3. ~ReceiveData(p)
    <2> SUFFICES ASSUME ReceiveData(p) PROVE FALSE
      OBVIOUS
    <2>1. s2c[p] # << >> /\ s2c[p] \in Seq(S2C) /\ Head(s2c[p]).type = DATA
      BY DEF ReceiveData, Arrived, Calm, Settled, Bookkeeping, TypeOK, WireTypeOK
    <2>2. 1 \in 1..Len(s2c[p]) /\ Head(s2c[p]) = s2c[p][1]
      BY <2>1
    <2> QED BY <1>2, <2>1, <2>2 DEF NoneCarried, Carrying
  <1>4. UNCHANGED shown \/ shown' = Show(p, 0)
    BY <1>1, <1>3 DEF SubscriberStep, SendId, Answered, ExitAnswered, WrongHeader, ReceiveRefused,
                      ReceiveEnd, ZeroS2C, Control
  <1>5. ASSUME NEW i \in Ids PROVE Published(i)' = Published(i)
    <2>1. shown[i] \in Seq(Nat)
      BY <1>1 DEF SubTypeOK
    <2>2. CASE shown'[i] = shown[i]
      BY <2>2 DEF Published
    <2>3. CASE shown'[i] # shown[i]
      <3>1. shown'[i] = Append(shown[i], 0) /\ ~(shown[i] # << >> /\ shown[i][Len(shown[i])] = 0)
        BY <1>1, <1>4, <2>3, IdOfAssumption DEF Show, SubTypeOK
      <3>2. Published(i) = shown[i]
        BY <3>1 DEF Published
      <3>3. \A s \in Seq(Nat) :
              /\ Append(s, 0) # << >> /\ Append(s, 0)[Len(Append(s, 0))] = 0
              /\ SubSeq(Append(s, 0), 1, Len(Append(s, 0)) - 1) = s
        <4> SUFFICES ASSUME NEW s \in Seq(Nat)
                     PROVE  /\ Append(s, 0) # << >> /\ Append(s, 0)[Len(Append(s, 0))] = 0
                            /\ SubSeq(Append(s, 0), 1, Len(Append(s, 0)) - 1) = s
          OBVIOUS
        <4>1. PICK n \in Nat : n = Len(s)
          OBVIOUS
        <4>2. Append(s, 0) \in Seq(Nat) /\ Len(Append(s, 0)) = n + 1 /\ Append(s, 0)[n + 1] = 0
          BY <4>1
        <4>3. SubSeq(Append(s, 0), 1, n) \in Seq(Nat) /\ Len(SubSeq(Append(s, 0), 1, n)) = n
          BY <4>1, <4>2
        <4>4. \A k \in 1..n : SubSeq(Append(s, 0), 1, n)[k] = s[k]
          BY <4>1, <4>2
        <4>5. SubSeq(Append(s, 0), 1, n) = s
          BY <4>1, <4>3, <4>4
        <4> QED BY <4>1, <4>2, <4>5
      <3>4. Published(i)' = shown[i]
        BY <2>1, <3>1, <3>3 DEF Published
      <3> QED BY <3>2, <3>4
    <2> QED BY <2>2, <2>3
  <1>6. \A i \in Ids : Wants(i)' = Wants(i) /\ Queued(i)' = Queued(i)
    BY <1>1, WantsSame, QueuedSame
  <1>7. \A i \in Ids : NextFor(i)' = NextFor(i)
    BY <1>1 DEF NextFor, Decided, ClientsOf
  <1>8. \A i \in Ids : OwedTo(i)' = OwedTo(i)
    BY <1>2, <1>6 DEF Mapped, NoneUnderWay, OwedTo
  <1> QED BY <1>1, <1>5, <1>6, <1>7, <1>8, Stuttering

-----------------------------------------------------------------------------
\* The users and the publishers.

\* A datagram arrives behind those that wait: it changes nothing else.
LEMMA PublishRefines ==
  ASSUME Running, Mapped, Mapped', NEW topic \in Topics, Publish(topic)
  PROVE  Promise!Next
  <1>1. /\ ServerTypeOK /\ Numbered
        /\ pub' = Append(pub, topic) /\ UNCHANGED <<s2c, shown, clients, pc, at, cur>>
    BY CalmParts DEF Publish, InSequence, wireVars, subVars
  <1>2. Taken' = Taken
    BY <1>1, PublishNumbers
  <1>3. \A i \in Ids : Wants(i)' = Wants(i) /\ Queued(i)' = Queued(i)
    BY <1>1, WantsSame, QueuedSame
  <1>4. \A i \in Ids : NextFor(i)' = NextFor(i)
    <2>1. NextIs /\ NextIs'
      BY DEF Mapped
    <2>2. Walking' = Walking /\ \A i \in Ids : Decided(i)' = Decided(i)
      BY <1>1 DEF Walking, Decided, ClientsOf
    <2> QED BY <1>2, <2>1, <2>2 DEF NextIs
  <1>5. \A i \in Ids : UnderWay(i)' = UnderWay(i)
    <2>1. \A i \in Ids : Carried(i)' = Carried(i)
      BY <1>1 DEF Carried, Carrying
    <2>2. \A i \in Ids : InFlight(i)' = InFlight(i)
      BY <2>1 DEF Mapped, FlightIs
    <2>3. ASSUME NEW i \in Ids PROVE UnderWay(i)' = UnderWay(i)
      <3>1. InFlight(i)' = InFlight(i)
        BY <2>2
      <3> QED BY <3>1 DEF UnderWay
    <2> QED BY <2>3
  <1>6. \A i \in Ids : OwedTo(i)' = OwedTo(i) /\ Published(i)' = Published(i)
    BY <1>1, <1>3, <1>5 DEF OwedTo, Published
  <1> QED BY <1>1, <1>3, <1>4, <1>6, Arriving

\* A step that changes nothing the mapping speaks of.
LEMMA UnchangedRefines ==
  ASSUME UNCHANGED <<s2c, pc, clients, at, cur, udp, pub, shown>>
  PROVE  UNCHANGED Promise!vars
  <1>1. \A i \in Ids : Wants(i)' = Wants(i) /\ Queued(i)' = Queued(i)
    BY WantsSame, QueuedSame
  <1>2. \A i \in Ids : NextFor(i)' = NextFor(i)
    BY DEF NextFor, Decided, ClientsOf
  <1>3. \A i \in Ids : UnderWay(i)' = UnderWay(i)
    BY FlightKept
  <1> QED BY <1>1, <1>2, <1>3, Stuttering DEF OwedTo, Published

\* Users act while the system is at rest, and the server has yet to notice.
LEMMA EnvironmentRefines ==
  ASSUME Calm, Mapped, Mapped', Environment
  PROVE  [Promise!Next]_(Promise!vars)
  <1>1. Paced /\ Killable = {}
    BY DEF Calm, Tame
  <1>2. ASSUME NEW topic \in Topics, Publish(topic)
        PROVE  Promise!Next
    BY <1>2, PublishRefines DEF Publish, Listening, Running
  <1>3. CASE TypeServerExit \/ \E p \in Conns : UserConnects(p) \/ UserTypes(p)
    <2>1. AtRest /\ UNCHANGED <<s2c, shown, clients, pc, udp, pub>>
      BY <1>1, <1>3 DEF TypeServerExit, UserConnects, UserTypes, Connect, TypeSubscribe,
         TypeUnsubscribe, TypeExit, Type, serverVars, inputVars, wireVars, subVars
    <2>2. ~Walking /\ ~Walking' /\ NoneCarried /\ pc' \notin AckWaits
      BY <2>1 DEF AtRest, Walking, Mapped, NoneThere, AckWaits
    <2> QED BY <2>1, <2>2, QuietStutter
  <1>4. CASE PublishMalformed
    BY <1>4, UnchangedRefines DEF PublishMalformed, wireVars, subVars
  <1> QED BY <1>1, <1>2, <1>3, <1>4 DEF Environment, Kill

-----------------------------------------------------------------------------
\* The theorem.

\* Every step of the server, handler by handler.
LEMMA ServerRefines ==
  ASSUME Running, Mapped, Mapped', ServerRuns
  PROVE  [Promise!Next]_(Promise!vars)
  <1>1. ServerStep /\ UNCHANGED subVars
    BY DEF ServerRuns
  <1>2. CASE pc' \in Ended
    BY <1>1, <1>2, EndRefines
  <1>3. CASE pc' \notin Ended
    <2>1. ~Die /\ ~Stop
      BY <1>3 DEF Die, Stop, Terminate, Ended
    <2>2. CASE Accepting \/ Select
      BY <1>1, <2>1, <2>2, QuietRefines DEF Accepting, AcceptFails
    <2>3. CASE Identifying
      <3>1. PICK p \in Conns : NewClient(p) \/ RefuseClient(p) \/ ReturnClient(p)
        BY <2>1, <2>3 DEF Identifying, NoIdentity, IdentityUnrefusable
      <3> QED BY <1>1, <3>1, NewClientRefines, ReturnRefines, QuietRefines
    <2>4. CASE Draining
      BY <1>1, <2>1, <2>4, SendQueuedRefines, QuietRefines DEF Draining, SendQueuedFails
    <2>5. CASE Forwarding
      BY <1>1, <2>1, <2>5, WalkStutters, SkipRefines, EnqueueRefines, ForwardRefines,
         ForwardedRefines DEF Forwarding, ReceiveMalformed, ForwardFails
    <2>6. CASE Leaving
      BY <1>1, <2>1, <2>6, QuietRefines DEF Leaving, ByeFails
    <2>7. CASE LackAck
      BY <2>7, AckComes
    <2>8. CASE Commands
      <3>1. PICK i \in Fds, k \in 1..Len(clients) : ManageCommand(i, k) \/ ManageExit(i, k)
        BY <2>1, <2>8 DEF Commands, ResponseFails, Corrupt
      <3> QED BY <1>1, <3>1, CommandRefines
    <2> QED BY <1>1, <2>2, <2>3, <2>4, <2>5, <2>6, <2>7, <2>8 DEF ServerStep
  <1> QED BY <1>2, <1>3

\* Every step, of whoever, between two states of the invariant.
LEMMA NextRefines == Calm /\ Calm' /\ [Next]_vars => [Promise!Next]_(Promise!vars)
  <1> SUFFICES ASSUME Calm, Calm', [Next]_vars PROVE [Promise!Next]_(Promise!vars)
    OBVIOUS
  <1>1. Mapped
    BY MappedHolds
  <1>2. (Calm => Mapped)'
    BY MappedHolds, PTL
  <1>3. Mapped'
    BY <1>2
  <1>4. CASE Environment
    BY <1>1, <1>3, <1>4, EnvironmentRefines
  <1>5. CASE ServerRuns
    <2>1. pc \notin Ended
      BY <1>5, EndedStays DEF ServerRuns
    <2> QED BY <1>1, <1>3, <1>5, <2>1, ServerRefines DEF Running
  <1>6. ASSUME NEW p \in Conns, ProcessRuns(p) PROVE [Promise!Next]_(Promise!vars)
    <2>1. CASE pc \in Ended
      BY <1>1, <1>3, <1>6, <2>1, PhantomStutters
    <2>2. CASE pc \notin Ended
      <3>1. Running /\ UNCHANGED serverVars
        BY <1>6, <2>2 DEF Running, ProcessRuns
      <3> QED BY <1>1, <1>3, <1>6, <3>1, DataRefines, ProcessStutters
    <2> QED BY <2>1, <2>2
  <1>7. CASE UNCHANGED vars
    BY <1>7, UnchangedRefines DEF vars, wireVars, serverVars, inputVars, subVars
  <1> QED BY <1>4, <1>5, <1>6, <1>7 DEF Next

\* Nobody is known, nothing has arrived.
LEMMA InitRefines == Init => Promise!Init
  <1> SUFFICES ASSUME Init PROVE Promise!Init
    OBVIOUS
  <1>1. /\ clients = << >> /\ cur = 0 /\ udp = << >> /\ pub = << >>
        /\ \A p \in Conns : s2c[p] = << >>
        /\ \A i \in Ids : shown[i] = << >>
    BY DEF Init, WireInit, SubInit, ServerInit
  <1>2. 1..Len(clients) = {} /\ Len(pub) = 0
    BY <1>1
  <1>3. ASSUME NEW i \in Ids
        PROVE  /\ Wants(i) = {} /\ NextFor(i) = 1 /\ OwedTo(i) = << >> /\ Published(i) = << >>
    <2>1. ClientsOf(i) = {}
      BY <1>2 DEF ClientsOf
    <2>2. InFlight(i) = {}
      BY <1>2 DEF InFlight
    <2>3. NextFor(i) = 1
      BY <1>1, <1>2 DEF NextFor
    <2>4. << >> \o << >> = << >>
      OBVIOUS
    <2>5. OwedTo(i) = << >>
      BY <2>1, <2>2, <2>4 DEF OwedTo, UnderWay, Queued
    <2> QED BY <1>1, <2>1, <2>3, <2>5 DEF Wants, Published
  <1> QED BY <1>1, <1>3 DEF Promise!Init, OwedTo

\* When users wait their turn and nobody is killed, the broker implements
\* Delivery, for every number of clients, topics, datagrams and descriptors.
THEOREM PromiseKept == Tame /\ Spec => KeepsPromise
  <1>1. Tame /\ Bookkeeping /\ InStep /\ InSequence /\ InPace => Calm
    BY DEF Calm, Settled, InPace
  <1>2. Tame => Tame'
    BY DEF Tame
  <1>3. Init => Promise!Init
    BY InitRefines
  <1>4. Calm /\ Calm' /\ [Next]_vars => [Promise!Next]_(Promise!vars)
    BY NextRefines
  <1> QED BY <1>1, <1>2, <1>3, <1>4, BooksInOrder, StaysInStep, StaysInSequence, KeepsPace, PTL
       DEF Spec, KeepsPromise, Promise!Spec
=============================================================================
