--------------------------- MODULE DialogueProofs ---------------------------
(***************************************************************************)
(* Proofs about Dialogue: the server and its subscribers stay in step on   *)
(* every connection.  No acknowledgement is taken for anything else, no    *)
(* subscriber is sent two things at once, and no handler blocks in a       *)
(* recv() for which select() found nothing.                                *)
(***************************************************************************)
EXTENDS Dialogue, BrokerProofs

-----------------------------------------------------------------------------
\* Channels, element by element.

\* A sequence that is not empty and not longer than one has one element.
LEMMA OneElement ==
  ASSUME NEW S, NEW s \in Seq(S), s # << >>, Len(s) <= 1
  PROVE  Len(s) = 1
  <1>1. PICK n \in Nat : n = Len(s)
    OBVIOUS
  <1> QED BY <1>1

\* And one that is not longer than one has not two.
LEMMA NotTwo ==
  ASSUME NEW S, NEW s \in Seq(S), Len(s) <= 1
  PROVE  Len(s) <= 2 /\ Len(s) # 2
  <1>1. PICK n \in Nat : n = Len(s)
    OBVIOUS
  <1> QED BY <1>1

\* The only index of such a sequence.
LEMMA OnlyIndex ==
  ASSUME NEW s, NEW k \in 1..Len(s), Len(s) = 1
  PROVE  k = 1
  OBVIOUS

\* recv() on the server's end drops some first elements of one channel.
LEMMA ServerReads ==
  ASSUME WireTypeOK, NEW p \in Conns, NEW c \in AfterServerRecv(p)
  PROVE  /\ c \in [Conns -> Seq(C2S)]
         /\ \A q \in Conns : q # p => c[q] = c2s[q]
         /\ \E n \in 0..Len(c2s[p]) :
              /\ c2s[p] # << >> => n >= 1
              /\ Len(c[p]) = Len(c2s[p]) - n
              /\ \A k \in 1..Len(c[p]) : c[p][k] = c2s[p][k + n]
  <1>1. c2s[p] \in Seq(C2S) /\ c2s \in [Conns -> Seq(C2S)]
    BY DEF WireTypeOK
  <1>2. c \in [Conns -> Seq(C2S)]
    BY RecvType
  <1>3. CASE c2s[p] = << >>
    BY <1>1, <1>2, <1>3 DEF AfterServerRecv
  <1>4. CASE c2s[p] # << >>
    <2>1. PICK n \in 1..Len(c2s[p]) : c = [c2s EXCEPT ![p] = SubSeq(c2s[p], n + 1, Len(c2s[p]))]
      BY <1>4 DEF AfterServerRecv
    <2>2. c[p] = SubSeq(c2s[p], n + 1, Len(c2s[p])) /\ \A q \in Conns : q # p => c[q] = c2s[q]
      BY <1>1, <2>1
    <2>3. /\ Len(c[p]) = Len(c2s[p]) - n
          /\ \A k \in 1..Len(c[p]) : c[p][k] = c2s[p][k + n]
      BY <1>1, <2>1, <2>2
    <2> QED BY <1>1, <1>2, <2>1, <2>2, <2>3
  <1> QED BY <1>3, <1>4

\* recv() on the subscriber's end does the same to the other direction.
LEMMA ClientReads ==
  ASSUME WireTypeOK, NEW p \in Conns, NEW c \in AfterClientRecv(p)
  PROVE  /\ c \in [Conns -> Seq(S2C)]
         /\ \A q \in Conns : q # p => c[q] = s2c[q]
         /\ \E n \in 0..Len(s2c[p]) :
              /\ s2c[p] # << >> => n >= 1
              /\ Len(c[p]) = Len(s2c[p]) - n
              /\ \A k \in 1..Len(c[p]) : c[p][k] = s2c[p][k + n]
  <1>1. s2c[p] \in Seq(S2C) /\ s2c \in [Conns -> Seq(S2C)]
    BY DEF WireTypeOK
  <1>2. c \in [Conns -> Seq(S2C)]
    BY RecvType
  <1>3. CASE s2c[p] = << >>
    BY <1>1, <1>2, <1>3 DEF AfterClientRecv
  <1>4. CASE s2c[p] # << >>
    <2>1. PICK n \in 1..Len(s2c[p]) : c = [s2c EXCEPT ![p] = SubSeq(s2c[p], n + 1, Len(s2c[p]))]
      BY <1>4 DEF AfterClientRecv
    <2>2. c[p] = SubSeq(s2c[p], n + 1, Len(s2c[p])) /\ \A q \in Conns : q # p => c[q] = s2c[q]
      BY <1>1, <2>1
    <2>3. /\ Len(c[p]) = Len(s2c[p]) - n
          /\ \A k \in 1..Len(c[p]) : c[p][k] = s2c[p][k + n]
      BY <1>1, <2>1, <2>2
    <2> QED BY <1>1, <1>2, <2>1, <2>2, <2>3
  <1> QED BY <1>3, <1>4

\* send() by the subscriber adds one element to its channel, or none when the
\* server has closed its end.
LEMMA SubscriberSends ==
  ASSUME WireTypeOK, NEW p \in Conns, NEW m \in C2S
  PROVE  LET c == ToServer(p, m)
         IN /\ c \in [Conns -> Seq(C2S)]
            /\ \A q \in Conns : q # p => c[q] = c2s[q]
            /\ srvEnd[p] = "closed" => c = c2s
            /\ srvEnd[p] # "closed" =>
                 /\ Len(c[p]) = Len(c2s[p]) + 1
                 /\ c[p][Len(c2s[p]) + 1] = m
                 /\ \A k \in 1..Len(c2s[p]) : c[p][k] = c2s[p][k]
  <1>1. c2s[p] \in Seq(C2S) /\ c2s \in [Conns -> Seq(C2S)]
    BY DEF WireTypeOK
  <1>2. ToServer(p, m) \in [Conns -> Seq(C2S)]
    BY SendType
  <1>3. CASE srvEnd[p] = "closed"
    BY <1>1, <1>2, <1>3 DEF ToServer
  <1>4. CASE srvEnd[p] # "closed"
    <2>1. ToServer(p, m) = [c2s EXCEPT ![p] = Append(c2s[p], m)]
      BY <1>4 DEF ToServer
    <2>2. ToServer(p, m)[p] = Append(c2s[p], m)
      BY <1>1, <2>1
    <2>3. \A q \in Conns : q # p => ToServer(p, m)[q] = c2s[q]
      BY <1>1, <2>1
    <2> QED BY <1>1, <1>2, <1>4, <2>2, <2>3
  <1> QED BY <1>3, <1>4

\* send() by the server, likewise.
LEMMA ServerSends ==
  ASSUME WireTypeOK, NEW p \in Conns, NEW m \in S2C
  PROVE  LET c == ToClient(p, m)
         IN /\ c \in [Conns -> Seq(S2C)]
            /\ \A q \in Conns : q # p => c[q] = s2c[q]
            /\ cliEnd[p] = "closed" => c = s2c
            /\ cliEnd[p] # "closed" =>
                 /\ Len(c[p]) = Len(s2c[p]) + 1
                 /\ c[p][Len(s2c[p]) + 1] = m
                 /\ \A k \in 1..Len(s2c[p]) : c[p][k] = s2c[p][k]
  <1>1. s2c[p] \in Seq(S2C) /\ s2c \in [Conns -> Seq(S2C)]
    BY DEF WireTypeOK
  <1>2. ToClient(p, m) \in [Conns -> Seq(S2C)]
    BY SendType
  <1>3. CASE cliEnd[p] = "closed"
    BY <1>1, <1>2, <1>3 DEF ToClient
  <1>4. CASE cliEnd[p] # "closed"
    <2>1. ToClient(p, m) = [s2c EXCEPT ![p] = Append(s2c[p], m)]
      BY <1>4 DEF ToClient
    <2>2. ToClient(p, m)[p] = Append(s2c[p], m)
      BY <1>1, <2>1
    <2>3. \A q \in Conns : q # p => ToClient(p, m)[q] = s2c[q]
      BY <1>1, <2>1
    <2> QED BY <1>1, <1>2, <1>4, <2>2, <2>3
  <1> QED BY <1>3, <1>4

\* What a send() to a process that is there leaves under way.
LEMMA Sent ==
  ASSUME WireTypeOK, NEW p \in Conns, NEW m \in S2C,
         s2c' = ToClient(p, m), cliEnd[p] # "closed"
  PROVE  /\ \A q \in Conns : q # p => s2c'[q] = s2c[q]
         /\ Len(s2c'[p]) = Len(s2c[p]) + 1
         /\ s2c'[p][Len(s2c[p]) + 1] = m
         /\ \A k \in 1..Len(s2c[p]) : s2c'[p][k] = s2c[p][k]
  <1>1. s2c[p] \in Seq(S2C) /\ s2c \in [Conns -> Seq(S2C)]
    BY DEF WireTypeOK
  <1>2. s2c' = [s2c EXCEPT ![p] = Append(s2c[p], m)]
    BY DEF ToClient
  <1>3. s2c'[p] = Append(s2c[p], m) /\ \A q \in Conns : q # p => s2c'[q] = s2c[q]
    BY <1>1, <1>2
  <1> QED BY <1>1, <1>3

-----------------------------------------------------------------------------
\* One connection.

\* A step that leaves a connection alone, and does not end the server's wait
\* for its subscriber, leaves it in dialogue.
LEMMA Untouched ==
  ASSUME NEW q, InDialogue(q),
         spc'[q] = spc[q], cliEnd'[q] = cliEnd[q], srvEnd'[q] = srvEnd[q],
         c2s'[q] = c2s[q], s2c'[q] = s2c[q],
         srvEnd[q] = "open" => (Joining(q) => Joining(q)') /\ (Acking(q) => Acking(q)')
  PROVE  InDialogue(q)'
  <1>1. Ends(q)'
    BY DEF InDialogue, Ends
  <1>2. Down(q)'
    BY DEF InDialogue, Down
  <1>3. Up(q)'
    BY DEF InDialogue, Up, Answer, Request
  <1> QED BY <1>1, <1>2, <1>3 DEF InDialogue

\* Nothing under way matters to a server that has closed its end.
LEMMA Closed ==
  ASSUME NEW q, InDialogue(q), srvEnd[q] # "none", srvEnd'[q] = "closed",
         spc'[q] = spc[q], cliEnd'[q] = cliEnd[q], Down(q)'
  PROVE  InDialogue(q)'
  <1>1. Ends(q)'
    BY DEF InDialogue, Ends
  <1>2. Up(q)'
    BY DEF Up
  <1> QED BY <1>1, <1>2 DEF InDialogue

\* A subscriber in its main loop that finds something owes the server an
\* acknowledgement, and has nothing else under way.
LEMMA LoopOwesAck ==
  ASSUME WireTypeOK, NEW p \in Conns, InDialogue(p), spc[p] = "loop",
         s2c[p] # << >>, srvEnd[p] = "open"
  PROVE  Acking(p) /\ c2s[p] = << >> /\ Len(s2c[p]) = 1
  <1>1. s2c[p] \in Seq(S2C) /\ c2s[p] \in Seq(C2S)
    BY DEF WireTypeOK
  <1>2. Len(s2c[p]) = 1 /\ IsPushed(s2c[p][1])
    <2>1. Len(s2c[p]) <= 1 /\ \A k \in 1..Len(s2c[p]) : IsPushed(s2c[p][k])
      BY DEF InDialogue, Down
    <2>2. Len(s2c[p]) = 1
      BY <1>1, <2>1, OneElement
    <2> QED BY <2>1, <2>2
  <1>3. Acking(p)
    BY <1>2 DEF InDialogue, Down
  <1>4. ~Joining(p)
    BY <1>3 DEF Joining, Acking, AckWaits
  <1>5. \A k \in 1..Len(c2s[p]) : FALSE
    BY <1>4 DEF InDialogue, Up, Answer, Request
  <1> QED BY <1>1, <1>2, <1>3, <1>5
-----------------------------------------------------------------------------
\* Subscribers and their users.

\* What tells whom the server is waiting for.
waitVars == <<pc, clients, file, new_sockfd, at>>

\* The part of a connection's state that is neither end's alone.
SameConnection(q) ==
  /\ spc'[q] = spc[q] /\ cliEnd'[q] = cliEnd[q] /\ srvEnd'[q] = srvEnd[q]
  /\ c2s'[q] = c2s[q] /\ s2c'[q] = s2c[q]

\* A step of one subscriber leaves the others' connections alone.
LEMMA OneSubscriber ==
  ASSUME Conversing, UNCHANGED waitVars, NEW p \in Conns, InDialogue(p)',
         \A q \in Conns : q # p => SameConnection(q)
  PROVE  Conversing'
  <1>1. ASSUME NEW q \in Conns PROVE InDialogue(q)'
    <2>1. CASE q = p
      BY <2>1
    <2>2. CASE q # p
      <3>1. InDialogue(q)
        BY DEF Conversing
      <3>2. (Joining(q) => Joining(q)') /\ (Acking(q) => Acking(q)')
        BY DEF waitVars, Joining, Acking
      <3>3. SameConnection(q)
        BY <2>2
      <3> QED BY <3>1, <3>2, <3>3, Untouched DEF SameConnection
    <2> QED BY <2>1, <2>2
  <1> QED BY <1>1 DEF Conversing

\* A process that ends takes what was sent to it along.
LEMMA QuitDialogue ==
  ASSUME TypeOK, Conversing, UNCHANGED waitVars, NEW p \in Conns, NEW how \in {"done", "died"},
         Quit(p, how, s2c), UNCHANGED <<c2s, srvEnd>>, spc[p] # "off",
         srvEnd[p] = "backlog" => how = "died"
  PROVE  Conversing'
  <1>1. /\ spc'[p] = how /\ cliEnd'[p] = "closed" /\ s2c'[p] = << >>
        /\ \A q \in Conns : q # p => SameConnection(q)
    BY DEF Quit, TypeOK, WireTypeOK, SubTypeOK, SameConnection
  <1>2. InDialogue(p)
    BY DEF Conversing
  <1>3. Ends(p)'
    BY <1>1, <1>2 DEF InDialogue, Ends
  <1>4. Down(p)'
    BY <1>1 DEF Down
  <1>5. Up(p)'
    <2>1. (Joining(p) => Joining(p)') /\ (Acking(p) => Acking(p)')
      BY DEF waitVars, Joining, Acking
    <2>2. Len(s2c'[p]) = 0
      BY <1>1
    <2>3. ASSUME NEW k \in 1..Len(c2s'[p]), srvEnd'[p] = "open"
          PROVE  (k = 1 /\ Answer(p)') \/ Request(p, k)'
      <3>1. CASE k = 1 /\ Answer(p)
        BY <1>1, <2>1, <3>1 DEF Answer
      <3>2. CASE Request(p, k)
        BY <1>1, <2>2, <3>2 DEF Request
      <3> QED BY <1>2, <2>3, <3>1, <3>2 DEF InDialogue, Up
    <2> QED BY <1>1, <2>3 DEF Up
  <1>6. InDialogue(p)'
    BY <1>3, <1>4, <1>5 DEF InDialogue
  <1> QED BY <1>1, <1>6, OneSubscriber

\* connect(), before the server has accepted it.
LEMMA ConnectDialogue ==
  ASSUME TypeOK, Conversing, UNCHANGED waitVars, NEW p \in Conns, Connect(p)
  PROVE  Conversing'
  <1>1. /\ spc[p] = "off" /\ spc'[p] = "await_request"
        /\ cliEnd'[p] = "open" /\ srvEnd'[p] = "backlog"
        /\ c2s'[p] = c2s[p] /\ s2c'[p] = s2c[p]
        /\ \A q \in Conns : q # p => SameConnection(q)
    BY DEF Connect, TypeOK, WireTypeOK, SubTypeOK, SameConnection
  <1>2. c2s[p] = << >> /\ s2c[p] = << >>
    BY <1>1 DEF Conversing, InDialogue, Ends
  <1>3. Ends(p)'
    BY <1>1, <1>2 DEF Ends
  <1>4. Down(p)'
    BY <1>1, <1>2 DEF Down
  <1>5. Up(p)'
    BY <1>1 DEF Up
  <1>6. InDialogue(p)'
    BY <1>3, <1>4, <1>5 DEF InDialogue
  <1> QED BY <1>1, <1>6, OneSubscriber

\* The identifier is sent to a server that has asked for it, and waits for it
\* if it is still there.
LEMMA SendIdDialogue ==
  ASSUME TypeOK, Conversing, UNCHANGED waitVars, NEW p \in Conns, SendId(p)
  PROVE  Conversing'
  <1> USE DEF TypeOK
  <1>0. s2c[p] \in Seq(S2C) /\ c2s[p] \in Seq(C2S) /\ InDialogue(p)
    BY DEF WireTypeOK, Conversing
  <1>1. /\ spc[p] = "await_request" /\ spc'[p] = "loop"
        /\ cliEnd'[p] = cliEnd[p] /\ srvEnd'[p] = srvEnd[p]
        /\ \A q \in Conns : q # p => spc'[q] = spc[q]
        /\ UNCHANGED <<cliEnd, srvEnd>>
    BY DEF SendId, SubTypeOK
  <1>2. s2c[p] # << >>
    BY DEF SendId, Arrived, ZeroS2C, Control, ID_REQUEST
  <1>3. /\ Len(s2c'[p]) = 0
        /\ \A q \in Conns : q # p => s2c'[q] = s2c[q]
    <2>1. s2c' \in AfterClientRecv(p)
      BY DEF SendId
    <2>2. Len(s2c[p]) <= 1
      BY <1>0, <1>1 DEF InDialogue, Down
    <2>3. Len(s2c[p]) = 1
      BY <1>0, <1>2, <2>2, OneElement
    <2>4. s2c'[p] \in Seq(S2C) /\ \A q \in Conns : q # p => s2c'[q] = s2c[q]
      BY <2>1, ClientReads
    <2>5. PICK n \in 0..Len(s2c[p]) : n >= 1 /\ Len(s2c'[p]) = Len(s2c[p]) - n
      BY <1>2, <2>1, ClientReads
    <2> QED BY <2>3, <2>4, <2>5
  <1>4. /\ \A q \in Conns : q # p => c2s'[q] = c2s[q]
        /\ srvEnd[p] = "open" =>
             /\ Len(c2s'[p]) = Len(c2s[p]) + 1
             /\ c2s'[p][Len(c2s[p]) + 1].type = ID_REPLY
    <2>1. IdReply(IdOf[p]) \in C2S /\ IdReply(IdOf[p]).type = ID_REPLY
      BY IdOfAssumption, HeaderType DEF IdReply
    <2>2. c2s' = ToServer(p, IdReply(IdOf[p]))
      BY DEF SendId
    <2> QED BY <2>1, <2>2, SubscriberSends
  <1>5. Ends(p)'
    <2>1. srvEnd[p] \notin {"none", "backlog"}
      BY <1>0, <1>2 DEF InDialogue, Ends
    <2> QED BY <1>0, <1>1, <2>1 DEF InDialogue, Ends
  <1>6. Down(p)'
    BY <1>1, <1>3 DEF Down
  <1>7. Up(p)'
    <2> SUFFICES ASSUME srvEnd[p] = "open", NEW k \in 1..Len(c2s'[p])
                 PROVE  k = 1 /\ Answer(p)'
      BY <1>1 DEF Up
    <2>1. Joining(p) /\ c2s[p] = << >>
      BY <1>0, <1>1 DEF InDialogue, Up
    <2>2. k = 1 /\ c2s'[p][1].type = ID_REPLY
      <3>1. Len(c2s[p]) = 0
        BY <2>1
      <3>2. Len(c2s'[p]) = 1 /\ c2s'[p][1].type = ID_REPLY
        BY <1>4, <3>1
      <3> QED BY <3>2
    <2>3. Joining(p)'
      BY <2>1 DEF Joining, waitVars
    <2> QED BY <2>2, <2>3 DEF Answer
  <1>8. InDialogue(p)'
    BY <1>5, <1>6, <1>7 DEF InDialogue
  <1>9. \A q \in Conns : q # p => SameConnection(q)
    BY <1>1, <1>3, <1>4 DEF SameConnection
  <1> QED BY <1>8, <1>9, OneSubscriber

\* A command is sent behind whatever the server waits for.
LEMMA TypeDialogue ==
  ASSUME TypeOK, Conversing, UNCHANGED waitVars, NEW p \in Conns, NEW m \in C2S, IsCommand(m),
         NEW next \in {"await_response", "await_exit"}, Type(p, m, next)
  PROVE  Conversing'
  <1> USE DEF TypeOK
  <1>0. s2c[p] \in Seq(S2C) /\ c2s[p] \in Seq(C2S) /\ InDialogue(p)
    BY DEF WireTypeOK, Conversing
  <1>1. /\ spc[p] = "loop" /\ spc'[p] = next
        /\ \A q \in Conns : q # p => spc'[q] = spc[q]
        /\ UNCHANGED <<s2c, cliEnd, srvEnd>>
    BY DEF Type, SubTypeOK
  <1>2. /\ \A q \in Conns : q # p => c2s'[q] = c2s[q]
        /\ srvEnd[p] = "open" =>
             /\ Len(c2s'[p]) = Len(c2s[p]) + 1
             /\ c2s'[p][Len(c2s[p]) + 1] = m
             /\ \A k \in 1..Len(c2s[p]) : c2s'[p][k] = c2s[p][k]
    <2>1. c2s' = ToServer(p, m)
      BY DEF Type
    <2> QED BY <2>1, SubscriberSends
  <1>3. Len(s2c[p]) <= 1 /\ \A k \in 1..Len(s2c[p]) : IsPushed(s2c[p][k])
    BY <1>0, <1>1 DEF InDialogue, Down
  <1>4. Ends(p)'
    <2>1. srvEnd[p] \notin {"none", "backlog"}
      BY <1>0, <1>1 DEF InDialogue, Ends
    <2> QED BY <1>0, <1>1, <2>1 DEF InDialogue, Ends
  <1>5. (Joining(p) => Joining(p)') /\ (Acking(p) <=> Acking(p)')
    BY DEF waitVars, Joining, Acking
  <1>6. Down(p)'
    <2>1. Len(s2c'[p]) <= 2 /\ Len(s2c'[p]) # 2
      BY <1>0, <1>1, <1>3, NotTwo
    <2> QED BY <1>0, <1>1, <1>3, <1>5, <2>1 DEF InDialogue, Down
  <1>7. Up(p)'
    <2> SUFFICES ASSUME srvEnd[p] = "open", NEW k \in 1..Len(c2s'[p])
                 PROVE  (k = 1 /\ Answer(p)') \/ Request(p, k)'
      BY <1>1 DEF Up
    <2>1. CASE k \in 1..Len(c2s[p])
      <3>1. k = 1 /\ Answer(p)
        BY <1>0, <1>1, <2>1 DEF InDialogue, Up, Request
      <3>2. c2s'[p][1] = c2s[p][1]
        BY <1>2, <2>1, <3>1
      <3> QED BY <1>1, <1>5, <3>1, <3>2 DEF Answer
    <2>2. CASE k \notin 1..Len(c2s[p])
      <3>1. k = Len(c2s[p]) + 1 /\ k = Len(c2s'[p])
        BY <1>0, <1>2, <2>2
      <3>2. c2s'[p][k] = m
        BY <1>2, <3>1
      <3>3. \A j \in 1..Len(s2c'[p]) : s2c'[p][j].type # RESPONSE
        BY <1>1, <1>3 DEF IsPushed, DATA, REFUSED, RESPONSE
      <3> QED BY <1>1, <3>1, <3>2, <3>3 DEF Request
    <2> QED BY <2>1, <2>2
  <1>8. InDialogue(p)'
    BY <1>4, <1>6, <1>7 DEF InDialogue
  <1>9. \A q \in Conns : q # p => SameConnection(q)
    BY <1>1, <1>2 DEF SameConnection
  <1> QED BY <1>8, <1>9, OneSubscriber

\* The answer to a command is read, and the publication that may stand behind
\* it is left for the main loop.
LEMMA AnsweredDialogue ==
  ASSUME TypeOK, Conversing, UNCHANGED waitVars, NEW p \in Conns, Answered(p)
  PROVE  Conversing'
  <1> USE DEF TypeOK
  <1>0. s2c[p] \in Seq(S2C) /\ c2s[p] \in Seq(C2S) /\ InDialogue(p)
    BY DEF WireTypeOK, Conversing
  <1>1. /\ spc[p] = "await_response" /\ spc'[p] = "loop"
        /\ \A q \in Conns : q # p => spc'[q] = spc[q]
        /\ UNCHANGED <<c2s, cliEnd, srvEnd>>
    BY DEF Answered, SubTypeOK
  <1>2. s2c[p] # << >> /\ s2c[p][1].type = RESPONSE /\ 1 \in 1..Len(s2c[p])
    <2>1. s2c[p] # << >> /\ Head(s2c[p]).type = RESPONSE
      BY DEF Answered, Arrived, ZeroS2C, Control, RESPONSE
    <2> QED BY <1>0, <2>1
  <1>3. /\ \A q \in Conns : q # p => s2c'[q] = s2c[q]
        /\ Len(s2c'[p]) = Len(s2c[p]) - 1
        /\ \A k \in 1..Len(s2c'[p]) : s2c'[p][k] = s2c[p][k + 1]
    <2>1. s2c' = [s2c EXCEPT ![p] = SubSeq(s2c[p], 2, Len(s2c[p]))]
      BY DEF Answered, AfterClientRecvOne
    <2>2. /\ s2c'[p] = SubSeq(s2c[p], 2, Len(s2c[p]))
          /\ \A q \in Conns : q # p => s2c'[q] = s2c[q]
      BY <2>1 DEF WireTypeOK
    <2> QED BY <1>0, <1>2, <2>2
  <1>4. /\ Len(s2c[p]) <= 2
        /\ Len(s2c[p]) = 2 => IsPushed(s2c[p][2])
    BY <1>0, <1>1 DEF InDialogue, Down
  <1>5. Len(s2c'[p]) <= 1 /\ \A k \in 1..Len(s2c'[p]) : IsPushed(s2c'[p][k])
    <2>1. PICK n \in Nat : n = Len(s2c[p])
      BY <1>0
    <2>2. n <= 2 /\ n >= 1 /\ Len(s2c'[p]) = n - 1
      BY <1>2, <1>3, <1>4, <2>1
    <2>3. ASSUME NEW k \in 1..Len(s2c'[p]) PROVE IsPushed(s2c'[p][k])
      <3>1. k = 1 /\ n = 2
        BY <2>2, <2>3
      <3>2. s2c'[p][k] = s2c[p][2]
        BY <1>3, <2>3, <3>1
      <3> QED BY <1>4, <2>1, <3>1, <3>2
    <2> QED BY <2>2, <2>3
  <1>6. (Joining(p) => Joining(p)') /\ (Acking(p) <=> Acking(p)')
    BY DEF waitVars, Joining, Acking
  <1>7. Ends(p)'
    <2>1. srvEnd[p] \notin {"none", "backlog"}
      BY <1>0, <1>2 DEF InDialogue, Ends
    <2> QED BY <1>0, <1>1, <2>1 DEF InDialogue, Ends
  <1>8. Down(p)'
    <2>1. ASSUME srvEnd[p] = "open", ~Acking(p), NEW k \in 1..Len(s2c'[p])
          PROVE  ~IsPushed(s2c'[p][k])
      <3>1. k + 1 \in 1..Len(s2c[p]) /\ s2c'[p][k] = s2c[p][k + 1]
        BY <1>0, <1>3, <2>1
      <3>2. ~IsPushed(s2c[p][k + 1])
        BY <1>0, <2>1, <3>1 DEF InDialogue, Down
      <3> QED BY <3>1, <3>2
    <2> QED BY <1>1, <1>5, <1>6, <2>1 DEF Down
  <1>9. Up(p)'
    <2> SUFFICES ASSUME srvEnd[p] = "open", NEW k \in 1..Len(c2s[p])
                 PROVE  k = 1 /\ Answer(p)'
      BY <1>1 DEF Up
    <2>1. ~Request(p, k)
      BY <1>2 DEF Request
    <2>2. k = 1 /\ Answer(p)
      BY <1>0, <2>1 DEF InDialogue, Up
    <2> QED BY <1>1, <1>2, <1>6, <2>2 DEF Answer
  <1>10. InDialogue(p)'
    BY <1>7, <1>8, <1>9 DEF InDialogue
  <1>11. \A q \in Conns : q # p => SameConnection(q)
    BY <1>1, <1>3 DEF SameConnection
  <1> QED BY <1>10, <1>11, OneSubscriber

\* What the main loop finds is acknowledged, to a server that waits for just
\* that; a process that was refused leaves at once.
LEMMA AckDialogue ==
  ASSUME TypeOK, Conversing, UNCHANGED waitVars, NEW p \in Conns,
         spc[p] = "loop", s2c[p] # << >>, UNCHANGED srvEnd,
         c2s' = ToServer(p, Command(ACK, NoTopic, 0)), s2c'[p] = << >>,
         \/ spc'[p] = "loop" /\ cliEnd'[p] = cliEnd[p]
         \/ spc'[p] = "done" /\ cliEnd'[p] = "closed",
         \A q \in Conns : q # p => spc'[q] = spc[q] /\ cliEnd'[q] = cliEnd[q] /\ s2c'[q] = s2c[q]
  PROVE  Conversing'
  <1> USE DEF TypeOK
  <1>0. s2c[p] \in Seq(S2C) /\ c2s[p] \in Seq(C2S) /\ InDialogue(p)
    BY DEF WireTypeOK, Conversing
  <1>1. /\ \A q \in Conns : q # p => c2s'[q] = c2s[q]
        /\ srvEnd[p] = "open" =>
             /\ Len(c2s'[p]) = Len(c2s[p]) + 1
             /\ c2s'[p][Len(c2s[p]) + 1].type = ACK
    <2>1. Command(ACK, NoTopic, 0) \in C2S /\ Command(ACK, NoTopic, 0).type = ACK
      BY HeaderType DEF Command, ACK
    <2> QED BY <2>1, SubscriberSends
  <1>2. srvEnd[p] \notin {"none", "backlog"}
    BY <1>0 DEF InDialogue, Ends
  <1>3. Ends(p)'
    BY <1>0, <1>2 DEF InDialogue, Ends
  <1>4. Down(p)'
    <2>1. Len(s2c'[p]) = 0
      OBVIOUS
    <2> QED BY <2>1 DEF Down
  <1>5. Up(p)'
    <2> SUFFICES ASSUME srvEnd[p] = "open", NEW k \in 1..Len(c2s'[p])
                 PROVE  k = 1 /\ Answer(p)'
      BY DEF Up
    <2>1. Acking(p) /\ c2s[p] = << >>
      BY <1>0, LoopOwesAck
    <2>2. Len(c2s[p]) = 0
      BY <2>1
    <2>3. Len(c2s'[p]) = 1 /\ c2s'[p][1].type = ACK
      BY <1>1, <2>2
    <2>4. Acking(p)'
      BY <2>1 DEF Acking, waitVars
    <2>5. k = 1
      <3>1. Len(c2s'[p]) = 1
        BY <2>3
      <3> QED BY <3>1, OnlyIndex, Zenon
    <2>6. Answer(p)'
      BY <2>3, <2>4 DEF Answer
    <2> QED BY <2>5, <2>6
  <1>6. InDialogue(p)'
    BY <1>3, <1>4, <1>5 DEF InDialogue
  <1>7. \A q \in Conns : q # p => SameConnection(q)
    BY <1>1 DEF SameConnection
  <1> QED BY <1>6, <1>7, OneSubscriber

\* Nothing a subscriber program does by itself breaks its dialogue, or any
\* other.
LEMMA SubscriberDialogue ==
  ASSUME TypeOK, Conversing, UNCHANGED waitVars, NEW p \in Conns, SubscriberStep(p)
  PROVE  Conversing'
  <1> USE DEF TypeOK
  <1>0. s2c[p] \in Seq(S2C) /\ InDialogue(p)
    BY DEF WireTypeOK, Conversing
  <1>1. CASE SendId(p)
    BY <1>1, SendIdDialogue
  <1>2. CASE Answered(p)
    BY <1>2, AnsweredDialogue
  <1>3. CASE ExitAnswered(p)
    <2>1. Quit(p, "done", s2c) /\ UNCHANGED <<c2s, srvEnd>> /\ spc[p] = "await_exit"
      BY <1>3 DEF ExitAnswered
    <2>2. srvEnd[p] # "backlog"
      BY <1>0, <2>1 DEF InDialogue, Ends
    <2> QED BY <2>1, <2>2, QuitDialogue
  <1>4. CASE WrongHeader(p)
    <2>1. Quit(p, "died", s2c) /\ UNCHANGED <<c2s, srvEnd>> /\ spc[p] # "off"
      BY <1>4 DEF WrongHeader, Waiting
    <2> QED BY <2>1, QuitDialogue
  <1>5. CASE ReceiveData(p)
    <2>1. /\ spc[p] = "loop" /\ s2c[p] # << >>
          /\ c2s' = ToServer(p, Command(ACK, NoTopic, 0))
          /\ s2c' \in AfterClientRecv(p)
          /\ UNCHANGED <<cliEnd, srvEnd, spc>>
      BY <1>5 DEF ReceiveData
    <2>2. s2c'[p] \in Seq(S2C) /\ \A q \in Conns : q # p => s2c'[q] = s2c[q]
      BY <2>1, ClientReads
    <2>3. s2c'[p] = << >>
      <3>1. Len(s2c[p]) <= 1
        BY <1>0, <2>1 DEF InDialogue, Down
      <3>2. Len(s2c[p]) = 1
        BY <1>0, <2>1, <3>1, OneElement
      <3>3. PICK n \in 0..Len(s2c[p]) : n >= 1 /\ Len(s2c'[p]) = Len(s2c[p]) - n
        BY <2>1, ClientReads
      <3>4. Len(s2c'[p]) = 0
        BY <3>2, <3>3
      <3> QED BY <2>2, <3>4
    <2> QED BY <2>1, <2>2, <2>3, AckDialogue
  <1>6. CASE ReceiveRefused(p)
    <2>1. /\ spc[p] = "loop" /\ s2c[p] # << >>
          /\ c2s' = ToServer(p, Command(ACK, NoTopic, 0))
          /\ Quit(p, "done", s2c)
          /\ UNCHANGED srvEnd
      BY <1>6 DEF ReceiveRefused
    <2>2. /\ spc'[p] = "done" /\ cliEnd'[p] = "closed" /\ s2c'[p] = << >>
          /\ \A q \in Conns : q # p => spc'[q] = spc[q] /\ cliEnd'[q] = cliEnd[q] /\ s2c'[q] = s2c[q]
      BY <2>1 DEF Quit, WireTypeOK, SubTypeOK
    <2> QED BY <2>1, <2>2, AckDialogue
  <1>7. CASE ReceiveEnd(p)
    <2>1. UNCHANGED <<c2s, srvEnd>> /\ spc[p] = "loop"
      BY <1>7 DEF ReceiveEnd
    <2>2. CASE Quit(p, "died", s2c)
      BY <2>1, <2>2, QuitDialogue
    <2>3. CASE UNCHANGED <<spc, cliEnd, s2c>>
      <3>1. \A q \in Conns : SameConnection(q)
        BY <2>1, <2>3 DEF SameConnection
      <3>2. (Joining(p) => Joining(p)') /\ (Acking(p) => Acking(p)')
        BY DEF waitVars, Joining, Acking
      <3>3. InDialogue(p)'
        BY <1>0, <3>1, <3>2, Untouched DEF SameConnection
      <3> QED BY <3>1, <3>3, OneSubscriber
    <2> QED BY <1>7, <2>2, <2>3 DEF ReceiveEnd
  <1> QED BY <1>1, <1>2, <1>3, <1>4, <1>5, <1>6, <1>7 DEF SubscriberStep

\* Nor does anything a user, a publisher or a signal does.
LEMMA EnvironmentDialogue ==
  ASSUME TypeOK, Conversing, Environment
  PROVE  Conversing'
  <1>1. ASSUME NEW p \in Conns, UserConnects(p) PROVE Conversing'
    BY <1>1, ConnectDialogue DEF UserConnects, waitVars, serverVars
  <1>2. ASSUME NEW p \in Conns, UserTypes(p) PROVE Conversing'
    <2>1. UNCHANGED waitVars
      BY <1>2 DEF UserTypes, waitVars, serverVars
    <2>2. PICK m \in Commanded :
            \/ TypeSubscribe(p, m.topic, m.sf)
            \/ TypeUnsubscribe(p, m.topic)
            \/ TypeExit(p)
      BY <1>2 DEF UserTypes
    <2>3. m \in C2S /\ m.topic \in Topics \cup {NoTopic} /\ m.sf \in {0, 1}
      BY BrokerAssumption DEF C2S
    <2>4. /\ Command(SUBSCRIBE, m.topic, m.sf) \in C2S
          /\ Command(UNSUBSCRIBE, m.topic, 0) \in C2S
          /\ Command(DISCONNECT, NoTopic, 0) \in C2S
      BY <2>3, HeaderType DEF SUBSCRIBE, UNSUBSCRIBE, DISCONNECT, TypeOK
    <2>5. \A t, s : /\ IsCommand(Command(SUBSCRIBE, t, s))
                    /\ IsCommand(Command(UNSUBSCRIBE, t, s))
                    /\ IsCommand(Command(DISCONNECT, t, s))
      BY DEF IsCommand, Command
    <2>6. CASE TypeSubscribe(p, m.topic, m.sf)
      BY <2>1, <2>4, <2>5, <2>6, TypeDialogue DEF TypeSubscribe
    <2>7. CASE TypeUnsubscribe(p, m.topic)
      BY <2>1, <2>4, <2>5, <2>7, TypeDialogue DEF TypeUnsubscribe
    <2>8. CASE TypeExit(p)
      BY <2>1, <2>4, <2>5, <2>8, TypeDialogue DEF TypeExit
    <2> QED BY <2>2, <2>6, <2>7, <2>8
  <1>3. ASSUME NEW p \in Conns, Kill(p) PROVE Conversing'
    <2>1. Quit(p, "died", s2c) /\ UNCHANGED <<c2s, srvEnd>> /\ spc[p] # "off"
      BY <1>3 DEF Kill, Killed
    <2>2. UNCHANGED waitVars
      BY <1>3 DEF Kill, waitVars, serverVars
    <2> QED BY <2>1, <2>2, QuitDialogue
  <1>4. ASSUME UNCHANGED <<wireVars, spc, waitVars>> PROVE Conversing'
    <2>1. ASSUME NEW q \in Conns PROVE InDialogue(q)'
      <3>1. InDialogue(q)
        BY DEF Conversing
      <3>2. (Joining(q) => Joining(q)') /\ (Acking(q) => Acking(q)')
        BY <1>4 DEF waitVars, Joining, Acking
      <3> QED BY <1>4, <3>1, <3>2, Untouched DEF wireVars
    <2> QED BY <2>1 DEF Conversing
  <1>5. ASSUME NEW topic \in Topics, Publish(topic) PROVE Conversing'
    BY <1>4, <1>5 DEF Publish, subVars, waitVars
  <1>6. CASE PublishMalformed \/ TypeServerExit
    BY <1>4, <1>6 DEF PublishMalformed, TypeServerExit, subVars, waitVars
  <1> QED BY <1>1, <1>2, <1>3, <1>5, <1>6 DEF Environment

-----------------------------------------------------------------------------
\* The server's handlers, as one connection sees them.

\* The server waits for nobody.
Free == pc \notin {"await_id"} \cup AckWaits

\* A step that touches one connection, when the server waits for no other.
LEMMA OneConnection ==
  ASSUME Conversing, NEW p \in Conns, InDialogue(p)',
         \A q \in Conns : q # p => SameConnection(q) /\ ~Joining(q) /\ ~Acking(q)
  PROVE  Conversing'
  <1>1. ASSUME NEW q \in Conns PROVE InDialogue(q)'
    <2>1. CASE q = p
      BY <2>1
    <2>2. CASE q # p
      <3>1. InDialogue(q) /\ SameConnection(q) /\ ~Joining(q) /\ ~Acking(q)
        BY <2>2 DEF Conversing
      <3> QED BY <3>1, Untouched DEF SameConnection
    <2> QED BY <2>1, <2>2
  <1> QED BY <1>1 DEF Conversing

\* A step that touches none, and gives up waiting for none.
LEMMA NoConnection ==
  ASSUME Conversing, Free, UNCHANGED <<wireVars, spc>>
  PROVE  Conversing'
  <1>1. ASSUME NEW q \in Conns PROVE InDialogue(q)'
    <2>1. InDialogue(q)
      BY DEF Conversing
    <2>2. ~Joining(q) /\ ~Acking(q)
      BY DEF Free, Joining, Acking
    <2> QED BY <2>1, <2>2, Untouched DEF wireVars
  <1> QED BY <1>1 DEF Conversing

\* A publication or a refusal finds nothing before it but, perhaps, the
\* answer to a command.
LEMMA PushedDown ==
  ASSUME TypeOK, NEW p \in Conns, InDialogue(p), srvEnd[p] = "open", ~Acking(p),
         spc[p] # "await_request", NEW m \in S2C, IsPushed(m), s2c' = ToClient(p, m),
         UNCHANGED spc, srvEnd'[p] = "open" => Acking(p)'
  PROVE  Down(p)'
  <1> USE DEF TypeOK
  <1>0. s2c[p] \in Seq(S2C) /\ spc[p] \in {"off", "loop", "done", "died"} \cup Waiting
    BY DEF WireTypeOK, SubTypeOK
  <1>1. \A k \in 1..Len(s2c[p]) : ~IsPushed(s2c[p][k])
    BY DEF InDialogue, Down
  <1>2. CASE cliEnd[p] = "closed"
    <2>1. s2c' = s2c
      BY <1>2, SubscriberSends, ServerSends
    <2> QED BY <1>0, <2>1 DEF InDialogue, Down
  <1>3. CASE cliEnd[p] # "closed"
    <2>1. /\ Len(s2c'[p]) = Len(s2c[p]) + 1
          /\ s2c'[p][Len(s2c[p]) + 1] = m
          /\ \A k \in 1..Len(s2c[p]) : s2c'[p][k] = s2c[p][k]
      BY <1>3, ServerSends
    <2>2. spc[p] \notin {"off", "done", "died"}
      BY <1>3 DEF InDialogue, Ends
    <2>3. CASE spc[p] = "loop"
      <3>1. \A k \in 1..Len(s2c[p]) : FALSE
        BY <1>1, <2>3 DEF InDialogue, Down
      <3>2. Len(s2c[p]) = 0
        BY <1>0, <3>1
      <3>3. Len(s2c'[p]) = 1 /\ s2c'[p][1] = m
        BY <2>1, <3>2
      <3>4. \A k \in 1..Len(s2c'[p]) : s2c'[p][k] = m
        BY <3>3, OnlyIndex
      <3>5. Len(s2c'[p]) <= 1 /\ \A k \in 1..Len(s2c'[p]) : IsPushed(s2c'[p][k])
        BY <3>3, <3>4
      <3> QED BY <2>3, <3>5 DEF Down
    <2>4. CASE spc[p] \in {"await_response", "await_exit"}
      <3>1. PICK n \in Nat : n = Len(s2c[p])
        BY <1>0
      <3>2. \A k \in 1..n : s2c[p][k].type = RESPONSE
        BY <1>1, <2>4, <3>1 DEF InDialogue, Down
      <3>3. n <= 1
        <4>1. n <= 2 /\ (n = 2 => IsPushed(s2c[p][2]))
          BY <2>4, <3>1 DEF InDialogue, Down
        <4>2. n # 2
          BY <1>1, <3>1, <4>1
        <4> QED BY <4>1, <4>2
      <3>4. Len(s2c'[p]) = n + 1 /\ s2c'[p][n + 1] = m /\ \A k \in 1..n : s2c'[p][k] = s2c[p][k]
        BY <2>1, <3>1
      <3>5. \A k \in 1..Len(s2c'[p]) : s2c'[p][k].type = RESPONSE \/ IsPushed(s2c'[p][k])
        <4> TAKE k \in 1..Len(s2c'[p])
        <4>1. CASE k = n + 1
          BY <3>4, <4>1
        <4>2. CASE k # n + 1
          BY <3>2, <3>4, <4>2
        <4> QED BY <4>1, <4>2
      <3>6. Len(s2c'[p]) = 2 => s2c'[p][1].type = RESPONSE /\ IsPushed(s2c'[p][2])
        <4> HAVE Len(s2c'[p]) = 2
        <4>1. n + 1 = 2
          BY <3>4
        <4>2. n = 1
          BY <4>1
        <4> QED BY <3>2, <3>4, <4>2
      <3>7. Len(s2c'[p]) <= 2
        BY <3>3, <3>4
      <3> QED BY <2>4, <3>5, <3>6, <3>7 DEF Down
    <2> QED BY <1>0, <2>2, <2>3, <2>4 DEF Waiting
  <1> QED BY <1>2, <1>3

\* Forward, SendQueued and SayBye: the server sends and starts to wait.
LEMMA PushDialogue ==
  ASSUME TypeOK, Conversing, Free, NEW p \in Conns, srvEnd[p] = "open",
         NEW m \in S2C, IsPushed(m), s2c' = ToClient(p, m), Acking(p)',
         UNCHANGED <<c2s, cliEnd, srvEnd, spc>>
  PROVE  Conversing'
  <1> USE DEF TypeOK
  <1>0. InDialogue(p) /\ c2s[p] \in Seq(C2S) /\ s2c[p] \in Seq(S2C)
    BY DEF Conversing, WireTypeOK
  <1>1. \A q \in Conns : ~Joining(q) /\ ~Acking(q)
    BY DEF Free, Joining, Acking
  <1>2. spc[p] # "await_request"
    BY <1>0, <1>1 DEF InDialogue, Up
  <1>3. Down(p)'
    BY <1>0, <1>1, <1>2, PushedDown
  <1>4. Ends(p)'
    <2>1. srvEnd[p] \notin {"none", "backlog"}
      OBVIOUS
    <2> QED BY <1>0, <2>1 DEF InDialogue, Ends
  <1>5. Up(p)'
    <2> SUFFICES ASSUME NEW k \in 1..Len(c2s[p])
                 PROVE  Request(p, k)'
      BY <1>2 DEF Up
    <2>1. Request(p, k)
      BY <1>0, <1>1 DEF InDialogue, Up, Answer
    <2>2. ASSUME NEW j \in 1..Len(s2c'[p]) PROVE s2c'[p][j].type # RESPONSE
      <3>1. CASE s2c' = s2c
        BY <2>1, <2>2, <3>1 DEF Request
      <3>2. CASE /\ Len(s2c'[p]) = Len(s2c[p]) + 1
                 /\ s2c'[p][Len(s2c[p]) + 1] = m
                 /\ \A i \in 1..Len(s2c[p]) : s2c'[p][i] = s2c[p][i]
        <4>1. m.type # RESPONSE
          BY DEF IsPushed, DATA, REFUSED, RESPONSE
        <4>2. CASE j = Len(s2c[p]) + 1
          BY <3>2, <4>1, <4>2
        <4>3. CASE j # Len(s2c[p]) + 1
          <5>1. j \in 1..Len(s2c[p])
            BY <1>0, <2>2, <3>2, <4>3
          <5> QED BY <2>1, <3>2, <5>1 DEF Request
        <4> QED BY <4>2, <4>3
      <3> QED BY <3>1, <3>2, ServerSends
    <2> QED BY <2>1, <2>2 DEF Request
  <1>6. InDialogue(p)'
    BY <1>3, <1>4, <1>5 DEF InDialogue
  <1>7. \A q \in Conns : q # p => SameConnection(q)
    BY ServerSends DEF SameConnection
  <1> QED BY <1>1, <1>6, <1>7, OneConnection

\* AckForward, AckQueued and AckBye: what is behind the acknowledgement is
\* at most a command, sent to a server that now owes it an answer.
LEMMA AckedDialogue ==
  ASSUME TypeOK, Conversing, pc \in AckWaits, NEW p \in Conns, p = HerePeer,
         srvEnd[p] = "open", c2s[p] # << >>, Head(c2s[p]).type = ACK,
         c2s' \in AfterServerRecv(p), UNCHANGED <<s2c, cliEnd, spc>>,
         srvEnd'[p] \in {"open", "closed"},
         \A q \in Conns : q # p => srvEnd'[q] = srvEnd[q]
  PROVE  Conversing'
  <1> USE DEF TypeOK
  <1>0. InDialogue(p) /\ c2s[p] \in Seq(C2S) /\ s2c[p] \in Seq(S2C)
    BY DEF Conversing, WireTypeOK
  <1>1. \A q \in Conns : ~Joining(q) /\ (q # p => ~Acking(q))
    BY DEF Joining, Acking, AckWaits, HerePeer, Here, Peer
  <1>2. 1 \in 1..Len(c2s[p]) /\ c2s[p][1].type = ACK
    BY <1>0
  <1>3. s2c[p] = << >> /\ spc[p] # "await_request"
    <2>1. ~IsCommand(c2s[p][1])
      BY <1>2 DEF IsCommand, ACK, SUBSCRIBE, UNSUBSCRIBE, DISCONNECT
    <2>2. Answer(p) /\ spc[p] # "await_request"
      BY <1>0, <1>2, <2>1 DEF InDialogue, Up, Request
    <2> QED BY <1>2, <2>2 DEF Answer, ACK, ID_REPLY
  <1>4. /\ \A q \in Conns : q # p => c2s'[q] = c2s[q]
        /\ c2s'[p] \in Seq(C2S)
    BY ServerReads
  <1>5. PICK n \in 0..Len(c2s[p]) :
          /\ n >= 1
          /\ Len(c2s'[p]) = Len(c2s[p]) - n
          /\ \A k \in 1..Len(c2s'[p]) : c2s'[p][k] = c2s[p][k + n]
    BY ServerReads
  <1>6. Down(p)'
    <2>1. Len(s2c'[p]) = 0 /\ s2c'[p] = << >>
      BY <1>3
    <2> QED BY <2>1 DEF Down
  <1>7. Ends(p)'
    <2>1. srvEnd'[p] \notin {"none", "backlog"}
      OBVIOUS
    <2> QED BY <1>0, <2>1 DEF InDialogue, Ends
  <1>8. Up(p)'
    <2> SUFFICES ASSUME NEW k \in 1..Len(c2s'[p])
                 PROVE  Request(p, k)'
      BY <1>3 DEF Up
    <2>1. k + n \in 1..Len(c2s[p]) /\ k + n # 1 /\ c2s'[p][k] = c2s[p][k + n]
      BY <1>0, <1>4, <1>5
    <2>2. Request(p, k + n)
      BY <1>0, <2>1 DEF InDialogue, Up
    <2>3. k = Len(c2s'[p])
      BY <1>0, <1>4, <1>5, <2>2 DEF Request
    <2> QED BY <2>1, <2>2, <2>3 DEF Request
  <1>9. InDialogue(p)'
    BY <1>6, <1>7, <1>8 DEF InDialogue
  <1>10. \A q \in Conns : q # p => SameConnection(q)
    BY <1>4 DEF SameConnection
  <1> QED BY <1>1, <1>9, <1>10, OneConnection

\* accept(), and the request for the identifier.
LEMMA AcceptDialogue ==
  ASSUME TypeOK, Conversing, NEW p \in Conns, AcceptConnection(p), UNCHANGED spc
  PROVE  Conversing'
  <1> USE DEF TypeOK
  <1>0. InDialogue(p) /\ c2s[p] \in Seq(C2S) /\ s2c[p] \in Seq(S2C)
    BY DEF Conversing, WireTypeOK
  <1>1. /\ pc = "loop" /\ pc' = "await_id"
        /\ srvEnd[p] = "backlog" /\ srvEnd'[p] = "open"
        /\ \A q \in Conns : q # p => srvEnd'[q] = srvEnd[q]
        /\ s2c' = ToClient(p, Control(ID_REQUEST))
        /\ UNCHANGED <<c2s, cliEnd>>
    BY DEF AcceptConnection, Turn, Send, WireTypeOK
  <1>2. Joining(p)'
    <2>1. PICK i \in Fds : new_sockfd' = i /\ file' = [file EXCEPT ![i] = p]
      BY DEF AcceptConnection
    <2> QED BY <1>1, <2>1 DEF Joining, ServerTypeOK
  <1>3. c2s[p] = << >> /\ s2c[p] = << >> /\ spc[p] \in {"await_request", "died"}
    BY <1>0, <1>1 DEF InDialogue, Ends
  <1>4. Control(ID_REQUEST) \in S2C /\ Control(ID_REQUEST).type = ID_REQUEST
    BY HeaderType DEF Control, ID_REQUEST
  <1>5. \A q \in Conns : q # p => s2c'[q] = s2c[q]
    BY <1>1, <1>4, ServerSends
  <1>6. /\ spc[p] = "died" => s2c'[p] = << >>
        /\ Len(s2c'[p]) <= 1
        /\ \A k \in 1..Len(s2c'[p]) : s2c'[p][k].type = ID_REQUEST
    <2>1. Len(s2c[p]) = 0
      BY <1>3
    <2>2. CASE cliEnd[p] = "closed"
      <3>1. s2c' = s2c
        BY <1>1, <1>4, <2>2, ServerSends
      <3>2. s2c'[p] = << >> /\ Len(s2c'[p]) = 0
        BY <1>3, <3>1
      <3> QED BY <3>2
    <2>3. CASE cliEnd[p] # "closed"
      <3>1. Len(s2c'[p]) = 1 /\ s2c'[p][1] = Control(ID_REQUEST)
        <4>1. /\ Len(s2c'[p]) = Len(s2c[p]) + 1
              /\ s2c'[p][Len(s2c[p]) + 1] = Control(ID_REQUEST)
          BY <1>1, <1>4, <2>3, ServerSends
        <4> QED BY <2>1, <4>1
      <3>2. spc[p] # "died"
        BY <1>0, <2>3 DEF InDialogue, Ends
      <3>3. \A k \in 1..Len(s2c'[p]) : s2c'[p][k] = Control(ID_REQUEST)
        BY <3>1, OnlyIndex
      <3> QED BY <1>4, <3>1, <3>2, <3>3
    <2> QED BY <2>2, <2>3
  <1>7. Ends(p)'
    <2>1. srvEnd'[p] \notin {"none", "backlog"} /\ spc[p] # "off"
      BY <1>1, <1>3
    <2> QED BY <1>0, <1>1, <2>1 DEF InDialogue, Ends
  <1>8. Down(p)'
    <2>1. \A k \in 1..Len(s2c'[p]) : ~IsPushed(s2c'[p][k])
      BY <1>6 DEF IsPushed, ID_REQUEST, DATA, REFUSED
    <2> QED BY <1>3, <1>6, <2>1 DEF Down
  <1>9. Up(p)'
    <2>1. c2s'[p] = << >> /\ Len(c2s'[p]) = 0
      BY <1>1, <1>3
    <2> QED BY <1>2, <2>1 DEF Up
  <1>10. InDialogue(p)'
    BY <1>7, <1>8, <1>9 DEF InDialogue
  <1>11. \A q \in Conns : q # p => SameConnection(q) /\ ~Joining(q) /\ ~Acking(q)
    BY <1>1, <1>5 DEF SameConnection, Joining, Acking, AckWaits
  <1> QED BY <1>10, <1>11, OneConnection

\* NewClient, RefuseClient and ReturnClient: behind the identifier there is at
\* most one command.
LEMMA IdentifiedDialogue ==
  ASSUME TypeOK, Conversing, NEW p \in Conns, srvEnd[p] = "open", Identified(p),
         UNCHANGED <<cliEnd, spc>>, pc' \notin AckWaits,
         \/ UNCHANGED <<s2c, srvEnd>>
         \/ /\ s2c' = ToClient(p, Control(REFUSED)) /\ srvEnd'[p] = "closed"
            /\ \A q \in Conns : q # p => srvEnd'[q] = srvEnd[q]
  PROVE  Conversing'
  <1> USE DEF TypeOK
  <1>0. InDialogue(p) /\ c2s[p] \in Seq(C2S) /\ s2c[p] \in Seq(S2C)
    BY DEF Conversing, WireTypeOK
  <1>1. /\ pc = "await_id" /\ p = file[new_sockfd] /\ c2s' \in AfterServerRecv(p)
        /\ Incoming(p).type = ID_REPLY
    BY DEF Identified, Answering, Peer
  <1>2. /\ \A q \in Conns : ~Acking(q) /\ (q # p => ~Joining(q))
        /\ ~Acking(p)'
    BY <1>1 DEF Joining, Acking, AckWaits
  <1>3. c2s[p] # << >> /\ 1 \in 1..Len(c2s[p])
    <2>1. c2s[p] # << >>
      BY <1>1 DEF Incoming, ZeroC2S, Command, ID_REPLY
    <2> QED BY <1>0, <2>1
  <1>4. spc[p] # "await_request"
    BY <1>0, <1>3 DEF InDialogue, Up
  <1>5. /\ \A q \in Conns : q # p => c2s'[q] = c2s[q]
        /\ c2s'[p] \in Seq(C2S)
    BY <1>1, ServerReads
  <1>6. PICK n \in 0..Len(c2s[p]) :
          /\ n >= 1
          /\ Len(c2s'[p]) = Len(c2s[p]) - n
          /\ \A k \in 1..Len(c2s'[p]) : c2s'[p][k] = c2s[p][k + n]
    BY <1>1, <1>3, ServerReads
  <1>7. CASE UNCHANGED <<s2c, srvEnd>>
    <2>1. Ends(p)'
      BY <1>0, <1>7 DEF InDialogue, Ends
    <2>2. Down(p)'
      BY <1>0, <1>2, <1>7 DEF InDialogue, Down
    <2>3. Up(p)'
      <3> SUFFICES ASSUME NEW k \in 1..Len(c2s'[p])
                   PROVE  Request(p, k)'
        BY <1>4 DEF Up
      <3>1. k + n \in 1..Len(c2s[p]) /\ k + n # 1 /\ c2s'[p][k] = c2s[p][k + n]
        BY <1>0, <1>5, <1>6
      <3>2. Request(p, k + n)
        BY <1>0, <3>1 DEF InDialogue, Up
      <3>3. k = Len(c2s'[p])
        BY <1>0, <1>5, <1>6, <3>2 DEF Request
      <3> QED BY <1>7, <3>1, <3>2, <3>3 DEF Request
    <2>4. InDialogue(p)'
      BY <2>1, <2>2, <2>3 DEF InDialogue
    <2>5. \A q \in Conns : q # p => SameConnection(q)
      BY <1>5, <1>7 DEF SameConnection
    <2> QED BY <1>2, <2>4, <2>5, OneConnection
  <1>8. CASE /\ s2c' = ToClient(p, Control(REFUSED)) /\ srvEnd'[p] = "closed"
             /\ \A q \in Conns : q # p => srvEnd'[q] = srvEnd[q]
    <2>1. Control(REFUSED) \in S2C /\ IsPushed(Control(REFUSED))
      BY HeaderType DEF Control, REFUSED, IsPushed
    <2>2. srvEnd'[p] # "open"
      BY <1>8
    <2>3. Down(p)'
      BY <1>0, <1>2, <1>4, <1>8, <2>1, <2>2, PushedDown
    <2>4. InDialogue(p)'
      BY <1>0, <1>8, <2>3, Closed
    <2>5. \A q \in Conns : q # p => SameConnection(q)
      BY <1>5, <1>8, <2>1, ServerSends DEF SameConnection
    <2> QED BY <1>2, <2>4, <2>5, OneConnection
  <1> QED BY <1>7, <1>8

\* What a client's command finds: nothing else under way in either direction.
LEMMA CommandAlone ==
  ASSUME TypeOK, Conversing, Free, NEW p \in Conns, srvEnd[p] = "open"
  PROVE  /\ spc[p] # "await_request"
         /\ Len(c2s[p]) <= 1
         /\ \A k \in 1..Len(c2s[p]) : IsCommand(c2s[p][k])
         /\ c2s[p] # << >> \/ cliEnd[p] = "closed" => s2c[p] = << >> /\ spc[p] # "loop"
  <1> USE DEF TypeOK
  <1>0. InDialogue(p) /\ c2s[p] \in Seq(C2S) /\ s2c[p] \in Seq(S2C)
    BY DEF Conversing, WireTypeOK
  <1>1. ~Joining(p) /\ ~Acking(p)
    BY DEF Free, Joining, Acking
  <1>2. spc[p] # "await_request"
    BY <1>0, <1>1 DEF InDialogue, Up
  <1>3. \A k \in 1..Len(c2s[p]) : Request(p, k)
    BY <1>0, <1>1 DEF InDialogue, Up, Answer
  <1>4. Len(c2s[p]) <= 1
    <2>1. PICK n \in Nat : n = Len(c2s[p])
      BY <1>0
    <2>2. \A k \in 1..n : k = n
      BY <1>3, <2>1 DEF Request
    <2>3. ~(n > 1)
      BY <2>2
    <2> QED BY <2>1, <2>3
  <1>5. ASSUME cliEnd[p] = "closed" PROVE s2c[p] = << >> /\ spc[p] # "loop"
    BY <1>0, <1>5 DEF InDialogue, Ends, Down
  <1>6. ASSUME c2s[p] # << >>, cliEnd[p] # "closed" PROVE s2c[p] = << >> /\ spc[p] # "loop"
    <2>1. 1 \in 1..Len(c2s[p])
      BY <1>0, <1>6
    <2>2. spc[p] # "loop" /\ \A j \in 1..Len(s2c[p]) : s2c[p][j].type # RESPONSE
      BY <1>3, <2>1 DEF Request
    <2>3. spc[p] \in {"await_response", "await_exit"}
      BY <1>0, <1>2, <1>6, <2>2 DEF InDialogue, Ends, SubTypeOK, Waiting
    <2>4. \A j \in 1..Len(s2c[p]) : FALSE
      BY <1>0, <1>1, <2>2, <2>3 DEF InDialogue, Down
    <2> QED BY <1>0, <2>2, <2>4
  <1> QED BY <1>2, <1>3, <1>4, <1>5, <1>6 DEF Request

\* ManageCommand and ManageExit: the one command is answered.
LEMMA CommandDialogue ==
  ASSUME TypeOK, Conversing, Free, NEW p \in Conns, srvEnd[p] = "open", ServerMayRecv(p),
         c2s' \in AfterServerRecv(p), s2c' = ToClient(p, Control(RESPONSE)),
         UNCHANGED <<cliEnd, spc>>, srvEnd'[p] \in {"open", "closed"},
         \A q \in Conns : q # p => srvEnd'[q] = srvEnd[q]
  PROVE  Conversing'
  <1> USE DEF TypeOK
  <1>0. InDialogue(p) /\ c2s[p] \in Seq(C2S) /\ s2c[p] \in Seq(S2C)
    BY DEF Conversing, WireTypeOK
  <1>1. /\ spc[p] \notin {"loop", "await_request"} /\ Len(c2s[p]) <= 1 /\ s2c[p] = << >>
        /\ \A k \in 1..Len(c2s[p]) : IsCommand(c2s[p][k])
    BY CommandAlone DEF ServerMayRecv
  <1>2. /\ \A q \in Conns : q # p => c2s'[q] = c2s[q]
        /\ Len(c2s'[p]) = 0
    <2>1. PICK n \in 0..Len(c2s[p]) :
            (c2s[p] # << >> => n >= 1) /\ Len(c2s'[p]) = Len(c2s[p]) - n
      BY ServerReads
    <2>2. PICK l \in Nat : l = Len(c2s[p])
      BY <1>0
    <2>3. l = 0 => c2s[p] = << >>
      <3> HAVE l = 0
      <3>1. Len(c2s[p]) = 0
        BY <2>2
      <3> QED BY <1>0, <3>1
    <2>4. n = l
      BY <1>0, <1>1, <2>1, <2>2
    <2>5. Len(c2s'[p]) = 0
      BY <2>1, <2>2, <2>4
    <2> QED BY <2>5, ServerReads
  <1>3. Control(RESPONSE) \in S2C /\ Control(RESPONSE).type = RESPONSE
    BY HeaderType DEF Control, RESPONSE
  <1>4. \A q \in Conns : q # p => s2c'[q] = s2c[q]
    BY <1>3, ServerSends
  <1>5. /\ cliEnd[p] = "closed" => s2c'[p] = << >>
        /\ Len(s2c'[p]) <= 1
        /\ \A k \in 1..Len(s2c'[p]) : s2c'[p][k].type = RESPONSE
    <2>1. Len(s2c[p]) = 0
      BY <1>1
    <2>2. CASE cliEnd[p] = "closed"
      <3>1. s2c' = s2c
        BY <1>3, <2>2, ServerSends
      <3>2. s2c'[p] = << >> /\ Len(s2c'[p]) = 0
        BY <1>1, <3>1
      <3> QED BY <3>2
    <2>3. CASE cliEnd[p] # "closed"
      <3>1. Len(s2c'[p]) = 1 /\ s2c'[p][1] = Control(RESPONSE)
        <4>1. /\ Len(s2c'[p]) = Len(s2c[p]) + 1
              /\ s2c'[p][Len(s2c[p]) + 1] = Control(RESPONSE)
          BY <1>3, <2>3, ServerSends
        <4> QED BY <2>1, <4>1
      <3>2. \A k \in 1..Len(s2c'[p]) : s2c'[p][k] = Control(RESPONSE)
        BY <3>1, OnlyIndex
      <3> QED BY <1>3, <2>3, <3>1, <3>2
    <2> QED BY <2>2, <2>3
  <1>6. Ends(p)'
    <2>1. srvEnd'[p] \notin {"none", "backlog"}
      OBVIOUS
    <2> QED BY <1>0, <2>1 DEF InDialogue, Ends
  <1>7. Down(p)'
    <2>1. Len(s2c'[p]) <= 2 /\ Len(s2c'[p]) # 2
      <3>1. s2c'[p] \in Seq(S2C)
        BY <1>3, ServerSends
      <3>2. Len(s2c'[p]) <= 1
        BY <1>5
      <3> QED BY <3>1, <3>2, NotTwo
    <2>2. \A k \in 1..Len(s2c'[p]) : ~IsPushed(s2c'[p][k])
      BY <1>5 DEF IsPushed, RESPONSE, DATA, REFUSED
    <2>3. spc[p] \in {"off", "done", "died"} => s2c'[p] = << >>
      BY <1>0, <1>5 DEF InDialogue, Ends
    <2> QED BY <1>1, <1>5, <2>1, <2>2, <2>3 DEF Down
  <1>8. Up(p)'
    BY <1>1, <1>2 DEF Up
  <1>9. InDialogue(p)'
    BY <1>6, <1>7, <1>8 DEF InDialogue
  <1>10. \A q \in Conns : q # p => SameConnection(q) /\ ~Joining(q) /\ ~Acking(q)
    BY <1>2, <1>4 DEF SameConnection, Free, Joining, Acking
  <1> QED BY <1>9, <1>10, OneConnection

\* The end of the process closes every connection.
LEMMA EndDialogue ==
  ASSUME TypeOK, Conversing, NEW how, Terminate(how), UNCHANGED spc
  PROVE  Conversing'
  <1>1. ASSUME NEW q \in Conns PROVE InDialogue(q)'
    <2>1. InDialogue(q)
      BY DEF Conversing
    <2>2. /\ srvEnd'[q] = IF srvEnd[q] = "none" THEN "none" ELSE "closed"
          /\ UNCHANGED <<c2s, s2c, cliEnd>>
      BY DEF Terminate
    <2>3. CASE srvEnd[q] = "none"
      BY <2>1, <2>2, <2>3, Untouched
    <2>4. CASE srvEnd[q] # "none"
      <3>1. srvEnd'[q] = "closed"
        BY <2>2, <2>4
      <3>2. Down(q)'
        BY <2>1, <2>2, <3>1 DEF InDialogue, Down
      <3> QED BY <2>1, <2>2, <2>4, <3>1, <3>2, Closed
    <2> QED BY <2>3, <2>4
  <1> QED BY <1>1 DEF Conversing

-----------------------------------------------------------------------------
\* Descriptors, walks and readiness.
Orderly == Bookkeeping /\ InStep

\* The connection behind a descriptor in use is open, and behind no other.
LEMMA OpenFile ==
  ASSUME TypeOK, FilesMatch, pc \notin Ended, NEW i \in Fds, file[i] # NoConn
  PROVE  /\ file[i] \in Conns
         /\ srvEnd[file[i]] = "open"
         /\ \A j \in Fds : file[j] = file[i] => j = i
  <1>1. file[i] \in Conns
    BY DEF TypeOK, ServerTypeOK
  <1> QED BY <1>1 DEF FilesMatch

\* A step that opens and closes nothing.
LEMMA FilesStill ==
  ASSUME FilesMatch, UNCHANGED file, pc \in Ended <=> pc' \in Ended,
         \A p \in Conns : srvEnd'[p] = srvEnd[p]
  PROVE  FilesMatch'
  BY DEF FilesMatch

\* accept() opens the connection it returns.
LEMMA FilesAccept ==
  ASSUME TypeOK, FilesMatch, NEW p \in Conns, NEW i \in Fds, pc \notin Ended, pc' \notin Ended,
         srvEnd[p] = "backlog", file[i] = NoConn,
         srvEnd' = [srvEnd EXCEPT ![p] = "open"], file' = [file EXCEPT ![i] = p]
  PROVE  FilesMatch'
  <1>1. \A j \in Fds : file[j] # p
    BY DEF FilesMatch
  <1>2. file'[i] = p /\ \A j \in Fds : j # i => file'[j] = file[j]
    BY DEF TypeOK, ServerTypeOK
  <1>3. srvEnd'[p] = "open" /\ \A q \in Conns : q # p => srvEnd'[q] = srvEnd[q]
    BY DEF TypeOK, WireTypeOK
  <1>4. \A j, k \in Fds : file'[j] = file'[k] /\ file'[j] # NoConn => j = k
    BY <1>1, <1>2 DEF FilesMatch
  <1>5. ASSUME NEW q \in Conns
        PROVE  srvEnd'[q] = "open" <=> \E j \in Fds : file'[j] = q
    <2>1. CASE q = p
      BY <1>2, <1>3, <2>1
    <2>2. CASE q # p
      <3>1. srvEnd[q] = "open" <=> \E j \in Fds : file[j] = q
        BY DEF FilesMatch
      <3>2. file[i] # q
        BY ServerAssumption
      <3> QED BY <1>2, <1>3, <2>2, <3>1, <3>2
    <2> QED BY <2>1, <2>2
  <1> QED BY <1>4, <1>5 DEF FilesMatch

\* close() closes the connection, and no other.
LEMMA FilesClose ==
  ASSUME TypeOK, FilesMatch, NEW i \in Fds, file[i] # NoConn, pc \notin Ended, pc' \notin Ended,
         CloseFd(i)
  PROVE  /\ FilesMatch'
         /\ file'[i] = NoConn /\ \A j \in Fds : j # i => file'[j] = file[j]
         /\ srvEnd'[file[i]] = "closed"
         /\ \A q \in Conns : q # file[i] => srvEnd'[q] = srvEnd[q]
  <1>1. file[i] \in Conns /\ \A j \in Fds : file[j] = file[i] => j = i
    BY OpenFile
  <1>2. file'[i] = NoConn /\ \A j \in Fds : j # i => file'[j] = file[j]
    BY DEF CloseFd, TypeOK, ServerTypeOK
  <1>3. /\ srvEnd'[file[i]] = "closed"
        /\ \A q \in Conns : q # file[i] => srvEnd'[q] = srvEnd[q]
    BY <1>1 DEF CloseFd, Peer, TypeOK, WireTypeOK
  <1>4. \A j, k \in Fds : file'[j] = file'[k] /\ file'[j] # NoConn => j = k
    BY <1>2 DEF FilesMatch
  <1>5. ASSUME NEW q \in Conns
        PROVE  srvEnd'[q] = "open" <=> \E j \in Fds : file'[j] = q
    <2>1. srvEnd[q] = "open" <=> \E j \in Fds : file[j] = q
      BY DEF FilesMatch
    <2>2. CASE q = file[i]
      BY <1>1, <1>2, <1>3, <2>2, ServerAssumption
    <2>3. CASE q # file[i]
      BY <1>2, <1>3, <2>1, <2>3, ServerAssumption
    <2> QED BY <2>2, <2>3
  <1>6. FilesMatch'
    BY <1>4, <1>5 DEF FilesMatch
  <1> QED BY <1>2, <1>3, <1>6

\* A handler that takes nothing but acknowledgements from a ready socket
\* leaves it ready.
LEMMA ReadyKept ==
  ASSUME StaysReady, tmp_fds' \subseteq tmp_fds, tmp_fds' \subseteq read_fds',
         pc \notin {"bye", "bye_ack"} \cup Ended \/ pc' \in {"bye", "bye_ack"} \cup Ended,
         \A i \in tmp_fds' \cap Fds :
           /\ file'[i] = file[i]
           /\ cliEnd[file[i]] = "closed" => cliEnd'[file[i]] = "closed"
           /\ \/ c2s'[file[i]] = c2s[file[i]]
              \/ Head(c2s[file[i]]).type = ACK
  PROVE  StaysReady'
  <1> SUFFICES ASSUME pc' \notin {"bye", "bye_ack"} \cup Ended, NEW i \in tmp_fds' \cap Fds
               PROVE  \/ cliEnd'[file'[i]] = "closed"
                      \/ c2s'[file'[i]] # << >> /\ Head(c2s'[file'[i]]).type # ACK
    BY DEF StaysReady
  <1>1. \/ cliEnd[file[i]] = "closed"
        \/ c2s[file[i]] # << >> /\ Head(c2s[file[i]]).type # ACK
    BY DEF StaysReady
  <1> QED BY <1>1

\* The client whose acknowledgement is awaited is connected.
LEMMA AwaitedPeer ==
  ASSUME Orderly, pc \in AckWaits
  PROVE  /\ at \in 1..Len(clients) /\ Here.sock \in Fds
         /\ file[Here.sock] # NoConn /\ file[Here.sock] = HerePeer
  <1> USE DEF Orderly, Bookkeeping, InStep, TypeOK
  <1>1. at \in 1..Len(clients)
    BY DEF Placed
  <1>2. clients[at].sock \in Fds /\ clients[at].sock # -1
    BY <1>1, ClientType DEF PeersOpen, Client
  <1>3. file[clients[at].sock] # NoConn
    <2>1. CASE pc = "await_ack"
      BY <1>1, <1>2, <2>1 DEF SocketsKnown, Ended
    <2>2. CASE pc = "drain_ack"
      BY <2>2 DEF Settling
    <2>3. CASE pc = "bye_ack"
      <3>1. at \in at..Len(clients)
        BY <1>1
      <3> QED BY <1>2, <2>3, <3>1 DEF PeersOpen
    <2> QED BY <2>1, <2>2, <2>3 DEF AckWaits
  <1> QED BY <1>1, <1>2, <1>3 DEF HerePeer, Here, Peer

\* The client a walk has reached is the same, on the same socket.
LEMMA SamePlace ==
  ASSUME SameClients(clients'), at \in 1..Len(clients), at' = at
  PROVE  clients'[at'].sock = clients[at].sock
  BY DEF SameClients

-----------------------------------------------------------------------------
\* Every handler keeps the server in step.

\* select() finds ready what has something to read, and that is a command.
LEMMA SelectInStep ==
  ASSUME Orderly, Select, UNCHANGED subVars
  PROVE  InStep'
  <1> USE DEF Orderly, Bookkeeping, InStep
  <1>1. /\ pc = "loop" /\ pc' = "loop" /\ tmp_fds' = ReadySet
        /\ UNCHANGED <<wireVars, spc, clients, file, read_fds, at>>
    BY DEF Select, subVars
  <1>2. Free /\ pc \notin Ended
    BY <1>1 DEF Free, AckWaits, Ended
  <1>3. Conversing'
    BY <1>1, <1>2, NoConnection
  <1>4. FilesMatch'
    BY <1>1, <1>2, FilesStill DEF wireVars
  <1>5. PeersOpen'
    BY <1>1 DEF PeersOpen, AckWaits
  <1>6. ASSUME NEW i \in ReadySet \cap Fds
        PROVE  \/ cliEnd[file[i]] = "closed"
               \/ c2s[file[i]] # << >> /\ Head(c2s[file[i]]).type # ACK
    <2>1. file[i] # NoConn /\ ServerMayRecv(file[i])
      BY <1>6, ServerAssumption DEF ReadySet, HasInput, STDIN, TCP, UDP, Fds, FirstFd
    <2>2. file[i] \in Conns /\ srvEnd[file[i]] = "open"
      BY <1>2, <1>6, <2>1, OpenFile
    <2>3. ASSUME c2s[file[i]] # << >> PROVE Head(c2s[file[i]]).type # ACK
      <3>1. c2s[file[i]] \in Seq(C2S)
        BY <2>2 DEF TypeOK, WireTypeOK
      <3>2. 1 \in 1..Len(c2s[file[i]]) /\ Head(c2s[file[i]]) = c2s[file[i]][1]
        BY <2>3, <3>1
      <3>3. IsCommand(c2s[file[i]][1])
        BY <1>2, <2>2, <3>2, CommandAlone
      <3> QED BY <3>2, <3>3 DEF IsCommand, SUBSCRIBE, UNSUBSCRIBE, DISCONNECT, ACK
    <2> QED BY <2>1, <2>3 DEF ServerMayRecv
  <1>7. StaysReady'
    BY <1>1, <1>6 DEF StaysReady, ReadySet, wireVars
  <1> QED BY <1>3, <1>4, <1>5, <1>7

\* accept(): the new descriptor was not watched.
LEMMA AcceptInStep ==
  ASSUME Orderly, NEW p \in Conns, AcceptConnection(p), UNCHANGED subVars
  PROVE  InStep'
  <1> USE DEF Orderly, Bookkeeping, InStep
  <1>1. /\ pc = "loop" /\ pc' = "await_id" /\ tmp_fds' = tmp_fds \ {TCP}
        /\ srvEnd[p] = "backlog" /\ srvEnd' = [srvEnd EXCEPT ![p] = "open"]
        /\ UNCHANGED <<c2s, cliEnd, spc, clients, read_fds, at>>
    BY DEF AcceptConnection, Turn, subVars
  <1>2. PICK i \in Fds : IsLowestFree(i) /\ file' = [file EXCEPT ![i] = p]
    BY DEF AcceptConnection
  <1>3. Conversing'
    BY <1>1, AcceptDialogue
  <1>4. FilesMatch'
    BY <1>1, <1>2, FilesAccept DEF IsLowestFree, Ended
  <1>5. PeersOpen'
    BY <1>1 DEF PeersOpen, AckWaits
  <1>6. i \notin read_fds
    BY <1>1, <1>2 DEF IsLowestFree, SocketsKnown, Ended
  <1>7. \A j \in tmp_fds' \cap Fds : file'[j] = file[j]
    BY <1>1, <1>2, <1>6 DEF StaysReady, TypeOK, ServerTypeOK
  <1>8. tmp_fds' \subseteq read_fds'
    BY <1>1 DEF StaysReady
  <1>9. StaysReady'
    BY <1>1, <1>7, <1>8, ReadyKept DEF Ended
  <1> QED BY <1>3, <1>4, <1>5, <1>9

\* The identifier: the new socket is not watched yet.
LEMMA IdentifyInStep ==
  ASSUME Orderly, NEW p \in Conns, NewClient(p) \/ RefuseClient(p) \/ ReturnClient(p),
         UNCHANGED subVars
  PROVE  InStep'
  <1> USE DEF Orderly, Bookkeeping, InStep
  <1>1. /\ Identified(p) /\ pc = "await_id" /\ p = file[new_sockfd]
        /\ c2s' \in AfterServerRecv(p) /\ pc' \in {"loop", "drain"}
        /\ tmp_fds' = tmp_fds /\ read_fds \subseteq read_fds'
        /\ UNCHANGED <<cliEnd, spc>>
    BY DEF NewClient, RefuseClient, ReturnClient, Identified, Answering, Peer, Register,
           setVars, subVars
  <1>2. new_sockfd \in Fds /\ new_sockfd \notin read_fds /\ file[new_sockfd] # NoConn
    BY <1>1 DEF Placed, Settling
  <1>3. /\ srvEnd[p] = "open" /\ pc \notin Ended /\ pc' \notin Ended /\ pc' \notin AckWaits
        /\ \A j \in Fds : file[j] = p => j = new_sockfd
    BY <1>1, <1>2, OpenFile DEF Ended, AckWaits
  <1>4. \/ /\ s2c' = ToClient(p, Control(REFUSED)) /\ CloseFd(new_sockfd)
        \/ UNCHANGED <<s2c, srvEnd, file>>
    BY DEF NewClient, RefuseClient, ReturnClient, Send
  <1>5. /\ FilesMatch'
        /\ \A j \in Fds : j # new_sockfd => file'[j] = file[j]
        /\ \/ UNCHANGED <<s2c, srvEnd>>
           \/ /\ s2c' = ToClient(p, Control(REFUSED)) /\ srvEnd'[p] = "closed"
              /\ \A q \in Conns : q # p => srvEnd'[q] = srvEnd[q]
    <2>1. CASE s2c' = ToClient(p, Control(REFUSED)) /\ CloseFd(new_sockfd)
      BY <1>1, <1>2, <1>3, <2>1, FilesClose
    <2>2. CASE UNCHANGED <<s2c, srvEnd, file>>
      BY <1>3, <2>2, FilesStill
    <2> QED BY <1>4, <2>1, <2>2
  <1>6. Conversing'
    BY <1>1, <1>3, <1>5, IdentifiedDialogue
  <1>7. PeersOpen'
    BY <1>1 DEF PeersOpen, AckWaits
  <1>8. ASSUME NEW j \in tmp_fds' \cap Fds
        PROVE  file'[j] = file[j] /\ c2s'[file[j]] = c2s[file[j]]
    <2>1. j # new_sockfd /\ j \in read_fds
      BY <1>1, <1>2, <1>8 DEF StaysReady
    <2>2. file[j] # p /\ file[j] # NoConn
      BY <1>1, <1>3, <1>8, <2>1 DEF SocketsKnown, Ended
    <2>3. file[j] \in Conns
      BY <1>8, <2>2 DEF TypeOK, ServerTypeOK
    <2>4. c2s'[file[j]] = c2s[file[j]]
      BY <1>1, <2>2, <2>3, ServerReads DEF TypeOK
    <2> QED BY <1>5, <1>8, <2>1, <2>4
  <1>9. tmp_fds' \subseteq read_fds'
    BY <1>1 DEF StaysReady
  <1>10. StaysReady'
    BY <1>1, <1>8, <1>9, ReadyKept DEF Ended
  <1> QED BY <1>5, <1>6, <1>7, <1>10

\* Sending a publication, queued or not, or the farewell.
LEMMA PushInStep ==
  ASSUME Orderly, Free, pc \notin Ended, NEW i \in Fds, file[i] # NoConn,
         NEW m \in S2C, IsPushed(m), s2c' = ToClient(file[i], m),
         pc' \in AckWaits, clients'[at'].sock = i, pc = "bye" => pc' = "bye_ack",
         UNCHANGED <<c2s, cliEnd, srvEnd, file, read_fds, tmp_fds, spc>>
  PROVE  Conversing' /\ FilesMatch' /\ StaysReady'
  <1> USE DEF Orderly, Bookkeeping, InStep
  <1>1. file[i] \in Conns /\ srvEnd[file[i]] = "open"
    BY OpenFile
  <1>2. PICK p \in Conns : p = file[i]
    BY <1>1
  <1>3. Acking(p)'
    BY <1>2 DEF Acking
  <1>4. Conversing'
    BY <1>1, <1>2, <1>3, PushDialogue
  <1>5. FilesMatch'
    BY FilesStill DEF AckWaits, Ended
  <1>6. StaysReady'
    <2>1. tmp_fds' \subseteq read_fds'
      BY DEF StaysReady
    <2>2. pc \notin {"bye", "bye_ack"} \cup Ended \/ pc' \in {"bye", "bye_ack"} \cup Ended
      BY DEF Free, AckWaits
    <2> QED BY <2>1, <2>2, ReadyKept
  <1> QED BY <1>4, <1>5, <1>6

\* Taking the acknowledgement of one of them.
LEMMA AckInStep ==
  ASSUME Orderly, Acked, c2s' \in AfterServerRecv(HerePeer), UNCHANGED <<s2c, cliEnd, spc>>,
         read_fds' = read_fds, tmp_fds' = tmp_fds, pc' \notin Ended,
         \/ UNCHANGED <<srvEnd, file>> /\ pc # "bye_ack"
         \/ CloseFd(Here.sock) /\ pc' \in {"bye", "bye_ack"}
  PROVE  Conversing' /\ FilesMatch' /\ StaysReady'
  <1> USE DEF Orderly, Bookkeeping, InStep
  <1>1. pc \in AckWaits /\ pc \notin Ended
    BY DEF Acked, AckWaits, Ended
  <1>2. /\ Here.sock \in Fds /\ file[Here.sock] # NoConn /\ file[Here.sock] = HerePeer
    BY <1>1, AwaitedPeer
  <1>3. PICK p \in Conns : p = HerePeer
    BY <1>1, <1>2, OpenFile
  <1>4. srvEnd[p] = "open"
    BY <1>1, <1>2, <1>3, OpenFile
  <1>5. c2s[p] # << >> /\ Head(c2s[p]).type = ACK
    <2>1. Incoming(p).type = ACK
      BY <1>3 DEF Acked
    <2> QED BY <2>1 DEF Incoming, ZeroC2S, Command, ACK
  <1>6. /\ FilesMatch'
        /\ srvEnd'[p] \in {"open", "closed"}
        /\ \A q \in Conns : q # p => srvEnd'[q] = srvEnd[q]
    <2>1. CASE CloseFd(Here.sock)
      <3>1. PICK i \in Fds : i = Here.sock
        BY <1>2
      <3> QED BY <1>1, <1>2, <1>3, <2>1, <3>1, FilesClose
    <2>2. CASE UNCHANGED <<srvEnd, file>>
      BY <1>1, <1>4, <2>2, FilesStill
    <2> QED BY <2>1, <2>2
  <1>7. Conversing'
    BY <1>1, <1>3, <1>4, <1>5, <1>6, AckedDialogue
  <1>8. StaysReady'
    <2>1. tmp_fds' \subseteq read_fds'
      BY DEF StaysReady
    <2>2. CASE UNCHANGED <<srvEnd, file>> /\ pc # "bye_ack"
      <3>1. ASSUME NEW i \in tmp_fds' \cap Fds
            PROVE  c2s'[file[i]] = c2s[file[i]] \/ Head(c2s[file[i]]).type = ACK
        <4>1. CASE file[i] = p
          BY <1>5, <4>1
        <4>2. CASE file[i] # p
          <5>1. i \in read_fds
            BY <2>1, <3>1
          <5>2. file[i] # NoConn
            BY <1>1, <2>2, <3>1, <5>1 DEF SocketsKnown, AckWaits, Ended
          <5>3. file[i] \in Conns
            BY <3>1, <5>2 DEF TypeOK, ServerTypeOK
          <5> QED BY <1>3, <4>2, <5>3, ServerReads DEF TypeOK
        <4> QED BY <4>1, <4>2
      <3>2. pc \notin {"bye", "bye_ack"} \cup Ended
        BY <1>1, <2>2 DEF AckWaits, Ended
      <3> QED BY <2>1, <2>2, <3>1, <3>2, ReadyKept
    <2>3. CASE pc' \in {"bye", "bye_ack"}
      BY <2>1, <2>3 DEF StaysReady
    <2> QED BY <2>2, <2>3
  <1> QED BY <1>6, <1>7, <1>8

\* A step of a walk that sends and reads nothing.
LEMMA WalkInStep ==
  ASSUME Orderly, Free, pc \notin Ended, pc' \notin Ended, UNCHANGED <<wireVars, spc, file>>,
         tmp_fds' \subseteq tmp_fds, read_fds \subseteq read_fds',
         pc = "bye" => pc' \in {"bye", "bye_ack"}
  PROVE  Conversing' /\ FilesMatch' /\ StaysReady'
  <1> USE DEF Orderly, Bookkeeping, InStep
  <1>1. Conversing'
    BY NoConnection
  <1>2. FilesMatch'
    BY FilesStill DEF wireVars
  <1>3. pc \notin {"bye", "bye_ack"} \cup Ended \/ pc' \in {"bye", "bye_ack"} \cup Ended
    BY DEF Free, AckWaits
  <1>4. tmp_fds' \subseteq read_fds'
    BY DEF StaysReady
  <1>5. StaysReady'
    BY <1>3, <1>4, ReadyKept DEF wireVars
  <1> QED BY <1>1, <1>2, <1>5

\* empty_queue.
LEMMA DrainInStep ==
  ASSUME Orderly, SendQueued \/ QueueEmptied \/ AckQueued, UNCHANGED subVars
  PROVE  InStep'
  <1> USE DEF Orderly, Bookkeeping, InStep
  <1>1. CASE SendQueued
    <2>1. /\ pc = "drain" /\ pc' = "drain_ack" /\ Here.queue # << >>
          /\ clients' = [clients EXCEPT ![at].queue = Tail(clients[at].queue)]
          /\ s2c' = ToClient(HerePeer, Publication(Head(Here.queue)))
          /\ UNCHANGED <<c2s, cliEnd, srvEnd, file, read_fds, tmp_fds, at, spc>>
      BY <1>1 DEF SendQueued, setVars, subVars
    <2>2. at \in 1..Len(clients) /\ clients[at].queue \in Seq(Nat) /\ clients[at].queue # << >>
      <3>1. at \in 1..Len(clients)
        BY <2>1 DEF Placed
      <3> QED BY <2>1, <3>1, ClientType DEF TypeOK, Client, Here
    <2>3. /\ new_sockfd \in Fds /\ file[new_sockfd] # NoConn
          /\ clients[at].sock = new_sockfd /\ HerePeer = file[new_sockfd]
      BY <2>1 DEF Settling, Placed, HerePeer, Here, Peer
    <2>4. SameClients(clients')
      <3>1. Tail(clients[at].queue) \in Seq(Nat)
        BY <2>2
      <3> QED BY <2>1, <2>2, <3>1, SameType DEF TypeOK
    <2>5. clients'[at'].sock = new_sockfd
      BY <2>1, <2>2, <2>3, <2>4, SamePlace
    <2>6. /\ Publication(Head(Here.queue)) \in S2C
          /\ IsPushed(Publication(Head(Here.queue)))
      <3>1. Head(Here.queue) \in Nat
        BY <2>2 DEF Here
      <3> QED BY <3>1, HeaderType DEF Publication, IsPushed, DATA, S2C
    <2>7. Free /\ pc \notin Ended /\ pc' \in AckWaits /\ pc # "bye"
      BY <2>1 DEF Free, AckWaits, Ended
    <2>8. Conversing' /\ FilesMatch' /\ StaysReady'
      BY <2>1, <2>3, <2>5, <2>6, <2>7, PushInStep
    <2>9. PeersOpen'
      BY <2>1, <2>3, <2>5 DEF PeersOpen, Fds, FirstFd
    <2> QED BY <2>8, <2>9
  <1>2. CASE QueueEmptied
    <2>1. /\ pc = "drain" /\ pc' = "loop" /\ read_fds' = read_fds \cup {new_sockfd}
          /\ UNCHANGED <<wireVars, spc, file, tmp_fds>>
      BY <1>2 DEF QueueEmptied, Register, subVars
    <2>2. Conversing' /\ FilesMatch' /\ StaysReady'
      BY <2>1, WalkInStep DEF Free, AckWaits, Ended
    <2>3. PeersOpen'
      BY <2>1 DEF PeersOpen, AckWaits
    <2> QED BY <2>2, <2>3
  <1>3. CASE AckQueued
    <2>1. /\ pc = "drain_ack" /\ pc' = "drain" /\ c2s' \in AfterServerRecv(HerePeer) /\ Acked
          /\ UNCHANGED <<s2c, cliEnd, srvEnd, file, read_fds, tmp_fds, spc>>
      BY <1>3 DEF AckQueued, setVars, subVars
    <2>2. Conversing' /\ FilesMatch' /\ StaysReady'
      BY <2>1, AckInStep DEF Ended
    <2>3. PeersOpen'
      BY <2>1 DEF PeersOpen, AckWaits
    <2> QED BY <2>2, <2>3
  <1> QED BY <1>1, <1>2, <1>3

\* A datagram's delivery.
LEMMA ForwardInStep ==
  ASSUME Orderly, ReceiveDatagram \/ Skip \/ Enqueue \/ Forward \/ AckForward \/ Forwarded,
         UNCHANGED subVars
  PROVE  InStep'
  <1> USE DEF Orderly, Bookkeeping, InStep
  <1>1. CASE ReceiveDatagram \/ Skip \/ Enqueue \/ Forwarded
    <2>1. /\ pc \in {"loop", "deliver"} /\ pc' \in {"loop", "deliver"}
          /\ UNCHANGED <<wireVars, spc, file, read_fds>> /\ tmp_fds' \subseteq tmp_fds
      BY <1>1 DEF ReceiveDatagram, Skip, Enqueue, Forwarded, Turn, Visiting, ToStore, setVars,
                  subVars
    <2>2. Conversing' /\ FilesMatch' /\ StaysReady'
      BY <2>1, WalkInStep DEF Free, AckWaits, Ended
    <2>3. PeersOpen'
      BY <2>1 DEF PeersOpen, AckWaits
    <2> QED BY <2>2, <2>3
  <1>2. CASE Forward
    <2>1. /\ pc = "deliver" /\ pc' = "await_ack" /\ at <= Len(clients) /\ Here.online
          /\ s2c' = ToClient(HerePeer, Publication(cur))
          /\ UNCHANGED <<c2s, cliEnd, srvEnd, clients, file, read_fds, tmp_fds, at, spc>>
      BY <1>2 DEF Forward, ToSend, Visiting, setVars, subVars
    <2>2. at \in 1..Len(clients) /\ cur \in Nat
      BY <2>1 DEF Placed, TypeOK, ServerTypeOK
    <2>3. clients[at].sock # -1 /\ file[clients[at].sock] # NoConn
      BY <2>1, <2>2 DEF SocketsKnown, Ended, Here
    <2>4. clients[at].sock \in Fds
      BY <2>2, <2>3, ClientType DEF TypeOK, Client
    <2>5. PICK i \in Fds : i = clients[at].sock
      BY <2>4
    <2>6. file[i] # NoConn /\ HerePeer = file[i] /\ clients'[at'].sock = i
      BY <2>1, <2>3, <2>5 DEF HerePeer, Here, Peer
    <2>7. Publication(cur) \in S2C /\ IsPushed(Publication(cur))
      BY <2>2, HeaderType DEF Publication, IsPushed, DATA, S2C
    <2>8. Free /\ pc \notin Ended /\ pc' \in AckWaits /\ pc # "bye"
      BY <2>1 DEF Free, AckWaits, Ended
    <2>9. Conversing' /\ FilesMatch' /\ StaysReady'
      BY <2>1, <2>6, <2>7, <2>8, PushInStep
    <2>10. PeersOpen'
      BY <2>1, <2>3 DEF PeersOpen
    <2> QED BY <2>9, <2>10
  <1>3. CASE AckForward
    <2>1. /\ pc = "await_ack" /\ pc' = "deliver" /\ c2s' \in AfterServerRecv(HerePeer) /\ Acked
          /\ UNCHANGED <<s2c, cliEnd, srvEnd, file, read_fds, tmp_fds, spc>>
      BY <1>3 DEF AckForward, setVars, subVars
    <2>2. Conversing' /\ FilesMatch' /\ StaysReady'
      BY <2>1, AckInStep DEF Ended
    <2>3. PeersOpen'
      BY <2>1 DEF PeersOpen, AckWaits
    <2> QED BY <2>2, <2>3
  <1> QED BY <1>1, <1>2, <1>3

\* The farewell to every client: each still has a socket of its own when its
\* turn comes.
LEMMA ByeInStep ==
  ASSUME Orderly, ReceiveExit \/ SayBye \/ AckBye, UNCHANGED subVars
  PROVE  InStep'
  <1> USE DEF Orderly, Bookkeeping, InStep
  <1>1. CASE ReceiveExit
    <2>1. /\ pc = "loop" /\ pc' = "bye" /\ at' = 1
          /\ UNCHANGED <<wireVars, spc, file, read_fds, clients>> /\ tmp_fds' \subseteq tmp_fds
      BY <1>1 DEF ReceiveExit, Turn, subVars
    <2>2. Conversing' /\ FilesMatch' /\ StaysReady'
      BY <2>1, WalkInStep DEF Free, AckWaits, Ended
    <2>3. PeersOpen'
      BY <2>1 DEF PeersOpen, SocketsKnown, AckWaits, Ended
    <2> QED BY <2>2, <2>3
  <1>2. CASE SayBye
    <2>1. /\ pc = "bye" /\ pc' = "bye_ack" /\ at <= Len(clients) /\ Here.sock # -1
          /\ s2c' = ToClient(HerePeer, Control(REFUSED))
          /\ UNCHANGED <<c2s, cliEnd, srvEnd, clients, file, read_fds, tmp_fds, at, spc>>
      BY <1>2 DEF SayBye, Send, setVars, subVars
    <2>2. at \in 1..Len(clients) /\ at \in at..Len(clients)
      BY <2>1 DEF Placed, TypeOK, ServerTypeOK
    <2>3. clients[at].sock # -1 /\ file[clients[at].sock] # NoConn
      BY <2>1, <2>2 DEF PeersOpen, Here
    <2>4. clients[at].sock \in Fds
      BY <2>2, <2>3, ClientType DEF TypeOK, Client
    <2>5. PICK i \in Fds : i = clients[at].sock
      BY <2>4
    <2>6. file[i] # NoConn /\ HerePeer = file[i] /\ clients'[at'].sock = i
      BY <2>1, <2>3, <2>5 DEF HerePeer, Here, Peer
    <2>7. Control(REFUSED) \in S2C /\ IsPushed(Control(REFUSED))
      BY DEF Control, IsPushed, REFUSED, S2C
    <2>8. Free /\ pc \notin Ended /\ pc' \in AckWaits
      BY <2>1 DEF Free, AckWaits, Ended
    <2>9. Conversing' /\ FilesMatch' /\ StaysReady'
      BY <2>1, <2>6, <2>7, <2>8, PushInStep
    <2>10. PeersOpen'
      BY <2>1, <2>3 DEF PeersOpen
    <2> QED BY <2>9, <2>10
  <1>3. CASE AckBye
    <2>1. /\ pc = "bye_ack" /\ pc' = "bye" /\ at' = at + 1 /\ CloseFd(Here.sock)
          /\ c2s' \in AfterServerRecv(HerePeer) /\ Acked
          /\ UNCHANGED <<s2c, cliEnd, clients, read_fds, tmp_fds, spc>>
      BY <1>3 DEF AckBye, setVars, subVars
    <2>2. Conversing' /\ FilesMatch' /\ StaysReady'
      BY <2>1, AckInStep DEF Ended
    <2>3. at \in 1..Len(clients) /\ Here.sock \in Fds
      BY <2>1, AwaitedPeer DEF AckWaits
    <2>4. \A j \in Fds : j # clients[at].sock => file'[j] = file[j]
      BY <2>1, <2>3 DEF CloseFd, Here, TypeOK, ServerTypeOK
    <2>5. ASSUME NEW k \in (at + 1)..Len(clients), clients[k].sock # -1
          PROVE  /\ file'[clients[k].sock] # NoConn
                 /\ \A j \in 1..(k - 1) : clients[j].sock # clients[k].sock
      <3>1. k \in at..Len(clients) /\ k \in 1..Len(clients) /\ at \in 1..(k - 1)
        BY <2>3, <2>5
      <3>2. /\ file[clients[k].sock] # NoConn
            /\ \A j \in 1..(k - 1) : clients[j].sock # clients[k].sock
        BY <2>1, <2>5, <3>1 DEF PeersOpen
      <3>3. clients[k].sock \in Fds
        BY <2>5, <3>1, ClientType DEF TypeOK, Client
      <3> QED BY <2>4, <3>1, <3>2, <3>3
    <2>6. PeersOpen'
      BY <2>1, <2>5 DEF PeersOpen, AckWaits
    <2> QED BY <2>2, <2>6
  <1> QED BY <1>1, <1>2, <1>3

\* A command from a client, or its exit.
LEMMA CommandInStep ==
  ASSUME Orderly, NEW i \in Fds, NEW k \in 1..Len(clients),
         ManageCommand(i, k) \/ ManageExit(i, k), UNCHANGED subVars
  PROVE  InStep'
  <1> USE DEF Orderly, Bookkeeping, InStep
  <1>1. /\ pc = "loop" /\ pc' = "loop" /\ clients[k].sock = i
        /\ ServerMayRecv(Peer(i)) /\ c2s' \in AfterServerRecv(Peer(i))
        /\ s2c' = ToClient(Peer(i), Control(RESPONSE))
        /\ tmp_fds' = tmp_fds \ {i} /\ read_fds \ {i} \subseteq read_fds'
        /\ UNCHANGED <<cliEnd, spc>>
        /\ CloseFd(i) \/ UNCHANGED <<srvEnd, file>>
    BY DEF ManageCommand, ManageExit, Commanding, Turn, IsBySock, Send, Unregister, subVars
  <1>2. file[i] # NoConn
    <2>1. clients[k].online
      BY <1>1 DEF SocketsKnown, Ended, Fds, FirstFd
    <2> QED BY <1>1, <2>1 DEF SocketsKnown, Ended
  <1>3. Free /\ pc \notin Ended /\ pc' \notin Ended
    BY <1>1 DEF Free, AckWaits, Ended
  <1>4. PICK p \in Conns : p = file[i] /\ p = Peer(i)
    BY <1>2, <1>3, OpenFile DEF Peer
  <1>5. srvEnd[p] = "open" /\ \A j \in Fds : file[j] = p => j = i
    BY <1>2, <1>3, <1>4, OpenFile
  <1>6. /\ FilesMatch'
        /\ \A j \in Fds : j # i => file'[j] = file[j]
        /\ srvEnd'[p] \in {"open", "closed"}
        /\ \A q \in Conns : q # p => srvEnd'[q] = srvEnd[q]
    <2>1. CASE CloseFd(i)
      BY <1>2, <1>3, <1>4, <2>1, FilesClose
    <2>2. CASE UNCHANGED <<srvEnd, file>>
      BY <1>3, <1>5, <2>2, FilesStill
    <2> QED BY <1>1, <2>1, <2>2
  <1>7. Conversing'
    BY <1>1, <1>3, <1>4, <1>5, <1>6, CommandDialogue
  <1>8. PeersOpen'
    BY <1>1 DEF PeersOpen, AckWaits
  <1>9. ASSUME NEW j \in tmp_fds' \cap Fds
        PROVE  file'[j] = file[j] /\ c2s'[file[j]] = c2s[file[j]]
    <2>1. j # i /\ j \in read_fds
      BY <1>1, <1>9 DEF StaysReady
    <2>2. file[j] # p /\ file[j] # NoConn
      BY <1>1, <1>5, <1>9, <2>1 DEF SocketsKnown, Ended
    <2>3. file[j] \in Conns
      BY <1>9, <2>2 DEF TypeOK, ServerTypeOK
    <2> QED BY <1>1, <1>4, <1>6, <1>9, <2>1, <2>2, <2>3, ServerReads DEF TypeOK
  <1>10. tmp_fds' \subseteq read_fds'
    BY <1>1 DEF StaysReady
  <1>11. StaysReady'
    BY <1>1, <1>9, <1>10, ReadyKept DEF Ended
  <1> QED BY <1>6, <1>7, <1>8, <1>11

\* The end of the process.
LEMMA EndInStep ==
  ASSUME Orderly, NEW how \in Ended, Terminate(how), UNCHANGED subVars
  PROVE  InStep'
  <1> USE DEF Orderly, Bookkeeping, InStep
  <1>1. Conversing'
    BY EndDialogue DEF subVars
  <1>2. /\ pc' \in Ended /\ UNCHANGED <<file, tmp_fds, read_fds>>
        /\ \A p \in Conns : srvEnd'[p] \in {"none", "closed"}
    BY DEF Terminate, setVars
  <1>3. FilesMatch'
    BY <1>2 DEF FilesMatch
  <1>4. PeersOpen' /\ StaysReady'
    BY <1>2 DEF PeersOpen, StaysReady, AckWaits, Ended
  <1> QED BY <1>1, <1>3, <1>4

\* Every step of the server.
LEMMA ServerInStep ==
  ASSUME Orderly, ServerRuns
  PROVE  InStep'
  <1>0. ServerStep /\ UNCHANGED subVars
    BY DEF ServerRuns
  <1>1. ASSUME Die \/ Terminate("stopped") PROVE InStep'
    BY <1>0, <1>1, EndInStep DEF Die, Ended
  <1>2. CASE Select
    BY <1>0, <1>2, SelectInStep
  <1>3. CASE Accepting
    <2>1. ASSUME NEW p \in Conns, AcceptConnection(p) PROVE InStep'
      BY <1>0, <2>1, AcceptInStep
    <2> QED BY <1>1, <1>3, <2>1 DEF Accepting, AcceptFails
  <1>4. CASE Identifying
    <2>1. PICK p \in Conns :
            \/ NewClient(p) \/ RefuseClient(p) \/ ReturnClient(p)
            \/ NoIdentity(p) \/ IdentityUnrefusable(p)
      BY <1>4 DEF Identifying
    <2>2. CASE NewClient(p) \/ RefuseClient(p) \/ ReturnClient(p)
      BY <1>0, <2>2, IdentifyInStep
    <2>3. CASE NoIdentity(p) \/ IdentityUnrefusable(p)
      BY <1>1, <2>3 DEF NoIdentity, IdentityUnrefusable
    <2> QED BY <2>1, <2>2, <2>3
  <1>5. CASE Draining
    <2>1. CASE SendQueued \/ QueueEmptied \/ AckQueued
      BY <1>0, <2>1, DrainInStep
    <2>2. CASE SendQueuedFails
      BY <1>1, <2>2 DEF SendQueuedFails
    <2> QED BY <1>5, <2>1, <2>2 DEF Draining
  <1>6. CASE Forwarding
    <2>1. CASE ReceiveDatagram \/ Skip \/ Enqueue \/ Forward \/ AckForward \/ Forwarded
      BY <1>0, <2>1, ForwardInStep
    <2>2. CASE ReceiveMalformed \/ ForwardFails
      BY <1>1, <2>2 DEF ReceiveMalformed, ForwardFails
    <2> QED BY <1>6, <2>1, <2>2 DEF Forwarding
  <1>7. CASE Leaving
    <2>1. CASE ReceiveExit \/ SayBye \/ AckBye
      BY <1>0, <2>1, ByeInStep
    <2>2. CASE ByeFails \/ Stop
      BY <1>1, <2>2 DEF ByeFails, Stop
    <2> QED BY <1>7, <2>1, <2>2 DEF Leaving
  <1>8. CASE LackAck
    BY <1>1, <1>8 DEF LackAck
  <1>9. CASE Commands
    <2>1. PICK i \in Fds, k \in 1..Len(clients) :
            ManageCommand(i, k) \/ ManageExit(i, k) \/ ResponseFails(i, k) \/ Corrupt(i, k)
      BY <1>9 DEF Commands
    <2>2. CASE ManageCommand(i, k) \/ ManageExit(i, k)
      BY <1>0, <2>2, CommandInStep
    <2>3. CASE ResponseFails(i, k) \/ Corrupt(i, k)
      BY <1>1, <2>3 DEF ResponseFails, Corrupt
    <2> QED BY <2>1, <2>2, <2>3
  <1> QED BY <1>0, <1>2, <1>3, <1>4, <1>5, <1>6, <1>7, <1>8, <1>9 DEF ServerStep

\* What a process at the other end can do to a connection, as the server sees
\* it: add bytes behind those that are there, and end.
OtherEnd(q) ==
  /\ cliEnd[q] = "closed" => cliEnd'[q] = "closed"
  /\ c2s[q] # << >> => c2s'[q] # << >> /\ Head(c2s'[q]) = Head(c2s[q])
  /\ srvEnd'[q] = srvEnd[q] \/ (srvEnd[q] = "none" /\ srvEnd'[q] = "backlog")

\* Adding an element does not change the first one.
LEMMA SendKeepsHead ==
  ASSUME WireTypeOK, NEW p \in Conns, NEW m \in C2S, NEW q \in Conns, c2s[q] # << >>
  PROVE  ToServer(p, m)[q] # << >> /\ Head(ToServer(p, m)[q]) = Head(c2s[q])
  <1>1. c2s \in [Conns -> Seq(C2S)] /\ c2s[q] \in Seq(C2S)
    BY DEF WireTypeOK
  <1>2. CASE srvEnd[p] = "closed" \/ q # p
    <2>1. ToServer(p, m)[q] = c2s[q]
      BY <1>2, SubscriberSends
    <2> QED BY <2>1
  <1>3. CASE srvEnd[p] # "closed" /\ q = p
    <2>1. ToServer(p, m)[q] = Append(c2s[q], m)
      BY <1>1, <1>3 DEF ToServer
    <2> QED BY <1>1, <2>1
  <1> QED BY <1>2, <1>3

\* Subscribers and users do no more than that.
LEMMA OtherEndSteps ==
  ASSUME TypeOK, Conversing, NEW p \in Conns,
         \/ SubscriberStep(p) \/ Connect(p) \/ Killed(p)
         \/ \E m \in C2S, next \in Waiting : Type(p, m, next)
  PROVE  \A q \in Conns : OtherEnd(q)
  <1> USE DEF TypeOK
  <1>1. ASSUME NEW m \in C2S, c2s' = ToServer(p, m), UNCHANGED srvEnd,
               \A q \in Conns : cliEnd[q] = "closed" => cliEnd'[q] = "closed"
        PROVE  \A q \in Conns : OtherEnd(q)
    BY <1>1, SendKeepsHead DEF OtherEnd
  <1>2. ASSUME UNCHANGED <<c2s, srvEnd>>,
               \A q \in Conns : cliEnd[q] = "closed" => cliEnd'[q] = "closed"
        PROVE  \A q \in Conns : OtherEnd(q)
    BY <1>2 DEF OtherEnd
  <1>3. ASSUME NEW how, Quit(p, how, s2c)
        PROVE  \A q \in Conns : cliEnd[q] = "closed" => cliEnd'[q] = "closed"
    BY <1>3 DEF Quit, WireTypeOK
  <1>4. Command(ACK, NoTopic, 0) \in C2S /\ IdReply(IdOf[p]) \in C2S
    BY IdOfAssumption, HeaderType DEF ACK
  <1>5. CASE Connect(p)
    <2>1. spc[p] = "off" /\ srvEnd' = [srvEnd EXCEPT ![p] = "backlog"]
          /\ cliEnd' = [cliEnd EXCEPT ![p] = "open"] /\ UNCHANGED c2s
      BY <1>5 DEF Connect
    <2>2. srvEnd[p] = "none" /\ cliEnd[p] = "none"
      BY <2>1 DEF Conversing, InDialogue, Ends
    <2> QED BY <2>1, <2>2 DEF OtherEnd, WireTypeOK
  <1>6. CASE Killed(p)
    BY <1>2, <1>3, <1>6 DEF Killed
  <1>7. ASSUME NEW m \in C2S, NEW next, Type(p, m, next)
        PROVE  \A q \in Conns : OtherEnd(q)
    BY <1>1, <1>7 DEF Type
  <1>8. CASE SendId(p)
    BY <1>1, <1>4, <1>8 DEF SendId
  <1>9. CASE Answered(p)
    BY <1>2, <1>9 DEF Answered
  <1>10. CASE ExitAnswered(p) \/ WrongHeader(p)
    BY <1>2, <1>3, <1>10 DEF ExitAnswered, WrongHeader
  <1>11. CASE ReceiveData(p)
    BY <1>1, <1>4, <1>11 DEF ReceiveData
  <1>12. CASE ReceiveRefused(p)
    BY <1>1, <1>3, <1>4, <1>12 DEF ReceiveRefused
  <1>13. CASE ReceiveEnd(p)
    <2>1. UNCHANGED <<c2s, srvEnd>> /\ (Quit(p, "died", s2c) \/ UNCHANGED cliEnd)
      BY <1>13 DEF ReceiveEnd
    <2> QED BY <1>2, <1>3, <2>1
  <1> QED BY <1>5, <1>6, <1>7, <1>8, <1>9, <1>10, <1>11, <1>12, <1>13 DEF SubscriberStep

\* So the server's side of the invariant is safe from them.
LEMMA OtherEndKeeps ==
  ASSUME Orderly, UNCHANGED <<waitVars, tmp_fds, read_fds>>, \A q \in Conns : OtherEnd(q),
         pc \in Ended => UNCHANGED srvEnd
  PROVE  FilesMatch' /\ PeersOpen' /\ StaysReady'
  <1> USE DEF Orderly, Bookkeeping, InStep
  <1>1. UNCHANGED <<pc, clients, file, new_sockfd, at>>
    BY DEF waitVars
  <1>2. FilesMatch'
    BY <1>1 DEF FilesMatch, OtherEnd
  <1>3. PeersOpen'
    BY <1>1 DEF PeersOpen
  <1>4. StaysReady'
    <2> SUFFICES ASSUME pc \notin {"bye", "bye_ack"} \cup Ended, NEW i \in tmp_fds \cap Fds
                 PROVE  \/ cliEnd'[file[i]] = "closed"
                        \/ c2s'[file[i]] # << >> /\ Head(c2s'[file[i]]).type # ACK
      BY <1>1 DEF StaysReady
    <2>1. file[i] # NoConn
      BY DEF StaysReady, SocketsKnown
    <2>2. OtherEnd(file[i])
      BY <2>1 DEF TypeOK, ServerTypeOK
    <2> QED BY <2>2 DEF StaysReady, OtherEnd
  <1> QED BY <1>2, <1>3, <1>4

\* Every step of the system.
LEMMA NextInStep ==
  ASSUME Orderly, [Next]_vars
  PROVE  InStep'
  <1> USE DEF Orderly, Bookkeeping, InStep
  <1>1. CASE ServerRuns
    BY <1>1, ServerInStep
  <1>2. ASSUME NEW p \in Conns, ProcessRuns(p) PROVE InStep'
    <2>1. SubscriberStep(p) /\ UNCHANGED <<waitVars, tmp_fds, read_fds>>
      BY <1>2 DEF ProcessRuns, serverVars, setVars, waitVars
    <2>2. Conversing'
      BY <2>1, SubscriberDialogue
    <2>3. pc \in Ended => UNCHANGED srvEnd
      BY <2>1 DEF SubscriberStep, SendId, Answered, ExitAnswered, WrongHeader, ReceiveData,
                  ReceiveRefused, ReceiveEnd
    <2> QED BY <2>1, <2>2, <2>3, OtherEndSteps, OtherEndKeeps
  <1>3. CASE Environment
    <2>1. Conversing'
      BY <1>3, EnvironmentDialogue
    <2>2. ASSUME NEW p \in Conns, UserConnects(p) PROVE InStep'
      <3>1. Connect(p) /\ pc \notin Ended /\ UNCHANGED <<waitVars, tmp_fds, read_fds>>
        BY <2>2 DEF UserConnects, Listening, serverVars, setVars, waitVars
      <3> QED BY <2>1, <3>1, OtherEndSteps, OtherEndKeeps
    <2>3. ASSUME NEW p \in Conns, UserTypes(p) PROVE InStep'
      <3>1. UNCHANGED <<waitVars, tmp_fds, read_fds>>
        BY <2>3 DEF UserTypes, serverVars, setVars, waitVars
      <3>2. PICK m \in Commanded :
              \/ TypeSubscribe(p, m.topic, m.sf)
              \/ TypeUnsubscribe(p, m.topic)
              \/ TypeExit(p)
        BY <2>3 DEF UserTypes
      <3>3. m.topic \in Topics \cup {NoTopic} /\ m.sf \in {0, 1}
        BY BrokerAssumption DEF C2S
      <3>4. /\ Command(SUBSCRIBE, m.topic, m.sf) \in C2S
            /\ Command(UNSUBSCRIBE, m.topic, 0) \in C2S
            /\ Command(DISCONNECT, NoTopic, 0) \in C2S
        BY <3>3, HeaderType DEF SUBSCRIBE, UNSUBSCRIBE, DISCONNECT, TypeOK
      <3>5. \E d \in C2S, next \in Waiting : Type(p, d, next)
        BY <3>2, <3>4 DEF TypeSubscribe, TypeUnsubscribe, TypeExit, Waiting
      <3>6. UNCHANGED srvEnd
        BY <3>5 DEF Type
      <3> QED BY <2>1, <3>1, <3>5, <3>6, OtherEndSteps, OtherEndKeeps
    <2>4. ASSUME NEW p \in Conns, Kill(p) PROVE InStep'
      <3>1. Killed(p) /\ UNCHANGED <<waitVars, tmp_fds, read_fds, srvEnd>>
        BY <2>4 DEF Kill, Killed, serverVars, setVars, waitVars
      <3> QED BY <2>1, <3>1, OtherEndSteps, OtherEndKeeps
    <2>5. ASSUME UNCHANGED <<wireVars, waitVars, tmp_fds, read_fds>> PROVE InStep'
      <3>1. \A q \in Conns : OtherEnd(q)
        BY <2>5 DEF OtherEnd, wireVars
      <3>2. UNCHANGED srvEnd
        BY <2>5 DEF wireVars
      <3> QED BY <2>1, <2>5, <3>1, <3>2, OtherEndKeeps
    <2>6. ASSUME NEW topic \in Topics, Publish(topic) PROVE InStep'
      BY <2>5, <2>6 DEF Publish, setVars, waitVars
    <2>7. CASE PublishMalformed \/ TypeServerExit
      BY <2>5, <2>7 DEF PublishMalformed, TypeServerExit, setVars, waitVars
    <2> QED BY <1>3, <2>2, <2>3, <2>4, <2>6, <2>7 DEF Environment
  <1>4. CASE UNCHANGED vars
    BY <1>4 DEF vars, wireVars, serverVars, setVars, subVars, InStep, Conversing, InDialogue,
                Ends, Down, Up, Answer, Request, Joining, Acking, FilesMatch, PeersOpen, StaysReady
  <1> QED BY <1>1, <1>2, <1>3, <1>4 DEF Next

\* The system starts in step.
LEMMA InitInStep == Init => InStep
  <1> SUFFICES ASSUME Init PROVE InStep
    OBVIOUS
  <1>1. ASSUME NEW p \in Conns PROVE InDialogue(p)
    <2>1. /\ spc[p] = "off" /\ cliEnd[p] = "none" /\ srvEnd[p] = "none"
          /\ c2s[p] = << >> /\ s2c[p] = << >>
      BY DEF Init, WireInit, SubInit
    <2> QED BY <2>1 DEF InDialogue, Ends, Down, Up
  <1>2. FilesMatch
    BY ServerAssumption DEF Init, WireInit, ServerInit, FilesMatch, Ended
  <1>3. PeersOpen /\ StaysReady
    BY DEF Init, ServerInit, PeersOpen, StaysReady, AckWaits
  <1> QED BY <1>1, <1>2, <1>3 DEF InStep, Conversing

-----------------------------------------------------------------------------
\* The theorems.

\* The server and its subscribers are in step at every moment, for any number
\* of them and whatever the users, the publishers and the signals do.
THEOREM StaysInStep == Spec => []InStep
  <1>1. Init => InStep
    BY InitInStep
  <1>2. Bookkeeping /\ InStep /\ [Next]_vars => InStep'
    BY NextInStep DEF Orderly
  <1>3. Spec => []Bookkeeping
    BY BooksInOrder
  <1> QED BY <1>1, <1>2, <1>3, PTL DEF Spec

\* No acknowledgement is ever under way to a server that waits for something
\* else: the answer to one message is not taken for the answer to another.
THEOREM AcksAligned == Spec => []AckAligned
  <1>1. Bookkeeping /\ InStep => AckAligned
    <2> SUFFICES ASSUME InStep, NEW p \in Conns, NEW k \in 1..Len(c2s[p]),
                        c2s[p][k].type = ACK, srvEnd[p] = "open"
                 PROVE  pc \in AckWaits /\ file[clients[at].sock] = p
      BY DEF AckAligned
    <2>1. (k = 1 /\ Answer(p)) \/ Request(p, k)
      BY DEF InStep, Conversing, InDialogue, Up
    <2> QED BY <2>1 DEF Answer, Request, IsCommand, Acking, ACK, ID_REPLY, SUBSCRIBE, UNSUBSCRIBE,
                        DISCONNECT
  <1> QED BY <1>1, BooksInOrder, StaysInStep, PTL

\* A subscriber's main loop never finds two messages in one recv(), nor
\* anything but a publication or a refusal.
THEOREM OneAtATime == Spec => []StopAndWait
  <1>1. InStep => StopAndWait
    BY DEF InStep, Conversing, InDialogue, Down, IsPushed, StopAndWait
  <1> QED BY <1>1, StaysInStep, PTL

\* The recv() of a client's command never blocks the server.
THEOREM TurnsReady == Spec => []TurnNeverBlocks
  <1>1. Bookkeeping /\ InStep => TurnNeverBlocks
    <2> SUFFICES ASSUME Bookkeeping, InStep, pc = "loop", NEW i \in Pending \cap Fds
                 PROVE  file[i] # NoConn /\ ServerMayRecv(file[i])
      BY DEF TurnNeverBlocks
    <2>1. i \in tmp_fds \cap Fds /\ i \in read_fds
      BY DEF Pending, InStep, StaysReady
    <2>2. pc \notin {"bye", "bye_ack"} \cup Ended
      BY DEF Ended
    <2> QED BY <2>1, <2>2 DEF Bookkeeping, SocketsKnown, InStep, StaysReady, ServerMayRecv
  <1> QED BY <1>1, BooksInOrder, StaysInStep, PTL
=============================================================================
