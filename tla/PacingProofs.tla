---------------------------- MODULE PacingProofs ----------------------------
(***************************************************************************)
(* Proof that InPace of Pacing is inductive beside Bookkeeping, InStep and *)
(* InSequence: while users wait their turn and nobody is killed, at most   *)
(* one process waits for an answer at a time, nothing is under way beside  *)
(* it, and the server aborts for the three reasons AbortsExplained names.  *)
(***************************************************************************)
EXTENDS Pacing, OrderingProofs, FiniteSetTheorems

\* What holds while the server runs, and all that is assumed of a state.
AtPace == OneWaits /\ Attended /\ Farewell /\ Dismissed /\ Announced
Calm == Settled /\ Tame /\ Pace /\ Phantoms
Running == Calm /\ pc \notin Ended

\* Calm, taken apart.
LEMMA CalmParts ==
  ASSUME Running
  PROVE  /\ Settled /\ Orderly /\ Bookkeeping /\ InStep /\ InSequence
         /\ TypeOK /\ WireTypeOK /\ SubTypeOK /\ ServerTypeOK
         /\ Conversing /\ FilesMatch /\ PeersOpen
         /\ Paced /\ Killable = {} /\ AtPace /\ pc \notin Ended
         /\ pc \notin {"deliver", "await_ack"} => cur = 0
  BY DEF Running, Calm, Settled, Orderly, Bookkeeping, TypeOK, InStep, Tame, Pace, AtPace

-----------------------------------------------------------------------------
\* Who may be waiting, and who is still there.

\* A process the server has a connection to, or is about to accept, is there,
\* unless the server is about to read its answer to the farewell.
LEMMA OpenPeer ==
  ASSUME Running, NEW p \in Conns, srvEnd[p] \in {"backlog", "open"},
         pc = "bye_ack" => ~Acking(p)
  PROVE  /\ cliEnd[p] = "open" /\ InDialogue(p)
         /\ spc[p] \in {"loop"} \cup Waiting
         /\ srvEnd[p] = "backlog" => spc[p] = "await_request"
  <1>1. AtPace /\ TypeOK /\ InDialogue(p)
    BY CalmParts DEF Conversing
  <1>2. cliEnd[p] # "closed"
    BY <1>1 DEF AtPace, Attended
  <1>3. Ends(p)
    BY <1>1 DEF InDialogue
  <1>4. cliEnd[p] # "none" /\ spc[p] \notin {"off", "done", "died"}
    BY <1>2, <1>3 DEF Ends
  <1>5. /\ cliEnd[p] \in {"none", "open", "closed"}
        /\ spc[p] \in {"off", "loop", "done", "died"} \cup Waiting
    BY <1>1 DEF TypeOK, WireTypeOK, SubTypeOK
  <1> QED BY <1>1, <1>2, <1>3, <1>4, <1>5 DEF Ends

\* While the server is busy, has datagrams to read or is told to stop, no
\* process waits for anything else.
LEMMA NobodyWaits ==
  ASSUME Running, pc \notin {"loop", "await_id"} \/ udp # << >> \/ stdin, NEW q \in Conns
  PROVE  spc[q] \notin Waiting
  BY CalmParts DEF AtPace, OneWaits, Served, Joining

\* Nor when the identifier the server waits for is there.
LEMMA NobodyWaitsElse ==
  ASSUME Running, NEW p \in Conns, Answering(p), NEW q \in Conns
  PROVE  /\ spc[q] \notin Waiting
         /\ p = file[new_sockfd] /\ srvEnd[p] = "open" /\ cliEnd[p] = "open"
         /\ c2s[p] # << >> /\ Incoming(p).type = ID_REPLY /\ Incoming(p) = c2s[p][1]
  <1>1. /\ TypeOK /\ FilesMatch /\ pc = "await_id" /\ p = file[new_sockfd] /\ ServerMayRecv(p)
        /\ new_sockfd \in Fds /\ file[new_sockfd] # NoConn /\ AtPace
    BY CalmParts DEF Answering, Peer, Bookkeeping, Placed, Settling
  <1>2. srvEnd[p] = "open" /\ Joining(p)
    BY <1>1, OpenFile DEF Ended, Joining
  <1>3. cliEnd[p] = "open" /\ InDialogue(p) /\ spc[p] \in {"loop"} \cup Waiting
    BY <1>1, <1>2, OpenPeer
  <1>4. c2s[p] # << >> /\ c2s[p] \in Seq(C2S)
    BY <1>1, <1>3 DEF ServerMayRecv, TypeOK, WireTypeOK
  <1>5. 1 \in 1..Len(c2s[p]) /\ Incoming(p) = c2s[p][1]
    BY <1>4 DEF Incoming
  <1>6. spc[p] # "await_request"
    BY <1>2, <1>3, <1>4 DEF InDialogue, Up
  <1>7. spc[q] \notin Waiting
    <2> SUFFICES ASSUME spc[q] \in Waiting PROVE FALSE
      OBVIOUS
    <2>1. Served(q)
      BY <1>1 DEF AtPace, OneWaits
    <2>2. spc[q] = "await_request" /\ Joining(q)
      BY <1>1, <2>1 DEF Served
    <2> QED BY <1>1, <1>6, <2>2 DEF Joining
  <1>8. spc[p] = "loop"
    <2> SUFFICES ASSUME spc[p] \in Waiting PROVE FALSE
      BY <1>3
    <2>1. Served(p)
      BY <1>1 DEF AtPace, OneWaits
    <2> QED BY <1>1, <1>6, <2>1 DEF Served
  <1>9. ~Acking(p)
    BY <1>1 DEF Acking, AckWaits
  <1>10. Answer(p)
    BY <1>2, <1>3, <1>5, <1>8 DEF InDialogue, Up, Request
  <1> QED BY <1>1, <1>2, <1>3, <1>4, <1>5, <1>7, <1>9, <1>10 DEF Answer

\* A process in its main loop that the server has no business with: nothing is
\* under way in either direction.
LEMMA QuietLoop ==
  ASSUME Settled, NEW p \in Conns, spc[p] = "loop", srvEnd[p] = "open", ~Acking(p)
  PROVE  s2c[p] = << >> /\ (~Joining(p) => c2s[p] = << >>)
  <1>1. WireTypeOK /\ InDialogue(p)
    BY DEF Settled, Bookkeeping, TypeOK, InStep, Conversing
  <1>2. s2c[p] = << >>
    BY <1>1, LoopOwesAck
  <1>3. ASSUME ~Joining(p), c2s[p] # << >> PROVE FALSE
    <2>1. 1 \in 1..Len(c2s[p])
      BY <1>1, <1>3 DEF WireTypeOK
    <2>2. ~Answer(p)
      BY <1>3 DEF Answer
    <2> QED BY <1>1, <2>1, <2>2 DEF InDialogue, Up, Request
  <1> QED BY <1>2, <1>3

-----------------------------------------------------------------------------
\* A step by one of the processes, or its user.

\* A process that stops waiting leaves nobody waiting.
LEMMA LastWaiter ==
  ASSUME Running, NEW p \in Conns, spc[p] \in Waiting \/ pc \notin {"loop", "await_id"},
         spc'[p] \notin Waiting, \A q \in Conns : q # p => spc'[q] = spc[q]
  PROVE  OneWaits'
  <1>1. ASSUME NEW q \in Conns PROVE spc'[q] \notin Waiting
    <2>1. CASE spc[p] \in Waiting
      BY <1>1, <2>1, CalmParts DEF AtPace, OneWaits
    <2>2. CASE pc \notin {"loop", "await_id"}
      BY <1>1, <2>2, NobodyWaits
    <2> QED BY <2>1, <2>2
  <1> QED BY <1>1 DEF OneWaits

\* The farewell is under way to nobody it was not under way to.
RefusesLess ==
  \A q \in Conns : \A k \in 1..Len(s2c'[q]) : s2c'[q][k].type = REFUSED =>
    \E j \in 1..Len(s2c[q]) : s2c[q][j].type = REFUSED

\* Reading makes no refusal.
LEMMA RefusesLessRead ==
  ASSUME WireTypeOK, NEW p \in Conns, s2c' \in AfterClientRecv(p)
  PROVE  RefusesLess
  <1> SUFFICES ASSUME NEW q \in Conns, NEW k \in 1..Len(s2c'[q]), s2c'[q][k].type = REFUSED
               PROVE  \E j \in 1..Len(s2c[q]) : s2c[q][j].type = REFUSED
    BY DEF RefusesLess
  <1>1. CASE q # p
    BY <1>1, ClientReads
  <1>2. CASE q = p
    <2>1. PICK n \in 0..Len(s2c[p]) :
            /\ Len(s2c'[p]) = Len(s2c[p]) - n
            /\ \A i \in 1..Len(s2c'[p]) : s2c'[p][i] = s2c[p][i + n]
      BY ClientReads
    <2>2. s2c[p] \in Seq(S2C)
      BY DEF WireTypeOK
    <2>3. k + n \in 1..Len(s2c[p]) /\ s2c[p][k + n].type = REFUSED
      BY <1>2, <2>1, <2>2
    <2> QED BY <1>2, <2>3
  <1> QED BY <1>1, <1>2

\* A process that only reads leaves the two ends, and the server, as they are.
LEMMA ReadPace ==
  ASSUME Running, NEW p \in Conns, OneWaits', RefusesLess, UNCHANGED <<serverVars, cliEnd, srvEnd>>,
         \A q \in Conns : q # p => SameConnection(q),
         srvEnd[p] = "open", pc = "bye_ack" => ~Acking(p)
  PROVE  AtPace'
  <1>1. AtPace
    BY CalmParts
  <1>2. Attended'
    BY <1>1 DEF AtPace, Attended, Acking, serverVars
  <1>3. Farewell'
    <2>1. \A q \in Conns : Acking(q)' = Acking(q) /\ pc' = pc
      BY DEF Acking, serverVars
    <2>2. ASSUME NEW q \in Conns, NEW k \in 1..Len(s2c'[q]),
                 s2c'[q][k].type = REFUSED, srvEnd'[q] = "open"
          PROVE  pc' = "bye_ack"
      BY <1>1, <2>1, <2>2 DEF AtPace, Farewell, RefusesLess
    <2>3. ASSUME NEW q \in Conns, pc' = "bye_ack", Acking(q)'
          PROVE  \/ /\ spc'[q] = "loop" /\ c2s'[q] = << >>
                    /\ s2c'[q] # << >> /\ Head(s2c'[q]).type = REFUSED
                 \/ cliEnd'[q] = "closed" /\ c2s'[q] # << >> /\ Head(c2s'[q]).type = ACK
      <3>1. q # p
        BY <2>1, <2>3
      <3> QED BY <1>1, <2>1, <2>3, <3>1 DEF AtPace, Farewell, SameConnection
    <2> QED BY <2>2, <2>3 DEF Farewell
  <1>4. Dismissed'
    BY <1>1 DEF AtPace, Dismissed, SameConnection
  <1>5. Announced'
    BY <1>1 DEF AtPace, Announced, serverVars, setVars, inputVars
  <1> QED BY <1>2, <1>3, <1>4, <1>5 DEF AtPace

\* The identifier is sent to the server, which waits for it.
LEMMA SendIdPace ==
  ASSUME Running, NEW p \in Conns, SendId(p), UNCHANGED serverVars
  PROVE  AtPace'
  <1>1. TypeOK /\ FilesMatch /\ AtPace /\ InDialogue(p) /\ WireTypeOK
    BY CalmParts DEF Conversing
  <1>2. spc[p] \in Waiting /\ spc[p] = "await_request" /\ Served(p)
    BY <1>1 DEF SendId, Waiting, AtPace, OneWaits
  <1>3. Joining(p) /\ pc = "await_id"
    <2>1. srvEnd[p] = "backlog" => ~ClientMayRecv(p)
      BY <1>1 DEF InDialogue, Ends, ClientMayRecv
    <2> QED BY <1>2, <2>1 DEF Served, SendId, Joining
  <1>4. srvEnd[p] = "open"
    BY <1>1, <1>3, OpenFile, CalmParts DEF Joining, Bookkeeping, Placed, Settling
  <1>5. s2c' \in AfterClientRecv(p) /\ c2s' = ToServer(p, IdReply(IdOf[p]))
    BY DEF SendId
  <1>6. RefusesLess
    BY <1>1, <1>5, RefusesLessRead
  <1>7. \A q \in Conns : q # p => SameConnection(q)
    <2>1. IdReply(IdOf[p]) \in C2S
      BY <1>1, HeaderType, IdOfAssumption
    <2>2. \A q \in Conns : q # p => c2s'[q] = c2s[q] /\ s2c'[q] = s2c[q]
      BY <1>1, <1>5, <2>1, SubscriberSends, ClientReads
    <2> QED BY <2>2 DEF SendId, SameConnection
  <1>8. OneWaits'
    <2>1. spc'[p] \notin Waiting
      BY <1>1 DEF SendId, TypeOK, SubTypeOK, Waiting
    <2> QED BY <1>2, <1>7, <2>1, LastWaiter DEF SameConnection
  <1> QED BY <1>3, <1>4, <1>6, <1>7, <1>8, ReadPace DEF SendId

\* The prompt is back.
LEMMA AnsweredPace ==
  ASSUME Running, NEW p \in Conns, Answered(p), UNCHANGED serverVars
  PROVE  AtPace'
  <1>1. TypeOK /\ AtPace /\ WireTypeOK
    BY CalmParts
  <1>2. spc[p] \in Waiting /\ spc[p] = "await_response" /\ Served(p)
    BY <1>1 DEF Answered, Waiting, AtPace, OneWaits
  <1>3. srvEnd[p] = "open" /\ pc = "loop"
    BY <1>2 DEF Served
  <1>4. s2c[p] # << >> /\ s2c' = AfterClientRecvOne(p)
    BY <1>3 DEF Answered, ClientMayRecv
  <1>5. s2c' \in AfterClientRecv(p)
    <2>1. 1 \in 1..Len(s2c[p])
      BY <1>1, <1>4 DEF WireTypeOK
    <2>2. s2c' = [s2c EXCEPT ![p] = SubSeq(@, 1 + 1, Len(@))]
      BY <1>4 DEF AfterClientRecvOne
    <2> QED BY <1>4, <2>1, <2>2 DEF AfterClientRecv
  <1>6. RefusesLess
    BY <1>1, <1>5, RefusesLessRead
  <1>7. \A q \in Conns : q # p => SameConnection(q)
    BY <1>1, <1>5, ClientReads DEF Answered, SameConnection
  <1>8. OneWaits'
    <2>1. spc'[p] \notin Waiting
      BY <1>1 DEF Answered, TypeOK, SubTypeOK, Waiting
    <2> QED BY <1>2, <1>7, <2>1, LastWaiter DEF SameConnection
  <1> QED BY <1>3, <1>6, <1>7, <1>8, ReadPace DEF Answered

\* A process that leaves a connection the server no longer uses.
LEMMA QuitPace ==
  ASSUME Running, NEW p \in Conns, NEW how \in {"done", "died"}, Quit(p, how, s2c), OneWaits',
         UNCHANGED <<serverVars, srvEnd>>, srvEnd[p] = "closed",
         UNCHANGED c2s
  PROVE  AtPace'
  <1>1. TypeOK /\ FilesMatch /\ AtPace
    BY CalmParts
  <1>2. /\ spc'[p] = how /\ cliEnd'[p] = "closed" /\ s2c'[p] = << >>
        /\ \A q \in Conns : q # p => SameConnection(q)
    BY <1>1 DEF Quit, TypeOK, WireTypeOK, SubTypeOK, SameConnection
  <1>3. \A q \in Conns : Acking(q)' = Acking(q) /\ pc' = pc
    BY DEF Acking, serverVars
  <1>4. ~Acking(p)
    BY <1>1, AwaitedPeer, OpenFile, CalmParts DEF Acking, HerePeer, Here, Peer
  <1>5. Attended'
    BY <1>1, <1>2, <1>3 DEF AtPace, Attended, SameConnection
  <1>6. Farewell'
    <2>1. 1..Len(s2c'[p]) = {}
      BY <1>2
    <2> QED BY <1>1, <1>2, <1>3, <1>4, <2>1 DEF AtPace, Farewell, SameConnection
  <1>7. Dismissed'
    BY <1>1, <1>2 DEF AtPace, Dismissed, SameConnection
  <1>8. Announced'
    BY <1>1 DEF AtPace, Announced, serverVars, setVars, inputVars
  <1> QED BY <1>5, <1>6, <1>7, <1>8 DEF AtPace

\* The exit command has been answered, and the server has closed the socket.
LEMMA ExitAnsweredPace ==
  ASSUME Running, NEW p \in Conns, ExitAnswered(p), UNCHANGED serverVars
  PROVE  AtPace'
  <1>1. TypeOK /\ AtPace
    BY CalmParts
  <1>2. spc[p] \in Waiting /\ spc[p] = "await_exit" /\ Served(p)
    BY <1>1 DEF ExitAnswered, Waiting, AtPace, OneWaits
  <1>3. srvEnd[p] = "closed"
    <2>1. srvEnd[p] = "open" => s2c[p] # << >>
      BY DEF ExitAnswered, ClientMayRecv
    <2> QED BY <1>2, <2>1 DEF Served
  <1>4. OneWaits'
    <2>1. spc'[p] \notin Waiting /\ \A q \in Conns : q # p => spc'[q] = spc[q]
      BY <1>1 DEF ExitAnswered, Quit, TypeOK, SubTypeOK, Waiting
    <2> QED BY <1>2, <2>1, LastWaiter
  <1> QED BY <1>3, <1>4, QuitPace DEF ExitAnswered

\* No process gets another header than the one it waits for.
LEMMA RightHeader ==
  ASSUME Running, NEW p \in Conns, WrongHeader(p)
  PROVE  FALSE
  <1>1. WireTypeOK /\ AtPace /\ InDialogue(p)
    BY CalmParts DEF Conversing
  <1>2. spc[p] \in Waiting /\ ClientMayRecv(p) /\ Served(p)
    BY <1>1 DEF WrongHeader, AtPace, OneWaits
  <1>3. s2c[p] # << >> => Arrived(p) = s2c[p][1] /\ 1 \in 1..Len(s2c[p])
    BY <1>1 DEF WireTypeOK, Arrived
  <1>4. CASE spc[p] = "await_request"
    <2>1. srvEnd[p] = "backlog" => s2c[p] = << >>
      BY <1>1 DEF InDialogue, Ends
    <2>2. s2c[p] # << >>
      BY <1>2, <1>4, <2>1 DEF Served, ClientMayRecv
    <2>3. Arrived(p).type = ID_REQUEST
      BY <1>1, <1>3, <1>4, <2>2 DEF InDialogue, Down
    <2> QED BY <1>4, <2>3 DEF WrongHeader
  <1>5. CASE spc[p] # "await_request"
    <2>1. s2c[p] # << >> /\ Head(s2c[p]).type = RESPONSE
      BY <1>2, <1>5 DEF Served, ClientMayRecv
    <2> QED BY <1>5, <2>1 DEF WrongHeader, Arrived
  <1> QED BY <1>4, <1>5

\* A publication is printed and acknowledged: the server waits for that.
LEMMA ReceiveDataPace ==
  ASSUME Running, NEW p \in Conns, ReceiveData(p), UNCHANGED serverVars
  PROVE  AtPace'
  <1>1. TypeOK /\ WireTypeOK /\ AtPace /\ Settled
    BY CalmParts
  <1>2. 1 \in Carrying(p) /\ Head(s2c[p]).type = DATA /\ spc[p] = "loop"
    <2>1. s2c[p] \in Seq(S2C) /\ s2c[p] # << >> /\ spc[p] = "loop"
      BY <1>1 DEF ReceiveData, WireTypeOK
    <2>2. Arrived(p) = s2c[p][1] /\ 1 \in 1..Len(s2c[p]) /\ Arrived(p) = Head(s2c[p])
      BY <2>1 DEF Arrived
    <2> QED BY <2>1, <2>2 DEF ReceiveData, Carrying
  <1>3. pc \in AckWaits /\ srvEnd[p] = "open" /\ pc \notin Ended
    BY <1>1, <1>2, CarriedHere, CalmParts DEF Settled, InSequence, OneCarried
  <1>4. pc = "bye_ack" => ~Acking(p)
    <2>1. cliEnd[p] # "closed"
      BY <1>2, CalmParts DEF Conversing, InDialogue, Ends
    <2> QED BY <1>1, <1>2, <2>1 DEF AtPace, Farewell, DATA, REFUSED
  <1>5. RefusesLess /\ \A q \in Conns : q # p => SameConnection(q)
    <2>1. s2c' \in AfterClientRecv(p) /\ c2s' = ToServer(p, Command(ACK, NoTopic, 0))
      BY DEF ReceiveData
    <2>2. Command(ACK, NoTopic, 0) \in C2S
      BY <1>1, HeaderType DEF ACK
    <2>3. \A q \in Conns : q # p => c2s'[q] = c2s[q] /\ s2c'[q] = s2c[q]
      BY <1>1, <2>1, <2>2, SubscriberSends, ClientReads
    <2> QED BY <1>1, <2>1, <2>3, RefusesLessRead DEF ReceiveData, SameConnection
  <1>6. OneWaits'
    <2>1. pc \notin {"loop", "await_id"}
      BY <1>3 DEF AckWaits
    <2>2. \A q \in Conns : spc'[q] \notin Waiting
      BY <2>1, NobodyWaits DEF ReceiveData
    <2> QED BY <2>2 DEF OneWaits
  <1> QED BY <1>3, <1>4, <1>5, <1>6, ReadPace DEF ReceiveData

\* The farewell, or a refusal, is acknowledged, and the process leaves.
LEMMA ReceiveRefusedPace ==
  ASSUME Running, NEW p \in Conns, ReceiveRefused(p), UNCHANGED serverVars
  PROVE  AtPace'
  <1>1. TypeOK /\ WireTypeOK /\ SubTypeOK /\ AtPace /\ Settled /\ InDialogue(p)
    BY CalmParts DEF Conversing
  <1>2. /\ spc[p] = "loop" /\ s2c[p] # << >> /\ s2c[p] \in Seq(S2C)
        /\ Quit(p, "done", s2c) /\ c2s' = ToServer(p, Command(ACK, NoTopic, 0))
    BY <1>1 DEF ReceiveRefused, WireTypeOK
  <1>3. 1 \in 1..Len(s2c[p]) /\ s2c[p][1].type = REFUSED
    BY <1>2 DEF ReceiveRefused, Arrived
  <1>4. Command(ACK, NoTopic, 0) \in C2S
    BY <1>1, HeaderType DEF ACK
  <1>5. cliEnd[p] = "open"
    BY <1>1, <1>2 DEF InDialogue, Ends, WireTypeOK
  <1>6. \A q \in Conns : spc[q] \notin Waiting
    <2> SUFFICES ASSUME NEW q \in Conns, spc[q] \in Waiting PROVE FALSE
      OBVIOUS
    <2>1. q # p
      BY <1>2 DEF Waiting
    <2>2. Still(p)
      BY <1>1, <2>1 DEF AtPace, OneWaits
    <2> QED BY <1>2, <1>5, <2>2 DEF Still
  <1>7. /\ spc'[p] = "done" /\ cliEnd'[p] = "closed" /\ s2c'[p] = << >>
        /\ \A q \in Conns : q # p => SameConnection(q)
    <2>1. \A q \in Conns : q # p => c2s'[q] = c2s[q]
      BY <1>1, <1>2, <1>4, SubscriberSends
    <2> QED BY <1>1, <1>2, <2>1 DEF Quit, WireTypeOK, SubTypeOK, SameConnection, ReceiveRefused
  <1>8. OneWaits'
    BY <1>6, <1>7 DEF OneWaits, SameConnection, Waiting
  <1>9. \A q \in Conns : Acking(q)' = Acking(q) /\ pc' = pc
    BY DEF Acking, serverVars
  <1>10. Dismissed' /\ Announced'
    BY <1>1, <1>7 DEF AtPace, Dismissed, Announced, SameConnection, ReceiveRefused,
                      serverVars, setVars, inputVars
  <1>11. srvEnd[p] \in {"open", "closed"} /\ srvEnd' = srvEnd
    BY <1>1, <1>2 DEF InDialogue, Ends, WireTypeOK, ReceiveRefused
  <1>12. 1..Len(s2c'[p]) = {}
    BY <1>7
  <1>13. CASE srvEnd[p] = "open"
    <2>1. pc = "bye_ack" /\ Acking(p) /\ c2s[p] = << >>
      BY <1>1, <1>2, <1>3, <1>13, LoopOwesAck DEF AtPace, Farewell
    <2>2. Attended'
      BY <1>1, <1>7, <1>9, <1>11, <2>1 DEF AtPace, Attended, SameConnection
    <2>3. c2s'[p] # << >> /\ Head(c2s'[p]).type = ACK
      <3>1. c2s'[p] = Append(<< >>, Command(ACK, NoTopic, 0))
        BY <1>1, <1>2, <1>13, <2>1 DEF ToServer, WireTypeOK
      <3> QED BY <3>1 DEF Command
    <2>4. Farewell'
      BY <1>1, <1>7, <1>9, <1>11, <1>12, <2>1, <2>3 DEF AtPace, Farewell, SameConnection
    <2> QED BY <1>8, <1>10, <2>2, <2>4 DEF AtPace
  <1>14. CASE srvEnd[p] = "closed"
    <2>1. ~Acking(p)
      BY <1>1, <1>14, AwaitedPeer, OpenFile, CalmParts DEF Acking, HerePeer, Here, Peer
    <2>2. Attended' /\ Farewell'
      BY <1>1, <1>7, <1>9, <1>11, <1>12, <1>14, <2>1
         DEF AtPace, Attended, Farewell, SameConnection
    <2> QED BY <1>8, <1>10, <2>2 DEF AtPace
  <1> QED BY <1>11, <1>13, <1>14

\* No process finds the server gone while it runs.
LEMMA ServerThere ==
  ASSUME Running, NEW p \in Conns, ReceiveEnd(p)
  PROVE  FALSE
  BY CalmParts DEF AtPace, Dismissed, ReceiveEnd

\* What is shown while the server runs is no phantom, and a phantom shown
\* after it has ended is the last thing shown.
LEMMA NoPhantom ==
  ASSUME Calm, NEW p \in Conns, ProcessRuns(p)
  PROVE  Phantoms'
  <1>1. /\ TypeOK /\ SubTypeOK /\ WireTypeOK /\ Settled /\ Phantoms /\ UNCHANGED serverVars
        /\ Pace
    BY DEF Calm, Settled, Bookkeeping, TypeOK, ProcessRuns
  <1>2. CASE shown' = shown
    BY <1>1, <1>2 DEF Phantoms, serverVars
  <1>3. ASSUME NEW n \in Nat, shown' = Show(p, n), n = 0 => pc \in Ended,
               n # 0 => pc \notin Ended
        PROVE  Phantoms'
    <2> SUFFICES ASSUME NEW i \in Ids, NEW j \in 1..Len(shown'[i]), shown'[i][j] = 0
                 PROVE  j = Len(shown'[i]) /\ pc' \in Ended
      BY DEF Phantoms
    <2>1. /\ pc' = pc /\ shown[i] \in Seq(Nat) /\ IdOf[p] \in Ids
      BY <1>1, IdOfAssumption DEF serverVars, SubTypeOK
    <2>2. CASE shown' = shown
      BY <1>1, <2>1, <2>2 DEF Phantoms
    <2>3. CASE shown' # shown
      <3>1. /\ shown' = [shown EXCEPT ![IdOf[p]] = Append(@, n)]
            /\ ~(n = 0 /\ shown[IdOf[p]] # << >> /\ shown[IdOf[p]][Len(shown[IdOf[p]])] = 0)
        BY <1>3, <2>3 DEF Show
      <3>2. CASE i # IdOf[p]
        BY <1>1, <2>1, <3>1, <3>2 DEF Phantoms
      <3>3. CASE i = IdOf[p]
        <4>1. shown'[i] = Append(shown[i], n)
          BY <1>1, <3>1, <3>3 DEF SubTypeOK
        <4>2. PICK l \in Nat : l = Len(shown[i])
          BY <2>1
        <4>3. Len(shown'[i]) = l + 1 /\ j \in 1..(l + 1)
          BY <2>1, <4>1, <4>2
        <4>4. CASE j = l + 1
          <5>1. n = 0
            BY <2>1, <4>1, <4>2, <4>4
          <5> QED BY <1>3, <2>1, <4>3, <4>4, <5>1
        <4>5. CASE j # l + 1
          <5>1. j \in 1..l /\ shown'[i][j] = shown[i][j]
            BY <2>1, <4>1, <4>2, <4>3, <4>5
          <5>2. j = l /\ pc \in Ended
            BY <1>1, <4>2, <5>1 DEF Phantoms
          <5>3. n = 0
            BY <1>3, <5>2
          <5>4. shown[i] # << >>
            BY <4>2, <5>1, <5>2
          <5> QED BY <3>1, <3>3, <4>2, <5>1, <5>2, <5>3, <5>4
        <4> QED BY <4>4, <4>5
      <3> QED BY <3>2, <3>3
    <2> QED BY <2>2, <2>3
  <1>4. CASE ReceiveData(p)
    <2>1. s2c[p] \in Seq(S2C) /\ s2c[p] # << >>
      BY <1>1, <1>4 DEF ReceiveData, WireTypeOK
    <2>2. 1 \in Carrying(p) /\ Arrived(p) = s2c[p][1]
      BY <1>4, <2>1 DEF ReceiveData, Arrived, Carrying
    <2>3. Arrived(p).n \in 1..Taken /\ Taken \in Nat
      BY <1>1, <2>2, DueType DEF Settled, InSequence, CarriedNewer, TypeOK
    <2>4. pc \notin Ended
      BY <1>1, <2>2 DEF Pace
    <2>5. shown' = Show(p, Arrived(p).n) /\ Arrived(p).n \in Nat /\ Arrived(p).n # 0
      BY <1>4, <2>3 DEF ReceiveData
    <2> QED BY <1>3, <2>4, <2>5
  <1>5. CASE ReceiveEnd(p)
    <2>1. pc \in Ended
      BY <1>5, ServerThere DEF Running
    <2>2. shown' = shown \/ shown' = Show(p, 0)
      BY <1>5 DEF ReceiveEnd, ZeroS2C, Control
    <2> QED BY <1>2, <1>3, <2>1, <2>2
  <1> QED BY <1>2, <1>4, <1>5 DEF ProcessRuns, SubscriberStep, SendId, Answered, ExitAnswered,
                              WrongHeader, ReceiveRefused

\* Every step of a process.
LEMMA ProcessPace ==
  ASSUME Running, NEW p \in Conns, ProcessRuns(p)
  PROVE  AtPace' /\ Phantoms'
  <1>1. UNCHANGED serverVars /\ SubscriberStep(p)
    BY DEF ProcessRuns
  <1>2. AtPace'
    BY <1>1, SendIdPace, AnsweredPace, ExitAnsweredPace, RightHeader, ReceiveDataPace,
       ReceiveRefusedPace, ServerThere DEF SubscriberStep
  <1> QED BY <1>2, NoPhantom DEF Running

-----------------------------------------------------------------------------
\* The environment.

\* At rest, every connection that is left is still.
LEMMA AllStill ==
  ASSUME AtRest, NEW q \in Conns
  PROVE  Still(q) /\ spc[q] \notin Waiting
  BY DEF AtRest, Still

\* A connection on which nothing has happened is still if it was.
LEMMA StillThen ==
  ASSUME NEW q \in Conns, Still(q), srvEnd'[q] = srvEnd[q], cliEnd'[q] = cliEnd[q],
         c2s'[q] = c2s[q], s2c'[q] = s2c[q]
  PROVE  Still(q)'
  BY DEF Still

\* A user starts a process: it waits in the backlog.
LEMMA ConnectsPace ==
  ASSUME Running, NEW p \in Conns, UserConnects(p)
  PROVE  AtPace'
  <1>1. /\ TypeOK /\ WireTypeOK /\ SubTypeOK /\ AtPace /\ InDialogue(p)
        /\ AtRest /\ Connect(p) /\ UNCHANGED serverVars
    BY CalmParts DEF Conversing, UserConnects
  <1>2. /\ spc[p] = "off" /\ srvEnd[p] = "none" /\ cliEnd[p] = "none"
        /\ c2s[p] = << >> /\ s2c[p] = << >>
    BY <1>1 DEF Connect, InDialogue, Ends
  <1>3. /\ spc'[p] = "await_request" /\ cliEnd'[p] = "open" /\ srvEnd'[p] = "backlog"
        /\ c2s'[p] = << >> /\ s2c'[p] = << >>
        /\ \A q \in Conns : q # p => SameConnection(q)
    BY <1>1, <1>2 DEF Connect, WireTypeOK, SubTypeOK, SameConnection
  <1>4. pc = "loop" /\ pc' = "loop" /\ ~stdin' /\ udp' = << >>
    BY <1>1 DEF AtRest, serverVars, inputVars
  <1>5. OneWaits'
    <2>1. ASSUME NEW q \in Conns, q # p PROVE spc'[q] \notin Waiting /\ Still(q)'
      <3>1. SameConnection(q) /\ Still(q) /\ spc[q] \notin Waiting
        BY <1>1, <1>3, <2>1, AllStill
      <3> QED BY <3>1, StillThen DEF SameConnection
    <2>2. Served(p)'
      BY <1>3, <1>4 DEF Served
    <2> QED BY <1>4, <2>1, <2>2 DEF OneWaits
  <1>6. Attended'
    BY <1>1, <1>3, <1>4 DEF AtPace, Attended, SameConnection
  <1>7. 1..Len(s2c'[p]) = {}
    BY <1>3
  <1>8. Farewell' /\ Dismissed'
    BY <1>1, <1>3, <1>4, <1>7 DEF AtPace, Farewell, Dismissed, SameConnection
  <1>9. Announced'
    BY <1>1, <1>2, <1>3 DEF AtPace, Announced, SameConnection, serverVars, setVars, inputVars
  <1> QED BY <1>5, <1>6, <1>7, <1>8, <1>9 DEF AtPace

\* A user types a command: it is there when the server comes to its loop.
LEMMA TypesPace ==
  ASSUME Running, NEW p \in Conns, AtRest, UNCHANGED serverVars,
         NEW m \in C2S, NEW next \in {"await_response", "await_exit"}, Type(p, m, next),
         m.type = DISCONNECT <=> next = "await_exit"
  PROVE  AtPace'
  <1>1. /\ TypeOK /\ WireTypeOK /\ SubTypeOK /\ AtPace /\ InDialogue(p)
    BY CalmParts DEF Conversing
  <1>2. spc[p] = "loop" /\ cliEnd[p] = "open" /\ srvEnd[p] # "none"
    BY <1>1 DEF Type, InDialogue, Ends, WireTypeOK
  <1>3. c2s[p] = << >> /\ s2c[p] = << >> /\ srvEnd[p] # "backlog"
    BY <1>2 DEF AtRest
  <1>4. srvEnd[p] = "open"
    BY <1>1, <1>2, <1>3 DEF AtPace, Dismissed, WireTypeOK
  <1>5. c2s' = [c2s EXCEPT ![p] = Append(@, m)]
    BY <1>4 DEF Type, ToServer
  <1>6. c2s'[p] = Append(<< >>, m)
    BY <1>1, <1>3, <1>5 DEF WireTypeOK
  <1>7. c2s'[p] # << >> /\ Head(c2s'[p]) = m
    BY <1>6
  <1>8. /\ spc'[p] = next /\ cliEnd'[p] = "open" /\ srvEnd'[p] = "open" /\ s2c'[p] = << >>
        /\ \A q \in Conns : q # p => SameConnection(q)
    BY <1>1, <1>2, <1>3, <1>4, <1>5 DEF Type, WireTypeOK, SubTypeOK, SameConnection
  <1>9. pc = "loop" /\ pc' = "loop" /\ ~stdin' /\ udp' = << >>
    BY DEF AtRest, serverVars, inputVars
  <1>10. OneWaits'
    <2>1. ASSUME NEW q \in Conns, q # p PROVE spc'[q] \notin Waiting /\ Still(q)'
      <3>1. SameConnection(q) /\ Still(q) /\ spc[q] \notin Waiting
        BY <1>8, <2>1, AllStill
      <3> QED BY <3>1, StillThen DEF SameConnection
    <2>2. Served(p)'
      BY <1>7, <1>8, <1>9 DEF Served
    <2> QED BY <1>9, <2>1, <2>2 DEF OneWaits
  <1>11. Attended'
    BY <1>1, <1>8, <1>9 DEF AtPace, Attended, SameConnection
  <1>12. 1..Len(s2c'[p]) = {}
    BY <1>8
  <1>13. Farewell' /\ Dismissed'
    BY <1>1, <1>8, <1>9, <1>12 DEF AtPace, Farewell, Dismissed, SameConnection
  <1>14. Announced'
    BY <1>1 DEF AtPace, Announced, Type, serverVars, setVars, inputVars
  <1> QED BY <1>10, <1>11, <1>13, <1>14 DEF AtPace

\* What no process has a part in: a datagram, or the server told to stop.
LEMMA OutsidePace ==
  ASSUME Running, UNCHANGED <<wireVars, subVars, pc, clients, file, setVars, new_sockfd, at>>,
         stdin => stdin', \A q \in Conns : spc[q] \notin Waiting
  PROVE  AtPace'
  <1>1. AtPace /\ \A q \in Conns : SameConnection(q) /\ Acking(q)' = Acking(q)
    BY CalmParts DEF wireVars, subVars, SameConnection, Acking
  <1>2. OneWaits'
    BY DEF OneWaits, subVars
  <1>3. Attended' /\ Farewell' /\ Dismissed'
    BY <1>1 DEF AtPace, Attended, Farewell, Dismissed, SameConnection
  <1>4. Announced'
    BY <1>1 DEF AtPace, Announced, wireVars, setVars
  <1> QED BY <1>2, <1>3, <1>4 DEF AtPace

\* Every step of the environment.
LEMMA EnvironmentPace ==
  ASSUME Running, Environment
  PROVE  AtPace' /\ pc' = pc /\ cur' = cur /\ shown' = shown
  <1>1. Paced /\ Killable = {} /\ pc \notin Ended
    BY CalmParts
  <1>2. ASSUME NEW p \in Conns, UserConnects(p)
        PROVE  AtPace' /\ pc' = pc /\ cur' = cur /\ shown' = shown
    BY <1>2, ConnectsPace DEF UserConnects, Connect, serverVars
  <1>3. ASSUME NEW p \in Conns, UserTypes(p)
        PROVE  AtPace' /\ pc' = pc /\ cur' = cur /\ shown' = shown
    <2>1. AtRest /\ UNCHANGED serverVars
      BY <1>1, <1>3 DEF UserTypes
    <2>2. PICK m \in C2S, next \in {"await_response", "await_exit"} :
            Type(p, m, next) /\ (m.type = DISCONNECT <=> next = "await_exit")
      <3>1. PICK m \in Commanded :
              \/ m.type = SUBSCRIBE /\ TypeSubscribe(p, m.topic, m.sf)
              \/ m.type = UNSUBSCRIBE /\ TypeUnsubscribe(p, m.topic)
              \/ m.type = DISCONNECT /\ TypeExit(p)
        BY <1>3 DEF UserTypes
      <3>2. m.topic \in Topics \cup {NoTopic} /\ m.sf \in {0, 1}
        BY BrokerAssumption DEF C2S
      <3>3. /\ Command(SUBSCRIBE, m.topic, m.sf) \in C2S
            /\ Command(UNSUBSCRIBE, m.topic, 0) \in C2S
            /\ Command(DISCONNECT, NoTopic, 0) \in C2S
        BY <3>2, HeaderType, CalmParts DEF SUBSCRIBE, UNSUBSCRIBE, DISCONNECT
      <3> DEFINE IsExit(c) == c.type = DISCONNECT
      <3>4. /\ ~IsExit(Command(SUBSCRIBE, m.topic, m.sf))
            /\ ~IsExit(Command(UNSUBSCRIBE, m.topic, 0))
            /\ IsExit(Command(DISCONNECT, NoTopic, 0))
        BY DEF Command, SUBSCRIBE, UNSUBSCRIBE, DISCONNECT
      <3>5. CASE TypeSubscribe(p, m.topic, m.sf)
        BY <3>3, <3>4, <3>5 DEF TypeSubscribe
      <3>6. CASE TypeUnsubscribe(p, m.topic)
        BY <3>3, <3>4, <3>6 DEF TypeUnsubscribe
      <3>7. CASE TypeExit(p)
        BY <3>3, <3>4, <3>7 DEF TypeExit
      <3> QED BY <3>1, <3>5, <3>6, <3>7
    <2> QED BY <2>1, <2>2, TypesPace DEF Type, serverVars
  <1>4. ASSUME NEW topic \in Topics, Publish(topic)
        PROVE  AtPace' /\ pc' = pc /\ cur' = cur /\ shown' = shown
    BY <1>1, <1>4, OutsidePace DEF Publish, subVars
  <1>5. CASE PublishMalformed
    BY <1>1, <1>5, OutsidePace DEF PublishMalformed, subVars
  <1>6. CASE TypeServerExit
    BY <1>1, <1>6, AllStill, OutsidePace DEF TypeServerExit, subVars
  <1> QED BY <1>1, <1>2, <1>3, <1>4, <1>5, <1>6 DEF Environment, Kill

-----------------------------------------------------------------------------
\* A step of the server.  The subscribers' ends are not its to change.

\* What a step of the server may do to a connection without disturbing the
\* pace: use it, close it or accept it.
Serves(q) ==
  \/ /\ srvEnd'[q] = srvEnd[q]
     /\ srvEnd[q] = "closed" => s2c'[q] = s2c[q]
     /\ \A k \in 1..Len(s2c'[q]) : s2c'[q][k].type = REFUSED =>
          \E j \in 1..Len(s2c[q]) : s2c[q][j].type = REFUSED
  \/ /\ srvEnd'[q] = "closed"
     /\ spc[q] = "loop" => s2c'[q] # << >> /\ Head(s2c'[q]).type = REFUSED
  \/ /\ srvEnd[q] = "backlog" /\ srvEnd'[q] = "open"
     /\ \A k \in 1..Len(s2c'[q]) : s2c'[q][k].type # REFUSED

\* A step of the server that serves every connection in this sense keeps the
\* pace, outside the farewell.
LEMMA ServerPace ==
  ASSUME Running, OneWaits', Announced', UNCHANGED <<subVars, cliEnd>>,
         pc # "bye_ack", pc' # "bye_ack", \A q \in Conns : Serves(q)
  PROVE  AtPace'
  <1>1. AtPace /\ UNCHANGED spc
    BY CalmParts DEF subVars
  <1>2. Attended'
    BY <1>1 DEF AtPace, Attended, Serves
  <1>3. Farewell'
    BY <1>1 DEF AtPace, Farewell, Serves
  <1>4. Dismissed'
    BY <1>1 DEF AtPace, Dismissed, Serves
  <1> QED BY <1>2, <1>3, <1>4 DEF AtPace

\* A connection it only reads from, or sends something else than a refusal on.
LEMMA ServesSent ==
  ASSUME WireTypeOK, UNCHANGED srvEnd, NEW p \in Conns, srvEnd[p] = "open",
         NEW m \in S2C, m.type # REFUSED, s2c' = ToClient(p, m), NEW q \in Conns
  PROVE  Serves(q)
  <1>1. CASE q # p \/ cliEnd[p] = "closed"
    <2>1. s2c'[q] = s2c[q]
      BY <1>1, ServerSends
    <2> QED BY <2>1 DEF Serves
  <1>2. CASE q = p /\ cliEnd[p] # "closed"
    <2>1. s2c[p] \in Seq(S2C) /\ s2c'[p] = Append(s2c[p], m)
      BY <1>2 DEF ToClient, WireTypeOK
    <2>2. PICK l \in Nat : l = Len(s2c[p])
      BY <2>1
    <2>3. \A k \in 1..Len(s2c'[p]) :
            \/ k \in 1..Len(s2c[p]) /\ s2c'[p][k] = s2c[p][k]
            \/ s2c'[p][k] = m
      BY <2>1, <2>2
    <2> QED BY <1>2, <2>3 DEF Serves
  <1> QED BY <1>1, <1>2

\* A step that leaves a connection alone serves it.
LEMMA ServesStill ==
  ASSUME UNCHANGED <<srvEnd, s2c>>, NEW q \in Conns
  PROVE  Serves(q)
  BY DEF Serves

\* A step that takes nobody off the backlog.
LEMMA AnnouncedStill ==
  ASSUME Running, tmp_fds' \subseteq tmp_fds, stdin' = stdin,
         \A p \in Conns : srvEnd[p] = "backlog" => srvEnd'[p] = "backlog",
         pc' \in {"bye", "bye_ack"} => pc \in {"bye", "bye_ack"} \/ STDIN \in tmp_fds,
         \A k \in 1..Len(clients') : clients'[k].sock = -1 => ~clients'[k].online
  PROVE  Announced'
  <1>1. Announced
    BY CalmParts DEF AtPace
  <1> QED BY <1>1 DEF Announced

\* The clients as they were, whatever their lists and queues.
LEMMA SameAway ==
  ASSUME Running, SameClients(clients')
  PROVE  \A k \in 1..Len(clients') : clients'[k].sock = -1 => ~clients'[k].online
  BY CalmParts DEF SameClients, AtPace, Announced

\* The steps by which the server goes on with its own work: nobody waits.
LEMMA BusyPace ==
  ASSUME Running, UNCHANGED subVars,
         \/ SendQueued \/ QueueEmptied \/ AckQueued \/ ReceiveDatagram \/ Skip \/ Enqueue
         \/ Forward \/ AckForward \/ Forwarded \/ ReceiveExit
  PROVE  AtPace' /\ pc' \notin Ended /\ (pc' \notin {"deliver", "await_ack"} => cur' = 0)
  <1>1. Settled /\ WireTypeOK /\ ServerTypeOK /\ AtPace /\ Bookkeeping /\ SocketsKnown
    BY CalmParts DEF Bookkeeping
  <1>2. \A q \in Conns : spc[q] \notin Waiting
    <2>1. ReceiveExit => stdin
      BY <1>1 DEF ReceiveExit, Turn, Pending, AtPace, Announced
    <2>2. pc \notin {"loop", "await_id"} \/ udp # << >> \/ stdin
      BY <2>1 DEF SendQueued, QueueEmptied, AckQueued, ReceiveDatagram, Skip, Enqueue,
                  Forward, AckForward, Forwarded, Visiting, ToSend, ToStore
    <2> QED BY <2>2, NobodyWaits
  <1>3. OneWaits'
    BY <1>2 DEF OneWaits, subVars
  <1>4. /\ UNCHANGED <<cliEnd, srvEnd, stdin>> /\ tmp_fds' \subseteq tmp_fds
        /\ pc # "bye_ack" /\ pc' # "bye_ack" /\ pc' \notin Ended
        /\ pc' = "bye" => STDIN \in tmp_fds
    BY DEF SendQueued, QueueEmptied, AckQueued, ReceiveDatagram, Skip, Enqueue, Forward,
           AckForward, Forwarded, ReceiveExit, Register, Visiting, ToSend, ToStore, Turn, Pending,
           wireVars, setVars, inputVars, Ended
  <1>5. pc' \notin {"deliver", "await_ack"} => cur' = 0
    <2>1. pc \notin {"deliver", "await_ack"} => cur = 0
      BY CalmParts
    <2>2. \/ cur' = cur /\ pc \notin {"deliver", "await_ack"}
          \/ cur' = 0 \/ pc' \in {"deliver", "await_ack"}
      BY DEF SendQueued, QueueEmptied, AckQueued, ReceiveDatagram, Skip, Enqueue,
             Forward, AckForward, Forwarded, ReceiveExit, Turn, Visiting, ToSend, ToStore
    <2> QED BY <2>1, <2>2
  <1>6. SameClients(clients')
    <2>1. CASE SendQueued
      <3>1. at \in 1..Len(clients) /\ clients[at].queue \in Seq(Nat) /\ clients[at].queue # << >>
        BY <1>1, <2>1, QueueType DEF SendQueued, Here, Bookkeeping, Placed
      <3>2. Tail(clients[at].queue) \in Seq(Nat)
        BY <3>1
      <3>3. clients' = [clients EXCEPT ![at].queue = Tail(clients[at].queue)]
        BY <2>1 DEF SendQueued
      <3> QED BY <1>1, <3>1, <3>2, <3>3, SameType
    <2>2. CASE Enqueue
      <3>1. at \in 1..Len(clients) /\ clients[at].queue \in Seq(Nat) /\ cur \in Nat
        BY <1>1, <2>2, QueueType DEF Enqueue, ToStore, Visiting, Bookkeeping, Placed, ServerTypeOK
      <3>2. Append(clients[at].queue, cur) \in Seq(Nat)
        BY <3>1
      <3>3. clients' = [clients EXCEPT ![at].queue = Append(clients[at].queue, cur)]
        BY <2>2 DEF Enqueue
      <3> QED BY <1>1, <3>1, <3>2, <3>3, SameType
    <2>3. CASE UNCHANGED clients
      BY <2>3 DEF SameClients
    <2> QED BY <2>1, <2>2, <2>3 DEF QueueEmptied, AckQueued, ReceiveDatagram, Skip, Forward,
                                    AckForward, Forwarded, ReceiveExit
  <1>7. Announced'
    <2>1. \A p \in Conns : srvEnd[p] = "backlog" => srvEnd'[p] = "backlog"
      BY <1>4
    <2> QED BY <1>4, <1>6, <2>1, SameAway, AnnouncedStill
  <1>8. ASSUME NEW q \in Conns PROVE Serves(q)
    <2>1. CASE UNCHANGED s2c
      BY <1>4, <2>1, ServesStill
    <2>2. CASE SendQueued
      <3>1. at \in 1..Len(clients) /\ clients[at].queue \in Seq(Nat) /\ clients[at].queue # << >>
        BY <1>1, <2>2, QueueType DEF SendQueued, Here, Bookkeeping, Placed
      <3>2. Head(clients[at].queue) \in Nat
        BY <3>1
      <3>3. Publication(Head(clients[at].queue)) \in S2C
        BY <1>1, <3>2, HeaderType
      <3>4. HerePeer \in Conns /\ srvEnd[HerePeer] = "open"
        <4>1. file[new_sockfd] # NoConn /\ new_sockfd \in Fds /\ clients[at].sock = new_sockfd
          BY <1>1, <2>2 DEF SendQueued, Bookkeeping, Placed, Settling
        <4> QED BY <4>1, OpenFile, CalmParts DEF HerePeer, Here, Peer
      <3>5. Publication(Head(clients[at].queue)).type # REFUSED
        BY DEF Publication, DATA, REFUSED
      <3> QED BY <1>1, <1>4, <2>2, <3>3, <3>4, <3>5, ServesSent DEF SendQueued, Here
    <2>3. CASE Forward
      <3>1. Publication(cur) \in S2C
        BY <1>1, HeaderType DEF ServerTypeOK
      <3>2. HerePeer \in Conns /\ srvEnd[HerePeer] = "open"
        <4>1. at \in 1..Len(clients) /\ Here.online /\ pc = "deliver"
          BY <1>1, <2>3 DEF Forward, ToSend, Visiting, Bookkeeping, Placed, ServerTypeOK
        <4> QED BY <1>1, <4>1, ClientHere
      <3>3. Publication(cur).type # REFUSED
        BY DEF Publication, DATA, REFUSED
      <3> QED BY <1>1, <1>4, <2>3, <3>1, <3>2, <3>3, ServesSent DEF Forward
    <2> QED BY <2>1, <2>2, <2>3 DEF QueueEmptied, AckQueued, ReceiveDatagram, Skip, Enqueue,
                                    AckForward, Forwarded, ReceiveExit, wireVars
  <1>9. AtPace'
    BY <1>3, <1>4, <1>7, <1>8, ServerPace
  <1> QED BY <1>4, <1>5, <1>9

\* select() finds what is there.
LEMMA SelectPace ==
  ASSUME Running, UNCHANGED subVars, Select
  PROVE  AtPace'
  <1>1. AtPace /\ UNCHANGED <<wireVars, subVars, pc, clients, file, new_sockfd, at, stdin, udp>>
    BY CalmParts DEF Select, inputVars
  <1>2. OneWaits' /\ Attended' /\ Farewell' /\ Dismissed'
    BY <1>1 DEF AtPace, OneWaits, Served, Still, Joining, Attended, Acking, Farewell, Dismissed,
                wireVars, subVars
  <1>3. Announced'
    <2>1. /\ TCP \in tmp_fds' => \E p \in Conns : srvEnd[p] = "backlog"
          /\ STDIN \in tmp_fds' => stdin
      BY DEF Select, ReadySet, HasInput, TCP, STDIN, UDP, Fds, FirstFd
    <2> QED BY <1>1, <2>1 DEF AtPace, Announced, Select, wireVars
  <1> QED BY <1>2, <1>3 DEF AtPace

\* The process that waits in the backlog is asked for its identifier.
LEMMA AcceptPace ==
  ASSUME Running, UNCHANGED subVars, NEW p \in Conns, AcceptConnection(p)
  PROVE  AtPace'
  <1>1. AtPace /\ WireTypeOK /\ ServerTypeOK /\ InDialogue(p)
    BY CalmParts DEF Conversing
  <1>2. /\ pc = "loop" /\ pc' = "await_id" /\ srvEnd[p] = "backlog"
        /\ file'[new_sockfd'] = p
        /\ srvEnd'[p] = "open" /\ \A q \in Conns : q # p => srvEnd'[q] = srvEnd[q]
    BY <1>1 DEF AcceptConnection, Turn, IsLowestFree, WireTypeOK, ServerTypeOK
  <1>3. spc[p] = "await_request" /\ cliEnd[p] = "open" /\ s2c[p] = << >>
    BY <1>1, <1>2, OpenPeer DEF InDialogue, Ends
  <1>4. s2c' = [s2c EXCEPT ![p] = Append(@, Control(ID_REQUEST))]
    BY <1>3 DEF AcceptConnection, Send, ToClient
  <1>5. s2c'[p] = <<Control(ID_REQUEST)>> /\ \A q \in Conns : q # p => s2c'[q] = s2c[q]
    BY <1>1, <1>3, <1>4 DEF WireTypeOK
  <1>6. OneWaits'
    <2>1. spc[p] \in Waiting
      BY <1>3 DEF Waiting
    <2>2. udp = << >> /\ ~stdin /\ \A q \in Conns : q # p => spc[q] \notin Waiting /\ Still(q)
      BY <1>1, <2>1 DEF AtPace, OneWaits
    <2>3. \A q \in Conns : q # p => Still(q)'
      BY <1>2, <1>5, <2>2, StillThen DEF AcceptConnection
    <2>4. Served(p)'
      BY <1>2, <1>3, <1>5 DEF Served, Joining, subVars
    <2> QED BY <2>2, <2>3, <2>4 DEF OneWaits, AcceptConnection, subVars, inputVars
  <1>7. Announced'
    BY <1>1, <1>2 DEF AtPace, Announced, AcceptConnection, inputVars
  <1>8. ASSUME NEW q \in Conns PROVE Serves(q)
    <2>1. CASE q = p
      <3>1. Len(s2c'[p]) = 1 /\ s2c'[p][1].type # REFUSED
        BY <1>5 DEF Control, ID_REQUEST, REFUSED
      <3>2. \A k \in 1..Len(s2c'[p]) : s2c'[p][k].type # REFUSED
        BY <3>1
      <3> QED BY <1>2, <2>1, <3>2 DEF Serves
    <2>2. CASE q # p
      BY <1>2, <1>5, <2>2 DEF Serves
    <2> QED BY <2>1, <2>2
  <1> QED BY <1>2, <1>6, <1>7, <1>8, ServerPace DEF AcceptConnection

\* The identifier is new, taken, or that of a client who is back.
LEMMA IdentifyPace ==
  ASSUME Running, UNCHANGED subVars, NEW p \in Conns,
         NewClient(p) \/ RefuseClient(p) \/ ReturnClient(p)
  PROVE  AtPace'
  <1>1. AtPace /\ TypeOK /\ WireTypeOK /\ ServerTypeOK /\ InDialogue(p) /\ Settled
        /\ FilesMatch
    BY CalmParts DEF Conversing
  <1>2. Answering(p) /\ pc = "await_id" /\ pc' \in {"loop", "drain"}
    BY DEF NewClient, RefuseClient, ReturnClient, Register, Identified, Answering
  <1>3. /\ \A q \in Conns : spc[q] \notin Waiting
        /\ p = file[new_sockfd] /\ srvEnd[p] = "open" /\ cliEnd[p] = "open"
        /\ new_sockfd \in Fds
    <2>1. new_sockfd \in Fds
      BY <1>2, CalmParts DEF Bookkeeping, Placed
    <2> QED BY <1>2, <2>1, NobodyWaitsElse
  <1>4. OneWaits'
    BY <1>3 DEF OneWaits, subVars
  <1>5. CASE NewClient(p) \/ ReturnClient(p)
    <2>1. UNCHANGED <<s2c, cliEnd, srvEnd, tmp_fds, stdin>>
      BY <1>5 DEF NewClient, ReturnClient, setVars, inputVars
    <2>2. \A k \in 1..Len(clients') : clients'[k].sock = -1 => ~clients'[k].online
      <3> SUFFICES ASSUME NEW k \in 1..Len(clients'), clients'[k].sock = -1
                   PROVE  ~clients'[k].online
        OBVIOUS
      <3>0. /\ new_sockfd # -1 /\ clients \in Seq(Client)
            /\ \A j \in 1..Len(clients) : clients[j].sock = -1 => ~clients[j].online
        BY <1>1, <1>3 DEF Fds, FirstFd, ServerTypeOK, AtPace, Announced
      <3>1. CASE NewClient(p)
        <4>1. PICK c : /\ clients' = Append(clients, c) /\ c.sock = new_sockfd
          BY <3>1 DEF NewClient
        <4>2. PICK l \in Nat : l = Len(clients)
          BY <3>0
        <4>3. k \in 1..(l + 1) /\ (k <= l => clients'[k] = clients[k]) /\ (k = l + 1 => clients'[k] = c)
          BY <3>0, <4>1, <4>2
        <4> QED BY <3>0, <4>1, <4>2, <4>3
      <3>2. CASE ReturnClient(p)
        <4>1. PICK j \in 1..Len(clients) :
                clients' = [clients EXCEPT ![j].sock = new_sockfd, ![j].online = TRUE]
          BY <3>2 DEF ReturnClient
        <4>2. Len(clients') = Len(clients) /\ clients[k] \in Client
          BY <1>1, <1>3, <3>0, <4>1, ClientType
        <4>3. IF k = j THEN clients'[k].sock = new_sockfd ELSE clients'[k] = clients[k]
          BY <3>0, <4>1, <4>2 DEF Client
        <4> QED BY <3>0, <4>2, <4>3
      <3> QED BY <1>5, <3>1, <3>2
    <2>3. \A q \in Conns : Serves(q)
      BY <2>1, ServesStill
    <2>4. Announced'
      BY <1>2, <2>1, <2>2, AnnouncedStill
    <2> QED BY <1>2, <1>4, <2>1, <2>3, <2>4, ServerPace
  <1>6. CASE RefuseClient(p)
    <2>1. /\ s2c' = [s2c EXCEPT ![p] = Append(@, Control(REFUSED))]
          /\ srvEnd' = [srvEnd EXCEPT ![p] = "closed"]
          /\ UNCHANGED <<cliEnd, tmp_fds, stdin, clients>>
      BY <1>3, <1>6 DEF RefuseClient, Send, ToClient, CloseFd, Peer, setVars, inputVars
    <2>2. Announced'
      <3>1. \A q \in Conns : srvEnd[q] = "backlog" => srvEnd'[q] = "backlog"
        BY <1>1, <1>3, <2>1 DEF WireTypeOK
      <3>2. SameClients(clients')
        BY <2>1 DEF SameClients
      <3> QED BY <1>2, <2>1, <3>1, <3>2, SameAway, AnnouncedStill
    <2>3. spc[p] = "loop" => s2c'[p] # << >> /\ Head(s2c'[p]).type = REFUSED
      <3> SUFFICES ASSUME spc[p] = "loop" PROVE s2c'[p] # << >> /\ Head(s2c'[p]).type = REFUSED
        OBVIOUS
      <3>1. ~Acking(p)
        BY <1>2 DEF Acking, AckWaits
      <3>2. s2c[p] = << >>
        BY <1>1, <1>3, <3>1, QuietLoop
      <3>3. s2c'[p] = <<Control(REFUSED)>>
        BY <1>1, <2>1, <3>2 DEF WireTypeOK
      <3> QED BY <3>3 DEF Control
    <2>4. ASSUME NEW q \in Conns PROVE Serves(q)
      <3>1. CASE q = p
        BY <1>1, <2>1, <2>3, <3>1 DEF Serves, WireTypeOK
      <3>2. CASE q # p
        BY <1>1, <2>1, <3>2 DEF Serves, WireTypeOK
      <3> QED BY <3>1, <3>2
    <2> QED BY <1>2, <1>4, <2>1, <2>2, <2>4, ServerPace
  <1> QED BY <1>5, <1>6

\* The command of the one process that waits is answered.
LEMMA CommandPace ==
  ASSUME Running, UNCHANGED subVars, NEW i \in Fds, NEW k \in 1..Len(clients),
         ManageCommand(i, k) \/ ManageExit(i, k)
  PROVE  AtPace'
  <1>1. AtPace /\ TypeOK /\ WireTypeOK /\ ServerTypeOK /\ FilesMatch /\ Conversing
        /\ Settled
    BY CalmParts
  <1>2. /\ pc = "loop" /\ pc' = "loop" /\ i \in tmp_fds /\ ServerMayRecv(file[i])
        /\ tmp_fds' \subseteq tmp_fds /\ UNCHANGED <<cliEnd, udp, stdin>>
    BY DEF ManageCommand, ManageExit, Commanding, Turn, Pending, Peer, inputVars
  <1>3. file[i] # NoConn
    BY <1>1, <1>2 DEF Settled, InStep, StaysReady, Bookkeeping, SocketsKnown, Ended
  <1>4. PICK p \in Conns : p = file[i] /\ srvEnd[p] = "open"
    BY <1>1, <1>2, <1>3, OpenFile DEF Ended
  <1>5. cliEnd[p] = "open" /\ spc[p] \in {"loop"} \cup Waiting /\ InDialogue(p)
    BY <1>2, <1>4, OpenPeer
  <1>6. c2s[p] # << >> /\ Incoming(p) = Head(c2s[p])
    BY <1>2, <1>4, <1>5 DEF ServerMayRecv, Incoming
  <1>7. spc[p] \in Waiting /\ spc[p] # "await_request" /\ s2c[p] = << >>
    <2>1. Free
      BY <1>2 DEF Free, AckWaits
    <2> QED BY <1>1, <1>4, <1>5, <1>6, <2>1, CommandAlone
  <1>8. /\ Served(p) /\ udp = << >> /\ ~stdin
        /\ \A q \in Conns : q # p => spc[q] \notin Waiting /\ Still(q)
    BY <1>1, <1>7 DEF AtPace, OneWaits
  <1>9. Incoming(p).type = DISCONNECT <=> spc[p] = "await_exit"
    BY <1>6, <1>7, <1>8 DEF Served
  <1>10. s2c' = [s2c EXCEPT ![p] = Append(@, Control(RESPONSE))]
    BY <1>4, <1>5 DEF ManageCommand, ManageExit, Send, Peer, ToClient
  <1>11. s2c'[p] = <<Control(RESPONSE)>> /\ \A q \in Conns : q # p => s2c'[q] = s2c[q]
    BY <1>1, <1>7, <1>10 DEF WireTypeOK
  <1>12. s2c'[p] # << >> /\ Head(s2c'[p]).type = RESPONSE
    BY <1>11 DEF Control
  <1>13. /\ srvEnd'[p] = IF spc[p] = "await_exit" THEN "closed" ELSE "open"
         /\ \A q \in Conns : q # p => srvEnd'[q] = srvEnd[q]
    BY <1>1, <1>4, <1>9 DEF ManageCommand, ManageExit, CloseFd, Peer, WireTypeOK
  <1>14. \A q \in Conns : q # p => c2s'[q] = c2s[q]
    BY <1>1, <1>4, ServerReads DEF ManageCommand, ManageExit, Peer
  <1>15. OneWaits'
    <2>1. \A q \in Conns : q # p => Still(q)'
      BY <1>2, <1>8, <1>11, <1>13, <1>14, StillThen
    <2>2. Served(p)'
      BY <1>2, <1>7, <1>12, <1>13 DEF Served, subVars
    <2> QED BY <1>2, <1>8, <2>1, <2>2 DEF OneWaits, subVars
  <1>16. \A j \in 1..Len(clients') : clients'[j].sock = -1 => ~clients'[j].online
    <2>1. CASE ManageCommand(i, k)
      <3>1. Incoming(p) \in C2S /\ clients' \in AfterCommand(k, Incoming(p))
        BY <1>1, <1>4, <2>1, HeaderType DEF ManageCommand, Peer
      <3>2. SameClients(clients')
        BY <1>1, <3>1, CommandType
      <3> QED BY <3>2, SameAway
    <2>2. CASE ManageExit(i, k)
      <3> SUFFICES ASSUME NEW j \in 1..Len(clients'), clients'[j].sock = -1
                   PROVE  ~clients'[j].online
        OBVIOUS
      <3>1. clients' = [clients EXCEPT ![k].sock = -1, ![k].online = FALSE]
        BY <2>2 DEF ManageExit
      <3>2. Len(clients') = Len(clients) /\ clients[j] \in Client /\ clients \in Seq(Client)
        BY <1>1, <3>1, ClientType DEF ServerTypeOK
      <3>3. IF j = k THEN clients'[j].online = FALSE ELSE clients'[j] = clients[j]
        BY <3>1, <3>2 DEF Client
      <3> QED BY <1>1, <3>2, <3>3 DEF AtPace, Announced
    <2> QED BY <2>1, <2>2
  <1>17. Announced'
    <2>1. \A q \in Conns : srvEnd[q] = "backlog" => srvEnd'[q] = "backlog"
      BY <1>4, <1>13
    <2> QED BY <1>2, <1>16, <2>1, AnnouncedStill
  <1>18. ASSUME NEW q \in Conns PROVE Serves(q)
    <2>1. CASE q = p
      <3>1. Len(s2c'[p]) = 1 /\ s2c'[p][1].type # REFUSED
        BY <1>11 DEF Control, RESPONSE, REFUSED
      <3>2. \A n \in 1..Len(s2c'[p]) : s2c'[p][n].type # REFUSED
        BY <3>1
      <3>3. spc[p] # "loop"
        BY <1>7 DEF Waiting
      <3> QED BY <1>4, <1>13, <2>1, <3>2, <3>3 DEF Serves
    <2>2. CASE q # p
      BY <1>11, <1>13, <2>2 DEF Serves
    <2> QED BY <2>1, <2>2
  <1> QED BY <1>2, <1>15, <1>17, <1>18, ServerPace

\* The farewell to a client: its process is in its main loop, and reads it.
LEMMA SayByePace ==
  ASSUME Running, UNCHANGED subVars, SayBye
  PROVE  AtPace'
  <1>1. AtPace /\ TypeOK /\ WireTypeOK /\ SubTypeOK /\ ServerTypeOK /\ FilesMatch /\ PeersOpen
        /\ Settled
    BY CalmParts
  <1>2. /\ pc = "bye" /\ pc' = "bye_ack" /\ at \in 1..Len(clients)
        /\ UNCHANGED <<c2s, cliEnd, srvEnd, clients, file, setVars, at, stdin, subVars>>
    BY <1>1, CalmParts DEF SayBye, Bookkeeping, Placed, ServerTypeOK, inputVars
  <1>3. Here.sock \in Fds /\ file[Here.sock] # NoConn
    BY <1>1, <1>2, ClientType DEF SayBye, PeersOpen, Here, Client
  <1>4. PICK p \in Conns : p = file[Here.sock] /\ srvEnd[p] = "open" /\ p = HerePeer
    BY <1>1, <1>2, <1>3, OpenFile DEF Ended, HerePeer, Peer
  <1>5. \A q \in Conns : spc[q] \notin Waiting
    BY <1>2, NobodyWaits
  <1>6. cliEnd[p] = "open" /\ spc[p] = "loop"
    BY <1>2, <1>4, <1>5, OpenPeer
  <1>7. ~Acking(p) /\ ~Joining(p)
    BY <1>2 DEF Acking, Joining, AckWaits
  <1>8. s2c[p] = << >> /\ c2s[p] = << >>
    BY <1>1, <1>4, <1>6, <1>7, QuietLoop
  <1>9. s2c' = [s2c EXCEPT ![p] = Append(@, Control(REFUSED))]
    BY <1>4, <1>6 DEF SayBye, Send, ToClient
  <1>10. s2c'[p] = <<Control(REFUSED)>> /\ \A q \in Conns : q # p => s2c'[q] = s2c[q]
    BY <1>1, <1>8, <1>9 DEF WireTypeOK
  <1>11. \A q \in Conns : Acking(q)' <=> q = p
    BY <1>2, <1>4 DEF Acking, Here, AckWaits
  <1>12. OneWaits'
    BY <1>2, <1>5 DEF OneWaits, subVars
  <1>13. Attended'
    BY <1>1, <1>2 DEF AtPace, Attended
  <1>14. Farewell'
    <2>1. s2c'[p] # << >> /\ Head(s2c'[p]).type = REFUSED
      BY <1>10 DEF Control
    <2> QED BY <1>2, <1>6, <1>8, <1>11, <2>1 DEF Farewell, subVars
  <1>15. Dismissed'
    BY <1>1, <1>2, <1>4, <1>10 DEF AtPace, Dismissed, subVars
  <1>16. Announced'
    BY <1>1, <1>2 DEF AtPace, Announced, setVars
  <1> QED BY <1>12, <1>13, <1>14, <1>15, <1>16 DEF AtPace

\* The farewell has been answered by a process that has left.
LEMMA AckByePace ==
  ASSUME Running, UNCHANGED subVars, AckBye
  PROVE  AtPace'
  <1>1. AtPace /\ TypeOK /\ WireTypeOK /\ ServerTypeOK /\ FilesMatch /\ Orderly /\ Conversing
    BY CalmParts
  <1>2. /\ pc = "bye_ack" /\ pc' = "bye" /\ Acked
        /\ UNCHANGED <<s2c, cliEnd, clients, setVars, stdin, subVars>>
    BY DEF AckBye, inputVars
  <1>3. Here.sock \in Fds /\ file[Here.sock] # NoConn /\ file[Here.sock] = HerePeer
    BY <1>1, <1>2, AwaitedPeer DEF Acked
  <1>4. PICK p \in Conns : p = file[Here.sock] /\ srvEnd[p] = "open" /\ p = HerePeer
    BY <1>1, <1>2, <1>3, OpenFile DEF Ended
  <1>5. Acking(p)
    BY <1>2, <1>4 DEF Acking, Here, AckWaits
  <1>6. srvEnd' = [srvEnd EXCEPT ![p] = "closed"]
    BY <1>4 DEF AckBye, CloseFd, Peer
  <1>7. srvEnd'[p] = "closed" /\ \A q \in Conns : q # p => srvEnd'[q] = srvEnd[q]
    BY <1>1, <1>6 DEF WireTypeOK
  <1>8. c2s[p] # << >>
    BY <1>2, <1>4 DEF Acked, Incoming, ZeroC2S, Command, ACK
  <1>9. spc[p] # "loop"
    <2>1. cliEnd[p] = "closed"
      BY <1>1, <1>2, <1>5, <1>8 DEF AtPace, Farewell
    <2> QED BY <1>1, <2>1 DEF Conversing, InDialogue, Ends
  <1>10. \A q \in Conns : q # p => ~Acking(q)
    BY <1>4 DEF Acking, Here
  <1>11. OneWaits'
    <2>1. \A q \in Conns : spc[q] \notin Waiting
      BY <1>2, NobodyWaits
    <2> QED BY <1>2, <2>1 DEF OneWaits, subVars
  <1>12. Attended'
    BY <1>1, <1>2, <1>7, <1>10 DEF AtPace, Attended
  <1>13. Farewell'
    <2>1. ASSUME NEW q \in Conns, NEW k \in 1..Len(s2c[q]),
                 s2c[q][k].type = REFUSED, srvEnd'[q] = "open"
          PROVE  FALSE
      <3>1. q # p /\ srvEnd[q] = "open" /\ ~Acking(q) /\ InDialogue(q)
        BY <1>1, <1>7, <1>10, <2>1 DEF Conversing
      <3> QED BY <2>1, <3>1 DEF InDialogue, Down, IsPushed
    <2> QED BY <1>2, <2>1 DEF Farewell
  <1>14. Dismissed'
    BY <1>1, <1>2, <1>7, <1>9 DEF AtPace, Dismissed, subVars
  <1>15. Announced'
    <2>1. \A q \in Conns : srvEnd[q] = "backlog" => srvEnd'[q] = "backlog"
      BY <1>4, <1>7
    <2>2. SameClients(clients')
      BY <1>2 DEF SameClients
    <2> QED BY <1>2, <2>1, <2>2, SameAway, AnnouncedStill DEF setVars
  <1> QED BY <1>11, <1>12, <1>13, <1>14, <1>15 DEF AtPace

-----------------------------------------------------------------------------
\* How the server may end.

\* It never waits for an acknowledgement that does not come.
LEMMA AckComes ==
  ASSUME Running, LackAck
  PROVE  FALSE
  <1>1. AtPace /\ TypeOK /\ WireTypeOK /\ FilesMatch /\ Orderly /\ Conversing /\ Settled
    BY CalmParts
  <1>2. pc \in AckWaits /\ ServerMayRecv(HerePeer) /\ Incoming(HerePeer).type # ACK
    BY DEF LackAck
  <1>3. Here.sock \in Fds /\ file[Here.sock] # NoConn /\ file[Here.sock] = HerePeer
    BY <1>1, <1>2, AwaitedPeer
  <1>4. PICK p \in Conns : p = HerePeer /\ srvEnd[p] = "open"
    BY <1>1, <1>3, OpenFile, CalmParts
  <1>5. Acking(p) /\ ~Joining(p)
    BY <1>2, <1>3, <1>4 DEF Acking, Joining, Here, AckWaits
  <1>6. CASE pc = "bye_ack"
    <2>1. \/ spc[p] = "loop" /\ c2s[p] = << >>
          \/ c2s[p] # << >> /\ Head(c2s[p]).type = ACK
      BY <1>1, <1>5, <1>6 DEF AtPace, Farewell
    <2>2. spc[p] = "loop" => cliEnd[p] # "closed"
      BY <1>1 DEF Conversing, InDialogue, Ends
    <2> QED BY <1>2, <1>4, <2>1, <2>2 DEF ServerMayRecv, Incoming
  <1>7. CASE pc # "bye_ack"
    <2>1. cliEnd[p] = "open" /\ spc[p] \in {"loop"} \cup Waiting /\ InDialogue(p)
      BY <1>4, <1>7, OpenPeer
    <2>2. spc[p] = "loop"
      BY <1>2, <2>1, NobodyWaits DEF AckWaits
    <2>3. c2s[p] # << >> /\ c2s[p] \in Seq(C2S)
      BY <1>1, <1>2, <1>4, <2>1 DEF ServerMayRecv, WireTypeOK
    <2>4. 1 \in 1..Len(c2s[p]) /\ Incoming(p) = c2s[p][1]
      BY <2>3 DEF Incoming
    <2>5. Answer(p)
      BY <1>4, <2>1, <2>2, <2>4 DEF InDialogue, Up, Request
    <2> QED BY <1>2, <1>4, <1>5, <2>4, <2>5 DEF Answer
  <1> QED BY <1>6, <1>7

\* Nothing is ever sent to a process that is gone, but the farewell.
LEMMA PeerThere ==
  ASSUME Running, NEW i \in Fds, file[i] # NoConn, pc # "bye_ack"
  PROVE  ~MayFail(Peer(i))
  <1>1. file[i] \in Conns /\ srvEnd[file[i]] = "open"
    BY OpenFile, CalmParts
  <1> QED BY <1>1, OpenPeer DEF MayFail, Peer

\* What is left of the reasons to abort.
AcceptEnds == Turn(TCP) /\ (\A i \in Fds : file[i] # NoConn) /\ \E p \in Conns : srvEnd[p] = "backlog"
ByeEnds == pc = "bye" /\ at \in 1..Len(clients) /\ stdin /\ ~Here.online
CorruptEnds == pc = "loop" /\ \E k \in 1..Len(clients) : Dangling(clients[k].subs)
MalformedEnds == pc = "loop" /\ malformed /\ udp = << >>

\* accept() fails only for want of a descriptor.
LEMMA AcceptEndsSo ==
  ASSUME Running, AcceptFails
  PROVE  AcceptEnds
  <1>1. \E p \in Conns : srvEnd[p] = "backlog"
    BY CalmParts DEF AcceptFails, Turn, Pending, AtPace, Announced
  <1>2. ASSUME NEW p \in Conns, srvEnd[p] = "backlog" PROVE ~MayFail(p)
    BY <1>2, OpenPeer DEF AcceptFails, Turn, MayFail
  <1> QED BY <1>1, <1>2 DEF AcceptFails, AcceptEnds

\* The farewell fails only at a client that is offline.
LEMMA ByeEndsSo ==
  ASSUME Running, ByeFails
  PROVE  ByeEnds
  <1>1. ServerTypeOK /\ AtPace /\ PeersOpen /\ Bookkeeping
    BY CalmParts
  <1>2. pc = "bye" /\ at \in 1..Len(clients) /\ (Here.sock # -1 => MayFail(HerePeer))
    BY <1>1 DEF ByeFails, Bookkeeping, Placed, ServerTypeOK
  <1>3. Here.sock = -1
    <2> SUFFICES ASSUME Here.sock # -1 PROVE FALSE
      OBVIOUS
    <2>1. Here.sock \in Fds /\ file[Here.sock] # NoConn
      BY <1>1, <1>2, ClientType DEF PeersOpen, Here, Client
    <2> QED BY <1>2, <2>1, PeerThere DEF HerePeer
  <1> QED BY <1>1, <1>2, <1>3 DEF ByeEnds, AtPace, Announced, Here

\* The server ends in one of these ways, or because it was told to.
LEMMA WaysToEnd ==
  ASSUME Running, ServerStep, pc' \in Ended
  PROVE  \/ Die /\ (AcceptEnds \/ ByeEnds \/ CorruptEnds \/ MalformedEnds)
         \/ Stop
  <1>1. AtPace /\ TypeOK /\ ServerTypeOK /\ Bookkeeping /\ Settled /\ InStep
    BY CalmParts
  <1>2. CASE AcceptFails
    BY <1>2, AcceptEndsSo DEF AcceptFails
  <1>3. ASSUME NEW p \in Conns, NoIdentity(p) \/ IdentityUnrefusable(p) PROVE FALSE
    BY <1>3, NobodyWaitsElse DEF NoIdentity, IdentityUnrefusable, MayFail
  <1>4. ASSUME SendQueuedFails PROVE FALSE
    <2>1. pc = "drain" /\ MayFail(HerePeer)
      BY <1>4 DEF SendQueuedFails
    <2>2. file[new_sockfd] # NoConn /\ new_sockfd \in Fds /\ clients[at].sock = new_sockfd
      BY <1>1, <2>1 DEF Bookkeeping, Placed, Settling
    <2> QED BY <2>1, <2>2, PeerThere DEF HerePeer, Here
  <1>5. ASSUME ForwardFails PROVE FALSE
    <2>1. pc = "deliver" /\ at \in 1..Len(clients) /\ Here.online /\ MayFail(HerePeer)
      BY <1>1, <1>5 DEF ForwardFails, ToSend, Visiting, Bookkeeping, Placed, ServerTypeOK
    <2>2. HerePeer \in Conns /\ srvEnd[HerePeer] = "open"
      BY <1>1, <2>1, ClientHere
    <2> QED BY <2>1, <2>2, OpenPeer DEF MayFail
  <1>6. CASE ByeFails
    BY <1>6, ByeEndsSo DEF ByeFails
  <1>7. ASSUME NEW i \in Fds, NEW k \in 1..Len(clients), ResponseFails(i, k) PROVE FALSE
    <2>1. pc = "loop" /\ i \in tmp_fds /\ MayFail(Peer(i))
      BY <1>7 DEF ResponseFails, Commanding, Turn, Pending
    <2>2. file[i] # NoConn
      BY <1>1, <2>1 DEF InStep, StaysReady, Bookkeeping, SocketsKnown, Ended
    <2> QED BY <2>1, <2>2, PeerThere
  <1>8. ASSUME NEW i \in Fds, NEW k \in 1..Len(clients), Corrupt(i, k)
        PROVE  Die /\ CorruptEnds
    BY <1>8 DEF Corrupt, Commanding, Turn, CorruptEnds
  <1>9. ~LackAck
    BY AckComes
  <1>10. ASSUME \/ Select \/ (\E p \in Conns : AcceptConnection(p))
                \/ \E p \in Conns : NewClient(p) \/ RefuseClient(p) \/ ReturnClient(p)
         PROVE  FALSE
    BY <1>1, <1>10, CalmParts DEF Select, AcceptConnection, NewClient, RefuseClient, ReturnClient,
       Register, Ended
  <1>11. ASSUME \/ SendQueued \/ QueueEmptied \/ AckQueued \/ ReceiveDatagram \/ Skip \/ Enqueue
                \/ Forward \/ AckForward \/ Forwarded
         PROVE  FALSE
    BY <1>11, CalmParts DEF SendQueued, QueueEmptied, AckQueued, ReceiveDatagram, Skip, Enqueue,
       Forward, AckForward, Forwarded, Register, Ended
  <1>12. ASSUME \/ ReceiveExit \/ SayBye \/ AckBye
                \/ \E i \in Fds, k \in 1..Len(clients) : ManageCommand(i, k) \/ ManageExit(i, k)
         PROVE  FALSE
    BY <1>12, CalmParts DEF ReceiveExit, SayBye, AckBye, ManageCommand, ManageExit, Ended
  <1>13. CASE ReceiveMalformed
    BY <1>13 DEF ReceiveMalformed, Turn, MalformedEnds
  <1> QED BY <1>2, <1>3, <1>4, <1>5, <1>6, <1>7, <1>8, <1>9, <1>10, <1>11, <1>12, <1>13
          DEF ServerStep, Accepting, Identifying, Draining, Forwarding, Leaving, Commands

-----------------------------------------------------------------------------
\* Every step.

\* Nothing is under way when the server ends.
LEMMA EndPace ==
  ASSUME Running, ServerRuns, pc' \in Ended
  PROVE  (\A p \in Conns : Carrying(p)' = {}) /\ cur' = 0
  <1>1. Settled /\ (pc \notin {"deliver", "await_ack"} => cur = 0) /\ ServerStep
    BY CalmParts DEF ServerRuns
  <1>2. pc \in {"loop", "bye"} /\ UNCHANGED <<s2c, cur>>
    BY <1>1, WaysToEnd DEF AcceptEnds, Turn, ByeEnds, CorruptEnds, MalformedEnds, Stop, Die, Terminate
  <1>3. \A p \in Conns : Carrying(p) = {}
    BY <1>1, <1>2, NothingCarried DEF AckWaits, Ended
  <1> QED BY <1>1, <1>2, <1>3 DEF Carrying

\* A step of the server under which it goes on.
LEMMA GoesOnPace ==
  ASSUME Running, ServerRuns, pc' \notin Ended
  PROVE  AtPace' /\ (pc' \notin {"deliver", "await_ack"} => cur' = 0)
  <1>1. ServerStep /\ UNCHANGED subVars /\ (pc \notin {"deliver", "await_ack"} => cur = 0)
    BY CalmParts DEF ServerRuns
  <1>2. CASE Select
    BY <1>1, <1>2, SelectPace DEF Select
  <1>3. CASE Accepting
    BY <1>1, <1>3, AcceptPace
       DEF Accepting, AcceptFails, Die, Terminate, Ended, AcceptConnection, Turn
  <1>4. CASE Identifying
    <2>1. PICK p \in Conns : NewClient(p) \/ RefuseClient(p) \/ ReturnClient(p)
      BY <1>4 DEF Identifying, NoIdentity, IdentityUnrefusable, Die, Terminate, Ended
    <2>2. AtPace'
      BY <1>1, <2>1, IdentifyPace
    <2>3. pc \notin {"deliver", "await_ack"} /\ cur' = cur
      BY <2>1 DEF NewClient, RefuseClient, ReturnClient, Identified, Answering
    <2> QED BY <1>1, <2>2, <2>3
  <1>5. CASE Draining \/ Forwarding \/ ReceiveExit
    BY <1>1, <1>5, BusyPace DEF Draining, Forwarding, SendQueuedFails, ReceiveMalformed,
       ForwardFails, Die, Terminate, Ended
  <1>6. CASE Leaving /\ ~ReceiveExit
    <2>1. SayBye \/ AckBye
      BY <1>6 DEF Leaving, ByeFails, Stop, Die, Terminate, Ended
    <2>2. pc \notin {"deliver", "await_ack"} /\ cur' = cur
      BY <2>1 DEF SayBye, AckBye
    <2> QED BY <1>1, <2>1, <2>2, SayByePace, AckByePace
  <1>7. CASE LackAck
    BY <1>7 DEF LackAck, Die, Terminate, Ended
  <1>8. CASE Commands
    <2>1. PICK i \in Fds, k \in 1..Len(clients) : ManageCommand(i, k) \/ ManageExit(i, k)
      BY <1>8 DEF Commands, ResponseFails, Corrupt, Die, Terminate, Ended
    <2>2. pc \notin {"deliver", "await_ack"} /\ cur' = cur
      BY <2>1 DEF ManageCommand, ManageExit, Commanding, Turn
    <2> QED BY <1>1, <2>1, <2>2, CommandPace
  <1> QED BY <1>1, <1>2, <1>3, <1>4, <1>5, <1>6, <1>7, <1>8 DEF ServerStep, Leaving

\* While the server runs, nothing that was shown is a phantom, so that none is
\* when it has ended either.
LEMMA StillNoPhantom ==
  ASSUME Running, UNCHANGED shown
  PROVE  Phantoms'
  <1>1. \A i \in Ids : \A j \in 1..Len(shown[i]) : shown[i][j] # 0
    BY DEF Running, Calm, Phantoms
  <1> QED BY <1>1 DEF Phantoms

\* A server that has ended takes no step.
LEMMA EndedStays ==
  ASSUME pc \in Ended
  PROVE  ~ServerStep
  <1>1. pc \notin {"loop", "await_id", "drain", "deliver", "bye"} \cup AckWaits
    BY DEF Ended, AckWaits
  <1>2. ~(Select \/ Accepting \/ Identifying \/ Draining)
    BY <1>1 DEF Select, Accepting, AcceptConnection, AcceptFails, Turn, Identifying, NewClient,
       RefuseClient, ReturnClient, NoIdentity, IdentityUnrefusable, Identified, Answering,
       Draining, SendQueued, SendQueuedFails, QueueEmptied, AckQueued, AckWaits
  <1>3. ~(Forwarding \/ Leaving)
    BY <1>1 DEF Forwarding, ReceiveDatagram, ReceiveMalformed, Skip, Enqueue, Forward, ForwardFails, AckForward,
       Forwarded, Turn, ToSend, ToStore, Visiting, Leaving, ReceiveExit, SayBye, ByeFails,
       AckBye, Stop, AckWaits
  <1>4. ~(LackAck \/ Commands)
    BY <1>1 DEF LackAck, Commands, ManageCommand, ManageExit, ResponseFails, Corrupt,
       Commanding, Turn
  <1> QED BY <1>2, <1>3, <1>4 DEF ServerStep

\* A process only takes away what is under way to it.
LEMMA StepCarriesLess ==
  ASSUME WireTypeOK, NEW p \in Conns, SubscriberStep(p)
  PROVE  CarriesLess
  <1>1. ASSUME s2c' \in AfterClientRecv(p) \/ UNCHANGED s2c PROVE CarriesLess
    BY <1>1, LessRead, LessSame
  <1>2. ASSUME NEW how, Quit(p, how, s2c) PROVE CarriesLess
    BY <1>2, LessQuit
  <1>3. CASE Answered(p)
    <2>1. ASSUME s2c[p] # << >> PROVE s2c' \in AfterClientRecv(p)
      <3>1. 1 \in 1..Len(s2c[p])
        BY <2>1 DEF WireTypeOK
      <3>2. s2c' = [s2c EXCEPT ![p] = SubSeq(@, 1 + 1, Len(@))]
        BY <1>3 DEF Answered, AfterClientRecvOne
      <3> QED BY <2>1, <3>1, <3>2 DEF AfterClientRecv
    <2>2. s2c[p] # << >>
      BY <1>3 DEF Answered, Arrived, ZeroS2C, Control, RESPONSE
    <2> QED BY <1>1, <2>1, <2>2
  <1> QED BY <1>1, <1>2, <1>3 DEF SubscriberStep, SendId, ExitAnswered, WrongHeader,
          ReceiveData, ReceiveRefused, ReceiveEnd

\* Every step keeps the pace.
LEMMA NextPace == Calm /\ [Next]_vars => (Pace /\ Phantoms)'
  <1> SUFFICES ASSUME Calm, [Next]_vars PROVE Pace' /\ Phantoms'
    OBVIOUS
  <1>1. CASE pc \notin Ended
    <2>0. Running /\ (pc \notin {"deliver", "await_ack"} => cur = 0)
      BY <1>1, CalmParts DEF Running
    <2>1. CASE Environment
      <3>1. AtPace' /\ pc' = pc /\ cur' = cur /\ shown' = shown
        BY <2>0, <2>1, EnvironmentPace
      <3> QED BY <1>1, <2>0, <3>1, StillNoPhantom DEF Pace, AtPace
    <2>2. CASE ServerRuns
      <3>1. Phantoms'
        BY <2>0, <2>2, StillNoPhantom DEF ServerRuns, subVars
      <3>2. CASE pc' \in Ended
        BY <2>0, <2>2, <3>1, <3>2, EndPace DEF Pace
      <3>3. CASE pc' \notin Ended
        BY <2>0, <2>2, <3>1, <3>3, GoesOnPace DEF Pace, AtPace
      <3> QED BY <3>2, <3>3
    <2>3. ASSUME NEW p \in Conns, ProcessRuns(p) PROVE Pace' /\ Phantoms'
      <3>1. AtPace' /\ Phantoms' /\ pc' = pc /\ cur' = cur
        BY <2>0, <2>3, ProcessPace DEF ProcessRuns, serverVars
      <3> QED BY <1>1, <2>0, <3>1 DEF Pace, AtPace
    <2>4. CASE UNCHANGED vars
      <3>1. /\ UNCHANGED <<wireVars, subVars, pc, clients, file, tmp_fds, new_sockfd, at, cur>>
            /\ UNCHANGED <<udp, stdin>>
        BY <2>4 DEF vars, serverVars, setVars, inputVars
      <3>2. OneWaits' = OneWaits /\ Attended' = Attended
        BY <3>1 DEF OneWaits, Served, Still, Joining, Attended, Acking, wireVars, subVars
      <3>3. Farewell' = Farewell /\ Dismissed' = Dismissed /\ Announced' = Announced
        BY <3>1 DEF Acking, Farewell, Dismissed, Announced, wireVars, subVars
      <3>4. AtPace' = AtPace
        BY <3>2, <3>3 DEF AtPace
      <3>5. AtPace
        BY <2>0, CalmParts
      <3> QED BY <1>1, <2>0, <3>1, <3>4, <3>5, StillNoPhantom DEF Pace, AtPace, subVars
    <2> QED BY <2>1, <2>2, <2>3, <2>4 DEF Next
  <1>2. CASE pc \in Ended
    <2>0. /\ Settled /\ TypeOK /\ WireTypeOK /\ \A p \in Conns : Carrying(p) = {}
          /\ pc \notin {"deliver", "await_ack"} /\ cur = 0
      BY <1>2 DEF Calm, Settled, Bookkeeping, TypeOK, Pace, Ended
    <2>1. ~Environment
      BY <1>2 DEF Environment, UserConnects, UserTypes, Kill, Publish, PublishMalformed, TypeServerExit,
         Listening, AtRest, Calm, Tame, Ended
    <2>2. ~ServerRuns
      BY <1>2, EndedStays DEF ServerRuns
    <2>3. ASSUME NEW p \in Conns, ProcessRuns(p) PROVE Pace' /\ Phantoms'
      <3>1. pc' = pc /\ cur' = cur /\ SubscriberStep(p)
        BY <2>3 DEF ProcessRuns, serverVars
      <3>2. CarriesLess
        BY <2>0, <3>1, StepCarriesLess
      <3>3. \A q \in Conns : Carrying(q)' = {}
        BY <2>0, <3>2 DEF CarriesLess
      <3> QED BY <1>2, <2>0, <2>3, <3>1, <3>3, NoPhantom DEF Pace
    <2>4. CASE UNCHANGED vars
      BY <1>2, <2>0, <2>4 DEF Calm, Pace, Phantoms, vars, wireVars, serverVars, subVars, Carrying
    <2> QED BY <2>1, <2>2, <2>3, <2>4 DEF Next
  <1> QED BY <1>1, <1>2

\* Nobody is there at the start.
LEMMA InitPace == Init => Pace /\ Phantoms
  <1> SUFFICES ASSUME Init PROVE Pace /\ Phantoms
    OBVIOUS
  <1>1. /\ pc = "loop" /\ clients = << >> /\ tmp_fds = {} /\ cur = 0
        /\ \A p \in Conns : spc[p] = "off" /\ srvEnd[p] = "none" /\ s2c[p] = << >>
        /\ \A i \in Ids : shown[i] = << >>
    BY DEF Init, WireInit, SubInit, ServerInit
  <1>2. ASSUME NEW p \in Conns PROVE 1..Len(s2c[p]) = {}
    BY <1>1
  <1>3. 1..Len(clients) = {} /\ \A i \in Ids : 1..Len(shown[i]) = {}
    BY <1>1
  <1>4. OneWaits /\ Attended /\ Farewell /\ Dismissed /\ Announced
    BY <1>1, <1>2, <1>3 DEF OneWaits, Waiting, Attended, Farewell, Dismissed, Announced
  <1> QED BY <1>1, <1>3, <1>4 DEF Pace, Phantoms, Ended

-----------------------------------------------------------------------------
\* Why the server aborts.

\* With a descriptor for every process, accept() finds one: those in use stand
\* for other processes than the one that waits in the backlog.
LEMMA DescriptorLeft ==
  ASSUME Running, EnoughFds
  PROVE  ~AcceptEnds
  <1> SUFFICES ASSUME AcceptEnds PROVE FALSE
    OBVIOUS
  <1>1. TypeOK /\ FilesMatch /\ ServerTypeOK /\ pc \notin Ended
    BY CalmParts
  <1>2. PICK p \in Conns : srvEnd[p] = "backlog"
    BY DEF AcceptEnds
  <1>3. \A i \in Fds : file[i] \in Conns /\ file[i] # p
    <2> SUFFICES ASSUME NEW i \in Fds PROVE file[i] \in Conns /\ file[i] # p
      OBVIOUS
    <2>1. file[i] # NoConn
      BY DEF AcceptEnds
    <2> QED BY <1>1, <1>2, <2>1, OpenFile
  <1>4. file \in [Fds -> Conns \ {p}]
    BY <1>1, <1>3 DEF ServerTypeOK
  <1>5. IsFiniteSet(Fds)
    BY ServerAssumption, FS_Interval DEF Fds, FirstFd
  <1>6. /\ IsFiniteSet(Conns \ {p})
        /\ Cardinality(Conns \ {p}) = Cardinality(Conns) - 1
    BY <1>2, FS_RemoveElement DEF EnoughFds
  <1>7. Cardinality(Conns \ {p}) < Cardinality(Fds)
    <2>1. Cardinality(Conns) \in Nat /\ Cardinality(Fds) \in Nat
      BY <1>5, FS_CardinalityType DEF EnoughFds
    <2> QED BY <1>6, <2>1 DEF EnoughFds
  <1>8. PICK i, j \in Fds : i # j /\ file[i] = file[j]
    BY <1>4, <1>5, <1>6, <1>7, FS_PigeonHole
  <1>9. file[i] # NoConn
    BY DEF AcceptEnds
  <1> QED BY <1>1, <1>8, <1>9 DEF FilesMatch

\* The reasons that are left stay what they were when the server aborted.
Explained ==
  pc = "dead" =>
    \/ stdin /\ \E k \in 1..Len(clients) : ~clients[k].online
    \/ \E k \in 1..Len(clients) : Dangling(clients[k].subs)
    \/ malformed /\ udp = << >>

\* Every step keeps the explanation.
LEMMA NextExplained ==
  ASSUME Calm, EnoughFds, Explained, [Next]_vars
  PROVE  Explained'
  <1>1. CASE Environment
    <2>1. Listening \/ AtRest
      BY <1>1 DEF Environment, UserConnects, UserTypes, Kill, Publish, PublishMalformed,
                  TypeServerExit, Calm, Tame
    <2>2. pc # "dead" /\ pc' = pc
      BY <1>1, <2>1 DEF Listening, AtRest, Ended, Environment, UserConnects, UserTypes, Kill,
                        Publish, PublishMalformed, TypeServerExit, serverVars
    <2> QED BY <2>2 DEF Explained
  <1>2. ASSUME NEW p \in Conns, ProcessRuns(p) PROVE Explained'
    BY <1>2 DEF ProcessRuns, Explained, serverVars, inputVars
  <1>3. CASE ServerRuns
    <2> SUFFICES ASSUME pc' = "dead" PROVE Explained'
      BY DEF Explained
    <2>1. CASE pc \notin Ended
      <3>1. Running /\ pc' \in Ended /\ ServerStep
        BY <1>3, <2>1 DEF Running, ServerRuns, Ended
      <3>2. Die /\ (ByeEnds \/ CorruptEnds \/ MalformedEnds)
        BY <3>1, WaysToEnd, DescriptorLeft DEF Stop, Terminate
      <3> QED BY <3>2 DEF Die, Terminate, inputVars, ByeEnds, CorruptEnds, MalformedEnds, Here, Explained
    <2>2. CASE pc \in Ended
      BY <1>3, <2>2, EndedStays DEF ServerRuns
    <2> QED BY <2>1, <2>2
  <1>4. CASE UNCHANGED vars
    BY <1>4 DEF vars, serverVars, inputVars, Explained
  <1> QED BY <1>1, <1>2, <1>3, <1>4 DEF Next

-----------------------------------------------------------------------------
\* The theorems.

\* While users wait their turn and nobody is killed, one process waits for the
\* server at a time, and what it waits for is under way; the server has no
\* connection to a process that is gone; and when it ends, it takes no
\* publication with it.
THEOREM KeepsPace == Spec => []InPace
  <1>1. Init => InPace
    BY InitPace DEF InPace
  <1>2. Bookkeeping /\ InStep /\ InSequence /\ InPace /\ [Next]_vars => InPace'
    BY NextPace DEF Calm, Settled, InPace, Tame
  <1> QED BY <1>1, <1>2, BooksInOrder, StaysInStep, StaysInSequence, PTL DEF Spec

\* With a descriptor for every process and nobody killed, the server aborts
\* only when it is told to exit while a client is offline, when a list has
\* lost its tail, or when it has taken all datagrams before a malformed one.
THEOREM AbortsHaveReasons == Spec => [](Killable = {} /\ EnoughFds => AbortsExplained)
  <1> DEFINE Inv == Tame /\ EnoughFds => Explained
  <1>1. Init => Inv
    BY DEF Init, ServerInit, Explained
  <1>2. Bookkeeping /\ InStep /\ InSequence /\ InPace /\ Inv /\ [Next]_vars => Inv'
    BY NextExplained DEF Calm, Settled, InPace, Tame, EnoughFds
  <1>3. Inv => (Killable = {} /\ EnoughFds => AbortsExplained)
    BY DEF Explained, AbortsExplained, Tame
  <1> HIDE DEF Inv
  <1> QED BY <1>1, <1>2, <1>3, BooksInOrder, StaysInStep, StaysInSequence, KeepsPace, PTL DEF Spec
=============================================================================
